------------------------- MODULE ReviewServiceProofs -------------------------
(***************************************************************************)
(* Theorems about ReviewService under every interleaving, for any number   *)
(* of threads, assessments, jobs and repositories, any plan, and requests  *)
(* that die anywhere: types, status and findings; consent on record before *)
(* an authorised scan; how far concurrent requests pass the plan's cap.    *)
(***************************************************************************)
EXTENDS ReviewService, FiniteSetTheorems, TLAPS

-----------------------------------------------------------------------------
(* The changes the service makes to one assessment: each keeps the value    *)
(* an Assessment, and keeps its status and findings explained by its jobs  *)
(* under the condition the handler establishes.                            *)

\* What a reader relies on when it is handed an assessment.
RecordExplained(b) == StatusExplained(b) /\ FindingsExplained(b)

-----------------------------------------------------------------------------
(* Types. *)

\* A new assessment (create_assessment) is one, with nothing to explain.
LEMMA NewAssessmentIsExplained ==
    /\ NewAssessment \in Assessment
    /\ RecordExplained(NewAssessment)
    /\ \A j \in Jobs : NewAssessment.job[j] = "none"
BY DEF NewAssessment, Assessment, Targets, AssessmentStatus, ScanStatus, RepositoryIngestStatus,
       RecordExplained, StatusExplained, FindingsExplained

\* start_analysis changes the status only.
LEMMA StartAnalysisFields ==
    ASSUME NEW b \in Assessment
    PROVE  /\ StartAnalysis(b) \in Assessment
           /\ StartAnalysis(b).job = b.job
           /\ StartAnalysis(b).target = b.target
           /\ StartAnalysis(b).authorized = b.authorized
           /\ StartAnalysis(b).findings = b.findings
           /\ StartAnalysis(b).repo = b.repo
           /\ StartAnalysis(b).status \in {"analyzing", "failed"}
           /\ StartAnalysis(b).status = "failed" => b.status = "failed"
BY DEF StartAnalysis, Assessment, AssessmentStatus

\* scan_jobs.append touches neither the status nor the findings.
LEMMA AppendJobFields ==
    ASSUME NEW b \in Assessment, NEW j \in Jobs, NEW s \in ScanStatus,
           NEW t \in Targets, NEW consent \in Consent
    PROVE  /\ AppendJob(b, j, s, t, consent) \in Assessment
           /\ AppendJob(b, j, s, t, consent).status = b.status
           /\ AppendJob(b, j, s, t, consent).findings = b.findings
           /\ AppendJob(b, j, s, t, consent).repo = b.repo
           /\ AppendJob(b, j, s, t, consent).authorized \subseteq b.authorized \cup {j}
           /\ consent = "absent" => AppendJob(b, j, s, t, consent).authorized = b.authorized
BY DEF AppendJob, Assessment

\* It adds the new job and changes no other entry.
LEMMA AppendJobEntry ==
    ASSUME NEW b \in Assessment, NEW j \in Jobs, NEW s \in ScanStatus,
           NEW t \in Targets, NEW consent \in Consent
    PROVE  /\ \A k \in Jobs : AppendJob(b, j, s, t, consent).job[k] = IF k = j THEN s ELSE b.job[k]
           /\ \A k \in Jobs : AppendJob(b, j, s, t, consent).target[k] = IF k = j THEN t
                  ELSE b.target[k]
BY DEF AppendJob, Assessment

\* A status change of a job touches nothing else.
LEMMA SetJobFields ==
    ASSUME NEW b \in Assessment, NEW j \in Jobs, NEW s \in ScanStatus
    PROVE  /\ SetJob(b, j, s) \in Assessment
           /\ SetJob(b, j, s).job = [b.job EXCEPT ![j] = s]
           /\ SetJob(b, j, s).status = b.status
           /\ SetJob(b, j, s).target = b.target
           /\ SetJob(b, j, s).authorized = b.authorized
           /\ SetJob(b, j, s).findings = b.findings
           /\ SetJob(b, j, s).repo = b.repo
BY DEF SetJob, Assessment

\* A status change of a repository touches nothing else.
LEMMA SetRepoFields ==
    ASSUME NEW b \in Assessment, NEW r \in Repos, NEW s \in RepositoryIngestStatus
    PROVE  /\ SetRepo(b, r, s) \in Assessment
           /\ SetRepo(b, r, s).repo = [b.repo EXCEPT ![r] = s]
           /\ SetRepo(b, r, s).status = b.status
           /\ SetRepo(b, r, s).job = b.job
           /\ SetRepo(b, r, s).target = b.target
           /\ SetRepo(b, r, s).authorized = b.authorized
           /\ SetRepo(b, r, s).findings = b.findings
BY DEF SetRepo, Assessment

\* The end of a scan touches the job, the findings and the status.
LEMMA FinishJobFields ==
    ASSUME NEW b \in Assessment, NEW j \in Jobs, NEW s \in Terminal
    PROVE  /\ FinishJob(b, j, s) \in Assessment
           /\ FinishJob(b, j, s).job = [b.job EXCEPT ![j] = s]
           /\ FinishJob(b, j, s).status = ReconciledStatus([b.job EXCEPT ![j] = s])
           /\ FinishJob(b, j, s).target = b.target
           /\ FinishJob(b, j, s).authorized = b.authorized
           /\ FinishJob(b, j, s).repo = b.repo
           /\ FinishJob(b, j, s).findings =
                 IF s = "completed" THEN b.findings \cup {j} ELSE b.findings
<1> DEFINE c == SetJob(b, j, s)
           f == IF s = "completed" THEN c.findings \cup {j} ELSE c.findings
           d == [c EXCEPT !.findings = f]
<1>1. s \in ScanStatus
  BY DEF Terminal, ScanStatus
<1>2. /\ c \in Assessment
      /\ c.job = [b.job EXCEPT ![j] = s]
      /\ c.target = b.target
      /\ c.authorized = b.authorized
      /\ c.findings = b.findings
      /\ c.repo = b.repo
  BY <1>1, SetJobFields
<1> HIDE DEF c
<1>3. f \subseteq Jobs
  BY <1>2 DEF Assessment
<1>4. /\ d \in Assessment
      /\ d.job = c.job
      /\ d.target = c.target
      /\ d.authorized = c.authorized
      /\ d.repo = c.repo
      /\ d.findings = f
  BY <1>2, <1>3 DEF Assessment
<1>5. FinishJob(b, j, s) = [d EXCEPT !.status = ReconciledStatus(d.job)]
  BY DEF FinishJob, Reconcile, c
<1>6. ReconciledStatus(d.job) \in AssessmentStatus
  BY DEF ReconciledStatus, AssessmentStatus
<1> HIDE DEF d
<1>7. /\ FinishJob(b, j, s) \in Assessment
      /\ FinishJob(b, j, s).status = ReconciledStatus(d.job)
      /\ FinishJob(b, j, s).job = d.job
      /\ FinishJob(b, j, s).target = d.target
      /\ FinishJob(b, j, s).authorized = d.authorized
      /\ FinishJob(b, j, s).repo = d.repo
      /\ FinishJob(b, j, s).findings = d.findings
  BY <1>4, <1>5, <1>6 DEF Assessment
<1> QED
  BY <1>2, <1>4, <1>7

-----------------------------------------------------------------------------
(* Explained records stay explained. *)

\* A repository's status explains nothing and needs no explanation.
LEMMA SetRepoExplained ==
    ASSUME NEW b \in Assessment, NEW r \in Repos, NEW s \in RepositoryIngestStatus,
           RecordExplained(b)
    PROVE  RecordExplained(SetRepo(b, r, s))
<1>1. SetRepo(b, r, s).status = b.status
  BY SetRepoFields
<1>2. SetRepo(b, r, s).job = b.job
  BY SetRepoFields
<1>3. SetRepo(b, r, s).findings = b.findings
  BY SetRepoFields
<1> QED
  BY <1>1, <1>2, <1>3 DEF RecordExplained, StatusExplained, FindingsExplained

\* create_scan_job: start_analysis alone would leave ANALYZING unexplained;
\* the PENDING job appended after it is the explanation.
LEMMA PendingJobExplained ==
    ASSUME NEW b \in Assessment, NEW j \in Jobs, NEW t \in Targets,
           NEW consent \in Consent, RecordExplained(b), b.job[j] = "none"
    PROVE  RecordExplained(AppendJob(StartAnalysis(b), j, "pending", t, consent))
<1> DEFINE c == StartAnalysis(b)
           d == AppendJob(c, j, "pending", t, consent)
<1>1. /\ c \in Assessment
      /\ c.job = b.job
      /\ c.findings = b.findings
      /\ c.status \in {"analyzing", "failed"}
      /\ c.status = "failed" => b.status = "failed"
  BY StartAnalysisFields
<1> HIDE DEF c
<1>2. /\ d.status = c.status
      /\ d.findings = c.findings
      /\ \A k \in Jobs : d.job[k] = IF k = j THEN "pending" ELSE c.job[k]
  <2>1. "pending" \in ScanStatus
    BY DEF ScanStatus
  <2>2. d.status = c.status
    BY <1>1, <2>1, AppendJobFields
  <2>3. d.findings = c.findings
    BY <1>1, <2>1, AppendJobFields
  <2>4. \A k \in Jobs : d.job[k] = IF k = j THEN "pending" ELSE c.job[k]
    BY <1>1, <2>1, AppendJobEntry
  <2> QED
    BY <2>2, <2>3, <2>4
<1> HIDE DEF d
<1>3. b.job \in [Jobs -> ScanStatus]
  BY DEF Assessment
<1>4. StatusExplained(d)
  BY <1>1, <1>2, <1>3 DEF RecordExplained, StatusExplained, Active
<1>5. FindingsExplained(d)
  BY <1>1, <1>2, <1>3 DEF RecordExplained, FindingsExplained
<1> QED
  BY <1>4, <1>5 DEF RecordExplained, d, c

\* run_trivy_scan appends a RUNNING job beside any status.
LEMMA RunningJobExplained ==
    ASSUME NEW b \in Assessment, NEW j \in Jobs, NEW t \in Targets,
           RecordExplained(b), b.job[j] = "none"
    PROVE  RecordExplained(AppendJob(b, j, "running", t, "absent"))
<1> DEFINE d == AppendJob(b, j, "running", t, "absent")
<1>1. /\ d.status = b.status
      /\ d.findings = b.findings
      /\ \A k \in Jobs : d.job[k] = IF k = j THEN "running" ELSE b.job[k]
  <2>1. "running" \in ScanStatus /\ "absent" \in Consent
    BY DEF ScanStatus, Consent
  <2>2. d.status = b.status
    BY <2>1, AppendJobFields
  <2>3. d.findings = b.findings
    BY <2>1, AppendJobFields
  <2>4. \A k \in Jobs : d.job[k] = IF k = j THEN "running" ELSE b.job[k]
    BY <2>1, AppendJobEntry
  <2> QED
    BY <2>2, <2>3, <2>4
<1> HIDE DEF d
<1>2. b.job \in [Jobs -> ScanStatus]
  BY DEF Assessment
<1>3. StatusExplained(d)
  BY <1>1, <1>2 DEF RecordExplained, StatusExplained, Active
<1>4. FindingsExplained(d)
  BY <1>1, <1>2 DEF RecordExplained, FindingsExplained
<1> QED
  BY <1>3, <1>4 DEF RecordExplained, d

\* execute_scan_job: a PENDING or RUNNING job is (still) RUNNING.
LEMMA StartJobExplained ==
    ASSUME NEW b \in Assessment, NEW j \in Jobs, RecordExplained(b), b.job[j] \in Active
    PROVE  RecordExplained(SetJob(b, j, "running"))
<1> DEFINE d == SetJob(b, j, "running")
<1>1. /\ d.status = b.status
      /\ d.findings = b.findings
      /\ d.job = [b.job EXCEPT ![j] = "running"]
  BY SetJobFields DEF ScanStatus
<1> HIDE DEF d
<1>2. b.job \in [Jobs -> ScanStatus]
  BY DEF Assessment
<1>3. StatusExplained(d)
  BY <1>1, <1>2 DEF RecordExplained, StatusExplained, Active
<1>4. FindingsExplained(d)
  BY <1>1, <1>2 DEF RecordExplained, FindingsExplained, Active
<1> QED
  BY <1>3, <1>4 DEF RecordExplained, d

\* What the end of a scan leaves in each entry.
LEMMA FinishJobEntry ==
    ASSUME NEW b \in Assessment, NEW j \in Jobs, NEW s \in Terminal, NEW k \in Jobs
    PROVE  FinishJob(b, j, s).job[k] = IF k = j THEN s ELSE b.job[k]
<1>1. FinishJob(b, j, s).job = [b.job EXCEPT ![j] = s]
  BY FinishJobFields, ZenonT(60)
<1>2. b.job \in [Jobs -> ScanStatus]
  BY DEF Assessment
<1> QED
  BY <1>1, <1>2

\* And what it leaves alone.
LEMMA FinishJobKeeps ==
    ASSUME NEW b \in Assessment, NEW j \in Jobs, NEW s \in Terminal
    PROVE  /\ FinishJob(b, j, s).target = b.target
           /\ FinishJob(b, j, s).authorized = b.authorized
           /\ FinishJob(b, j, s).repo = b.repo
BY FinishJobFields

\* The reconciled status is explained by any list of jobs.
LEMMA FinishJobExplained ==
    ASSUME NEW b \in Assessment, NEW j \in Jobs, NEW s \in Terminal,
           RecordExplained(b), b.job[j] # "completed"
    PROVE  RecordExplained(FinishJob(b, j, s))
<1> DEFINE d == FinishJob(b, j, s)
<1>1. /\ d.job = [b.job EXCEPT ![j] = s]
      /\ d.status = ReconciledStatus(d.job)
      /\ d.findings = IF s = "completed" THEN b.findings \cup {j} ELSE b.findings
  <2>1. d.job = [b.job EXCEPT ![j] = s]
    BY FinishJobFields
  <2>2. d.status = ReconciledStatus([b.job EXCEPT ![j] = s])
    BY FinishJobFields
  <2>3. d.findings = IF s = "completed" THEN b.findings \cup {j} ELSE b.findings
    BY FinishJobFields
  <2> QED
    BY <2>1, <2>2, <2>3
<1> HIDE DEF d
<1>2. b.job \in [Jobs -> ScanStatus]
  BY DEF Assessment
<1>3. StatusExplained(d)
  <2>1. d.job \in [Jobs -> ScanStatus]
    BY <1>1, <1>2 DEF Terminal, ScanStatus
  <2>2. QED
    BY <1>1, <2>1 DEF StatusExplained, ReconciledStatus, Active, ScanStatus
<1>4. FindingsExplained(d)
  BY <1>1, <1>2 DEF RecordExplained, FindingsExplained, Terminal
<1> QED
  BY <1>3, <1>4 DEF RecordExplained, d

-----------------------------------------------------------------------------
(* Where workers are.                                                      *)

\* Where a worker's item is a scan job, and where it is a repository.
BeforeScan == {"record_consent", "save_new_job", "reload_job"}
DuringScan == {"save_running", "save_trivy_job", "execute"}
JobPC == BeforeScan \cup DuringScan \cup {"notify"}
RepoPC == {"save_removal", "save_new_repo", "reload_repo", "save_cloning", "begin_clone",
           "end_clone", "save_ingestion"}

WorkerShape(w) ==
    /\ pc[w] # "idle" => at[w] \in Assessments
    /\ pc[w] \in JobPC => item[w] \in Jobs
    /\ pc[w] \in RepoPC => item[w] \in Repos

TypeInv == TypeOK /\ \A w \in Workers : WorkerShape(w)

-----------------------------------------------------------------------------
(* Types. *)

\* What a request that is accepted does to the worker's variables.
LEMMA BeginType ==
    ASSUME TypeInv, NEW w \in Workers, NEW p \in PC \ {"idle"}, NEW a \in Assessments,
           NEW i \in Jobs \cup Repos \cup {None}, NEW b \in Assessment,
           Begin(w, p, a, i, b),
           p \in JobPC => i \in Jobs, p \in RepoPC => i \in Repos
    PROVE  /\ pc' \in [Workers -> PC]
           /\ at' \in [Workers -> Assessments \cup {None}]
           /\ item' \in [Workers -> Jobs \cup Repos \cup {None}]
           /\ copy' \in [Workers -> Assessment]
           /\ \A v \in Workers : WorkerShape(v)'
BY DEF TypeInv, TypeOK, Begin, WorkerShape

\* Ending a request leaves the worker idle.
LEMMA FinishType ==
    ASSUME TypeInv, NEW w \in Workers, Finish(w)
    PROVE  /\ pc' \in [Workers -> PC]
           /\ at' \in [Workers -> Assessments \cup {None}]
           /\ item' \in [Workers -> Jobs \cup Repos \cup {None}]
           /\ copy' \in [Workers -> Assessment]
           /\ \A v \in Workers : WorkerShape(v)'
BY NewAssessmentIsExplained
   DEF TypeInv, TypeOK, Finish, WorkerShape, PC, JobPC, BeforeScan, DuringScan, RepoPC

\* Going on keeps the worker's assessment and item.
LEMMA GotoType ==
    ASSUME TypeInv, NEW w \in Workers, NEW p \in PC \ {"idle"}, NEW q \in PC, Goto(w, p, q),
           q \in JobPC => p \in JobPC, q \in RepoPC => p \in RepoPC
    PROVE  /\ pc' \in [Workers -> PC]
           /\ at' \in [Workers -> Assessments \cup {None}]
           /\ item' \in [Workers -> Jobs \cup Repos \cup {None}]
           /\ \A v \in Workers : WorkerShape(v)'
BY DEF TypeInv, TypeOK, Goto, WorkerShape

\* A save or a deletion keeps the table well-typed.
LEMMA SaveType ==
    ASSUME TypeInv, NEW a \in Assessments, NEW b \in Assessment, Save(a, b)
    PROVE  stored' \subseteq Assessments /\ payload' \in [Assessments -> Assessment]
BY DEF TypeInv, TypeOK, Save

\* ... and so does a deletion.
LEMMA DeleteType ==
    ASSUME TypeInv, NEW a \in Assessments, Delete(a)
    PROVE  stored' \subseteq Assessments /\ payload' \in [Assessments -> Assessment]
BY NewAssessmentIsExplained DEF TypeInv, TypeOK, Delete

\* The initial state is well-typed.
LEMMA InitType == Init => TypeInv
BY NewAssessmentIsExplained
   DEF Init, TypeInv, TypeOK, WorkerShape, PC, JobPC, BeforeScan, DuringScan, RepoPC

\* Accepting a request keeps types.
LEMMA RequestType ==
    ASSUME TypeInv, NEW w \in Workers, Request(w)
    PROVE  TypeInv'
<1> USE DEF JobPC, BeforeScan, DuringScan, RepoPC
<1>1. ASSUME NEW a \in Assessments, EnforceAssessmentLimit(w, a)
      PROVE  TypeInv'
  <2>1. Begin(w, "insert", a, None, NewAssessment)
    BY <1>1 DEF EnforceAssessmentLimit
  <2>2. NewAssessment \in Assessment /\ "insert" \in PC \ {"idle"}
    BY NewAssessmentIsExplained DEF PC
  <2>3. /\ pc' \in [Workers -> PC]
        /\ at' \in [Workers -> Assessments \cup {None}]
        /\ item' \in [Workers -> Jobs \cup Repos \cup {None}]
        /\ copy' \in [Workers -> Assessment]
        /\ \A v \in Workers : WorkerShape(v)'
    BY <2>1, <2>2, BeginType
  <2> QED
    BY <1>1, <2>3 DEF EnforceAssessmentLimit, Draw, store, TypeInv, TypeOK
<1>2. ASSUME NEW a \in Assessments, ReadForDeletion(w, a)
      PROVE  TypeInv'
  <2>1. Begin(w, "delete_row", a, None, payload[a])
    BY <1>2 DEF ReadForDeletion
  <2>2. payload[a] \in Assessment /\ "delete_row" \in PC \ {"idle"}
    BY DEF PC, TypeInv, TypeOK
  <2>3. /\ pc' \in [Workers -> PC]
        /\ at' \in [Workers -> Assessments \cup {None}]
        /\ item' \in [Workers -> Jobs \cup Repos \cup {None}]
        /\ copy' \in [Workers -> Assessment]
        /\ \A v \in Workers : WorkerShape(v)'
    BY <2>1, <2>2, BeginType
  <2> QED
    BY <1>2, <2>3 DEF ReadForDeletion, store, TypeInv, TypeOK
<1>3. ASSUME NEW a \in Assessments, EnforceScanJobLimit(w, a)
      PROVE  TypeInv'
  <2>1. Begin(w, "read_job", a, None, NewAssessment)
    BY <1>3 DEF EnforceScanJobLimit
  <2>2. NewAssessment \in Assessment /\ "read_job" \in PC \ {"idle"}
    BY NewAssessmentIsExplained DEF PC
  <2>3. /\ pc' \in [Workers -> PC]
        /\ at' \in [Workers -> Assessments \cup {None}]
        /\ item' \in [Workers -> Jobs \cup Repos \cup {None}]
        /\ copy' \in [Workers -> Assessment]
        /\ \A v \in Workers : WorkerShape(v)'
    BY <2>1, <2>2, BeginType
  <2> QED
    BY <1>3, <2>3 DEF EnforceScanJobLimit, store, TypeInv, TypeOK
<1>4. ASSUME NEW a \in Assessments, NEW r \in Repos, ReadForRemoval(w, a, r)
      PROVE  TypeInv'
  <2>1. Begin(w, "save_removal", a, r, payload[a])
    BY <1>4 DEF ReadForRemoval
  <2>2. payload[a] \in Assessment /\ "save_removal" \in PC \ {"idle"}
    BY DEF PC, TypeInv, TypeOK
  <2>3. /\ pc' \in [Workers -> PC]
        /\ at' \in [Workers -> Assessments \cup {None}]
        /\ item' \in [Workers -> Jobs \cup Repos \cup {None}]
        /\ copy' \in [Workers -> Assessment]
        /\ \A v \in Workers : WorkerShape(v)'
    BY <2>1, <2>2, BeginType
  <2> QED
    BY <1>4, <2>3 DEF ReadForRemoval, store, TypeInv, TypeOK
<1>5. ASSUME NEW a \in Assessments, NEW r \in Repos, ReadForIngestion(w, a, r)
      PROVE  TypeInv'
  <2> DEFINE b == SetRepo(payload[a], r, "pending")
  <2>1. Begin(w, "save_new_repo", a, r, b)
    BY <1>5 DEF ReadForIngestion
  <2>2. b \in Assessment /\ "save_new_repo" \in PC \ {"idle"}
    BY SetRepoFields DEF PC, TypeInv, TypeOK, RepositoryIngestStatus
  <2>3. /\ pc' \in [Workers -> PC]
        /\ at' \in [Workers -> Assessments \cup {None}]
        /\ item' \in [Workers -> Jobs \cup Repos \cup {None}]
        /\ copy' \in [Workers -> Assessment]
        /\ \A v \in Workers : WorkerShape(v)'
    <3> HIDE DEF b
    <3> QED
      BY <2>1, <2>2, BeginType
  <2> QED
    BY <1>5, <2>3 DEF ReadForIngestion, Draw, store, TypeInv, TypeOK
<1>6. ASSUME NEW a \in Assessments, NEW j \in Jobs, ReadForTrivyScan(w, a, j)
      PROVE  TypeInv'
  <2> DEFINE b == AppendJob(payload[a], j, "running", External, "absent")
  <2>1. Begin(w, "save_trivy_job", a, j, b)
    BY <1>6 DEF ReadForTrivyScan
  <2>2. b \in Assessment /\ "save_trivy_job" \in PC \ {"idle"}
    BY AppendJobFields DEF PC, TypeInv, TypeOK, ScanStatus, Targets, Consent
  <2>3. /\ pc' \in [Workers -> PC]
        /\ at' \in [Workers -> Assessments \cup {None}]
        /\ item' \in [Workers -> Jobs \cup Repos \cup {None}]
        /\ copy' \in [Workers -> Assessment]
        /\ \A v \in Workers : WorkerShape(v)'
    <3> HIDE DEF b
    <3> QED
      BY <2>1, <2>2, BeginType
  <2> QED
    BY <1>6, <2>3 DEF ReadForTrivyScan, Draw, store, TypeInv, TypeOK
<1> QED
  BY <1>1, <1>2, <1>3, <1>4, <1>5, <1>6 DEF Request

\* Every transaction of a handler keeps types.
LEMMA StepType ==
    ASSUME TypeInv, NEW w \in Workers, Step(w)
    PROVE  TypeInv'
<1> USE DEF JobPC, BeforeScan, DuringScan, RepoPC
<1> DEFINE LocalType == /\ pc' \in [Workers -> PC]
                        /\ at' \in [Workers -> Assessments \cup {None}]
                        /\ item' \in [Workers -> Jobs \cup Repos \cup {None}]
                        /\ \A v \in Workers : WorkerShape(v)'
           StoreType == stored' \subseteq Assessments /\ payload' \in [Assessments -> Assessment]
<1>0. /\ copy[w] \in Assessment
      /\ pc[w] # "idle" => at[w] \in Assessments
      /\ pc[w] \in JobPC => item[w] \in Jobs
      /\ pc[w] \in RepoPC => item[w] \in Repos
      /\ at[w] \in Assessments => payload[at[w]] \in Assessment
  BY DEF TypeInv, TypeOK, WorkerShape
<1>1. CASE InsertAssessment(w)
  <2>1. LocalType /\ copy' \in [Workers -> Assessment]
    BY <1>1, FinishType DEF InsertAssessment
  <2>2. StoreType
    BY <1>1, <1>0, SaveType DEF InsertAssessment
  <2> QED
    BY <1>1, <1>0, <2>1, <2>2 DEF InsertAssessment, store, TypeInv, TypeOK
<1>2. CASE DeleteRow(w)
  <2>1. LocalType
    <3>1. Goto(w, "delete_row", "cleanup") /\ "delete_row" \in PC \ {"idle"} /\ "cleanup" \in PC
      BY <1>2 DEF DeleteRow, PC
    <3> QED
      BY <3>1, GotoType
  <2>2. StoreType
    BY <1>2, <1>0, DeleteType DEF DeleteRow, Goto
  <2> QED
    BY <1>2, <1>0, <2>1, <2>2 DEF DeleteRow, Goto, store, TypeInv, TypeOK
<1>3. CASE SaveRemoval(w)
  <2>1. LocalType
    <3>1. Goto(w, "save_removal", "cleanup") /\ "save_removal" \in PC \ {"idle"} /\ "cleanup" \in PC
      BY <1>3 DEF SaveRemoval, PC
    <3> QED
      BY <3>1, GotoType
  <2>2. SetRepo(copy[w], item[w], "none") \in Assessment /\ item[w] \in Repos
    BY <1>3, <1>0, SetRepoFields DEF SaveRemoval, Goto, RepositoryIngestStatus
  <2>3. StoreType
    BY <1>3, <1>0, <2>2, SaveType DEF SaveRemoval, Goto
  <2> QED
    BY <1>3, <1>0, <2>1, <2>2, <2>3 DEF SaveRemoval, Goto, store, TypeInv, TypeOK
<1>4. CASE CleanupClones(w)
  <2>1. LocalType /\ copy' \in [Workers -> Assessment]
    BY <1>4, FinishType DEF CleanupClones
  <2> QED
    BY <1>4, <1>0, <2>1 DEF CleanupClones, store, TypeInv, TypeOK
<1>5. CASE SaveNewRepository(w)
  <2>1. LocalType
    <3>1. Goto(w, "save_new_repo", "reload_repo") /\ "save_new_repo" \in PC \ {"idle"}
              /\ "reload_repo" \in PC
      BY <1>5 DEF SaveNewRepository, PC
    <3> QED
      BY <3>1, GotoType
  <2>2. StoreType
    BY <1>5, <1>0, SaveType DEF SaveNewRepository, Goto
  <2> QED
    BY <1>5, <1>0, <2>1, <2>2 DEF SaveNewRepository, Goto, store, TypeInv, TypeOK
<1>6. CASE ReloadRepository(w)
  <2>1. CASE at[w] \in stored /\ payload[at[w]].repo[item[w]] # "none"
    <3>1. LocalType
      <4>1. Goto(w, "reload_repo", "save_cloning") /\ "reload_repo" \in PC \ {"idle"}
                /\ "save_cloning" \in PC
        BY <1>6, <2>1 DEF ReloadRepository, PC
      <4> QED
        BY <4>1, GotoType
    <3>2. SetRepo(payload[at[w]], item[w], "cloning") \in Assessment
      BY <1>6, <1>0, SetRepoFields DEF ReloadRepository, RepositoryIngestStatus
    <3> QED
      BY <1>6, <2>1, <1>0, <3>1, <3>2 DEF ReloadRepository, store, TypeInv, TypeOK
  <2>2. CASE ~(at[w] \in stored /\ payload[at[w]].repo[item[w]] # "none")
    <3>1. LocalType /\ copy' \in [Workers -> Assessment]
      BY <1>6, <2>2, FinishType DEF ReloadRepository
    <3> QED
      BY <1>6, <3>1 DEF ReloadRepository, store, TypeInv, TypeOK
  <2> QED
    BY <2>1, <2>2
<1>7. CASE SaveCloning(w)
  <2>1. LocalType
    <3>1. Goto(w, "save_cloning", "begin_clone") /\ "save_cloning" \in PC \ {"idle"}
              /\ "begin_clone" \in PC
      BY <1>7 DEF SaveCloning, PC
    <3> QED
      BY <3>1, GotoType
  <2>2. StoreType
    BY <1>7, <1>0, SaveType DEF SaveCloning, Goto
  <2> QED
    BY <1>7, <1>0, <2>1, <2>2 DEF SaveCloning, Goto, store, TypeInv, TypeOK
<1>8. CASE BeginClone(w)
  <2>1. LocalType
    <3>1. Goto(w, "begin_clone", "end_clone") /\ "begin_clone" \in PC \ {"idle"}
              /\ "end_clone" \in PC
      BY <1>8 DEF BeginClone, PC
    <3> QED
      BY <3>1, GotoType
  <2> QED
    BY <1>8, <1>0, <2>1 DEF BeginClone, Goto, store, TypeInv, TypeOK
<1>9. ASSUME NEW outcome \in {"ready", "failed", "cloning"}, EndClone(w, outcome)
      PROVE  TypeInv'
  <2>1. LocalType
    <3>1. Goto(w, "end_clone", "save_ingestion") /\ "end_clone" \in PC \ {"idle"}
              /\ "save_ingestion" \in PC
      BY <1>9 DEF EndClone, PC
    <3> QED
      BY <3>1, GotoType
  <2>2. SetRepo(copy[w], item[w], outcome) \in Assessment
    <3>1. outcome \in RepositoryIngestStatus /\ item[w] \in Repos
      BY <1>9, <1>0 DEF EndClone, Goto, RepositoryIngestStatus
    <3> QED
      BY <1>0, <3>1, SetRepoFields
  <2> QED
    BY <1>9, <1>0, <2>1, <2>2 DEF EndClone, store, TypeInv, TypeOK
<1>10. CASE SaveIngestion(w)
  <2>1. LocalType /\ copy' \in [Workers -> Assessment]
    BY <1>10, FinishType DEF SaveIngestion
  <2>2. StoreType
    BY <1>10, <1>0, SaveType DEF SaveIngestion
  <2> QED
    BY <1>10, <1>0, <2>1, <2>2 DEF SaveIngestion, store, TypeInv, TypeOK
<1>11. ASSUME NEW j \in Jobs, NEW t \in Targets, NEW consent \in Consent,
              ReadForScanJob(w, j, t, consent)
       PROVE  TypeInv'
  <2> DEFINE b == AppendJob(StartAnalysis(payload[at[w]]), j, "pending", t, consent)
             q == IF consent = "given" THEN "record_consent" ELSE "save_new_job"
  <2>1. b \in Assessment
    <3>1. StartAnalysis(payload[at[w]]) \in Assessment /\ "pending" \in ScanStatus
      BY <1>11, <1>0, StartAnalysisFields DEF ReadForScanJob, ScanStatus
    <3> QED
      BY <3>1, AppendJobFields
  <2>2. /\ pc' = [pc EXCEPT ![w] = q]
        /\ item' = [item EXCEPT ![w] = j]
        /\ copy' = [copy EXCEPT ![w] = b]
        /\ q \in {"record_consent", "save_new_job"}
        /\ pc[w] = "read_job"
        /\ UNCHANGED <<store, disk, audit, notified, at, gone>>
        /\ used' = used \cup {j}
    BY <1>11 DEF ReadForScanJob, Draw
  <2> HIDE DEF b, q
  <2> QED
    BY <1>0, <2>1, <2>2 DEF store, TypeInv, TypeOK, WorkerShape, PC
<1>12. CASE RejectScanJob(w)
  <2>1. LocalType /\ copy' \in [Workers -> Assessment]
    BY <1>12, FinishType DEF RejectScanJob
  <2> QED
    BY <1>12, <1>0, <2>1 DEF RejectScanJob, store, TypeInv, TypeOK
<1>13. CASE RecordConsent(w)
  <2>1. LocalType
    <3>1. Goto(w, "record_consent", "save_new_job") /\ "record_consent" \in PC \ {"idle"}
              /\ "save_new_job" \in PC
      BY <1>13 DEF RecordConsent, PC
    <3> QED
      BY <3>1, GotoType
  <2> QED
    BY <1>13, <1>0, <2>1 DEF RecordConsent, Goto, store, TypeInv, TypeOK
<1>14. CASE SaveNewJob(w)
  <2>1. LocalType
    <3>1. Goto(w, "save_new_job", "reload_job") /\ "save_new_job" \in PC \ {"idle"}
              /\ "reload_job" \in PC
      BY <1>14 DEF SaveNewJob, PC
    <3> QED
      BY <3>1, GotoType
  <2>2. StoreType
    BY <1>14, <1>0, SaveType DEF SaveNewJob, Goto
  <2> QED
    BY <1>14, <1>0, <2>1, <2>2 DEF SaveNewJob, Goto, store, TypeInv, TypeOK
<1>15. CASE ReloadJob(w)
  <2>1. CASE at[w] \in stored /\ payload[at[w]].job[item[w]] # "none"
    <3>1. LocalType
      <4>1. Goto(w, "reload_job", "save_running") /\ "reload_job" \in PC \ {"idle"}
                /\ "save_running" \in PC
        BY <1>15, <2>1 DEF ReloadJob, PC
      <4> QED
        BY <4>1, GotoType
    <3>2. SetJob(payload[at[w]], item[w], "running") \in Assessment
      BY <1>15, <1>0, SetJobFields DEF ReloadJob, ScanStatus
    <3> QED
      BY <1>15, <2>1, <1>0, <3>1, <3>2 DEF ReloadJob, store, TypeInv, TypeOK
  <2>2. CASE ~(at[w] \in stored /\ payload[at[w]].job[item[w]] # "none")
    <3>1. LocalType /\ copy' \in [Workers -> Assessment]
      BY <1>15, <2>2, FinishType DEF ReloadJob
    <3> QED
      BY <1>15, <3>1 DEF ReloadJob, store, TypeInv, TypeOK
  <2> QED
    BY <2>1, <2>2
<1>16. CASE SaveRunning(w)
  <2>1. LocalType
    <3>1. Goto(w, "save_running", "execute") /\ "save_running" \in PC \ {"idle"} /\ "execute" \in PC
      BY <1>16 DEF SaveRunning, PC
    <3> QED
      BY <3>1, GotoType
  <2>2. StoreType
    BY <1>16, <1>0, SaveType DEF SaveRunning, Goto
  <2> QED
    BY <1>16, <1>0, <2>1, <2>2 DEF SaveRunning, Goto, store, TypeInv, TypeOK
<1>17. ASSUME NEW outcome \in Terminal, FinishScan(w, outcome)
       PROVE  TypeInv'
  <2>1. LocalType
    <3>1. Goto(w, "execute", "notify") /\ "execute" \in PC \ {"idle"} /\ "notify" \in PC
      BY <1>17 DEF FinishScan, PC
    <3> QED
      BY <3>1, GotoType
  <2>2. FinishJob(copy[w], item[w], outcome) \in Assessment /\ at[w] \in Assessments
    <3>1. item[w] \in Jobs /\ at[w] \in Assessments
      BY <1>17, <1>0 DEF FinishScan, Goto
    <3> QED
      BY <1>0, <3>1, FinishJobFields
  <2>3. StoreType
    BY <1>17, <2>2, SaveType DEF FinishScan
  <2> QED
    BY <1>17, <1>0, <2>1, <2>2, <2>3 DEF FinishScan, TypeInv, TypeOK
<1>18. ASSUME NEW delivered \in BOOLEAN, NotifyWebhook(w, delivered)
       PROVE  TypeInv'
  <2>1. LocalType /\ copy' \in [Workers -> Assessment]
    BY <1>18, FinishType DEF NotifyWebhook
  <2>2. notified' \subseteq Jobs \X ScanStatus
    <3>1. item[w] \in Jobs /\ copy[w].job[item[w]] \in ScanStatus
      BY <1>18, <1>0 DEF NotifyWebhook, Assessment
    <3>2. notified \subseteq Jobs \X ScanStatus
      BY DEF TypeInv, TypeOK
    <3>3. notified' = notified \cup {<<item[w], copy[w].job[item[w]]>>} \/ notified' = notified
      BY <1>18 DEF NotifyWebhook
    <3> QED
      BY <3>1, <3>2, <3>3
  <2> QED
    BY <1>18, <2>1, <2>2 DEF NotifyWebhook, store, TypeInv, TypeOK
<1>19. CASE SaveTrivyJob(w)
  <2>1. LocalType
    <3>1. Goto(w, "save_trivy_job", "execute") /\ "save_trivy_job" \in PC \ {"idle"}
              /\ "execute" \in PC
      BY <1>19 DEF SaveTrivyJob, PC
    <3> QED
      BY <3>1, GotoType
  <2>2. StoreType
    BY <1>19, <1>0, SaveType DEF SaveTrivyJob, Goto
  <2> QED
    BY <1>19, <1>0, <2>1, <2>2 DEF SaveTrivyJob, Goto, store, TypeInv, TypeOK
<1>20. ASSUME NEW outcome \in {"failed", "cloning"}, RefuseClone(w, outcome)
       PROVE  TypeInv'
  <2>1. LocalType
    <3>1. Goto(w, "begin_clone", "save_ingestion") /\ "begin_clone" \in PC \ {"idle"}
              /\ "save_ingestion" \in PC
      BY <1>20 DEF RefuseClone, PC
    <3> QED
      BY <3>1, GotoType
  <2>2. SetRepo(copy[w], item[w], outcome) \in Assessment
    <3>1. outcome \in RepositoryIngestStatus /\ item[w] \in Repos
      BY <1>20, <1>0 DEF RefuseClone, Goto, RepositoryIngestStatus
    <3> QED
      BY <1>0, <3>1, SetRepoFields
  <2> QED
    BY <1>20, <1>0, <2>1, <2>2 DEF RefuseClone, store, TypeInv, TypeOK
<1> QED
  BY <1>1, <1>2, <1>3, <1>4, <1>5, <1>6, <1>7, <1>8, <1>9, <1>10, <1>11, <1>12, <1>13, <1>14,
     <1>15, <1>16, <1>17, <1>18, <1>19, <1>20 DEF Step

\* A request that dies leaves types alone.
LEMMA AbortType ==
    ASSUME TypeInv, NEW w \in Workers, Abort(w)
    PROVE  TypeInv'
BY FinishType DEF Abort, store, TypeInv, TypeOK

\* Every step keeps types.
LEMMA NextType == TypeInv /\ [Next]_vars => TypeInv'
<1> SUFFICES ASSUME TypeInv, [Next]_vars
             PROVE  TypeInv'
  OBVIOUS
<1>1. ASSUME NEW w \in Workers, Request(w)
      PROVE  TypeInv'
  BY <1>1, RequestType
<1>2. ASSUME NEW w \in Workers, Step(w)
      PROVE  TypeInv'
  BY <1>2, StepType
<1>3. ASSUME NEW w \in Workers, Abort(w)
      PROVE  TypeInv'
  BY <1>3, AbortType
<1>4. CASE UNCHANGED vars
  BY <1>4 DEF vars, TypeInv, TypeOK, WorkerShape
<1> QED
  BY <1>1, <1>2, <1>3, <1>4 DEF Next

\* Rows, copies and identifiers keep their types, and a handler that works
\* on a job or a repository names one.
THEOREM TypeCorrect == Spec => []TypeOK
<1>1. Spec => []TypeInv
  BY InitType, NextType, PTL DEF Spec
<1>2. TypeInv => TypeOK
  BY DEF TypeInv
<1> QED
  BY <1>1, <1>2, PTL

-----------------------------------------------------------------------------
(* Status and findings.                                                    *)
(*                                                                         *)
(* The two invariants speak of the rows, but a stale object is written     *)
(* over a row long after it was read, so the inductive invariant speaks of *)
(* every record anyone holds.  What makes it inductive is that one worker  *)
(* only, the one whose request drew the job, ever moves that job: until it *)
(* starts it, no record anywhere shows the job beyond PENDING, and until   *)
(* it ends it, none shows it beyond RUNNING.                               *)

Records == {payload[a] : a \in Assessments} \cup {copy[v] : v \in Workers} \cup {NewAssessment}

\* What a record may show of job i, whose worker is at p.
Stage(b, p, i) ==
    /\ p \in BeforeScan => b.job[i] \in {"none", "pending"}
    /\ p \in DuringScan => b.job[i] \in {"none", "pending", "running"}

RecordInv(b, P, I, U) ==
    /\ b \in Assessment
    /\ RecordExplained(b)
    /\ \A j \in Jobs : b.job[j] # "none" => j \in U
    /\ \A v \in Workers : Stage(b, P[v], I[v])

Ownership ==
    /\ \A v \in Workers : pc[v] \in JobPC => item[v] \in used
    /\ \A v, w \in Workers :
          pc[v] \in JobPC /\ pc[w] \in JobPC /\ item[v] = item[w] => v = w

ExplainedInv == Ownership /\ \A b \in Records : RecordInv(b, pc, item, used)

\* How worker w may move: it ends or leaves alone its job, goes on with it,
\* or takes up one that was just drawn.  Nobody else moves.
ScanMove(w) ==
    \/ pc'[w] \notin JobPC
    \/ /\ pc[w] \in JobPC
       /\ item'[w] = item[w]
       /\ pc'[w] \in BeforeScan => pc[w] \in BeforeScan
       /\ pc'[w] \in DuringScan => pc[w] \in BeforeScan \cup DuringScan
    \/ item'[w] \in Jobs \ used /\ item'[w] \in used'

Frame(w) ==
    /\ used \subseteq used'
    /\ \A v \in Workers \ {w} : pc'[v] = pc[v] /\ item'[v] = item[v]
    /\ ScanMove(w)

\* A job has one owner, before and after.
LEMMA OwnershipKept ==
    ASSUME TypeInv, Ownership, NEW w \in Workers, Frame(w)
    PROVE  Ownership'
<1>1. \A v \in Workers : pc[v] \in JobPC => item[v] \in used
  BY DEF Ownership
<1>2. \A v \in Workers : pc'[v] \in JobPC => item'[v] \in used'
  BY <1>1 DEF Frame, ScanMove
<1>3. ASSUME NEW v \in Workers \ {w}, pc'[v] \in JobPC, pc'[w] \in JobPC
      PROVE  item'[v] # item'[w]
  <2>1. pc[v] \in JobPC /\ item'[v] = item[v] /\ item[v] \in used
    BY <1>1, <1>3 DEF Frame
  <2>2. CASE pc[w] \in JobPC /\ item'[w] = item[w]
    BY <2>1, <2>2 DEF Ownership
  <2>3. CASE item'[w] \notin used
    BY <2>1, <2>3
  <2> QED
    BY <1>3, <2>2, <2>3 DEF Frame, ScanMove
<1>4. ASSUME NEW u \in Workers, NEW v \in Workers,
             pc'[u] \in JobPC, pc'[v] \in JobPC, item'[u] = item'[v]
      PROVE  u = v
  <2>1. CASE u = w \/ v = w
    BY <1>3, <1>4, <2>1
  <2>2. CASE u # w /\ v # w
    BY <1>4, <2>2 DEF Frame, Ownership
  <2> QED
    BY <2>1, <2>2
<1> QED
  BY <1>2, <1>4 DEF Ownership

\* A record nobody touches keeps what it shows of every job in progress.
LEMMA RecordKept ==
    ASSUME TypeInv, ExplainedInv, NEW w \in Workers, Frame(w), NEW b \in Records
    PROVE  RecordInv(b, pc', item', used')
<1>1. RecordInv(b, pc, item, used)
  BY DEF ExplainedInv
<1>2. \A j \in Jobs : b.job[j] # "none" => j \in used'
  BY <1>1 DEF RecordInv, Frame
<1>3. Stage(b, pc'[w], item'[w])
  <2>1. CASE pc'[w] \notin JobPC
    BY <2>1 DEF Stage, JobPC
  <2>2. CASE /\ pc[w] \in JobPC
             /\ item'[w] = item[w]
             /\ pc'[w] \in BeforeScan => pc[w] \in BeforeScan
             /\ pc'[w] \in DuringScan => pc[w] \in BeforeScan \cup DuringScan
    BY <1>1, <2>2 DEF RecordInv, Stage
  <2>3. CASE item'[w] \in Jobs \ used
    <3>1. b.job[item'[w]] = "none"
      BY <1>1, <2>3 DEF RecordInv
    <3> QED
      BY <3>1 DEF Stage
  <2> QED
    BY <2>1, <2>2, <2>3 DEF Frame, ScanMove
<1>4. \A v \in Workers : Stage(b, pc'[v], item'[v])
  BY <1>1, <1>3 DEF RecordInv, Frame
<1> QED
  BY <1>1, <1>2, <1>4 DEF RecordInv

\* A step that makes no new record keeps the invariant ...
LEMMA QuietStep ==
    ASSUME TypeInv, ExplainedInv, NEW w \in Workers, Frame(w), Records' \subseteq Records
    PROVE  ExplainedInv'
BY OwnershipKept, RecordKept DEF ExplainedInv

\* ... and so does one that makes a record with the invariant.
LEMMA NewRecordStep ==
    ASSUME TypeInv, ExplainedInv, NEW w \in Workers, Frame(w),
           NEW c, RecordInv(c, pc', item', used'), Records' \subseteq Records \cup {c}
    PROVE  ExplainedInv'
BY OwnershipKept, RecordKept DEF ExplainedInv

\* A record that differs from a known one in no job.
LEMMA SameJobs ==
    ASSUME TypeInv, ExplainedInv, NEW w \in Workers, Frame(w), NEW b \in Records,
           NEW c \in Assessment, RecordExplained(c), c.job = b.job
    PROVE  RecordInv(c, pc', item', used')
BY RecordKept DEF RecordInv, Stage

\* A record that differs from a known one in the job of worker w only.
LEMMA OneJobMoved ==
    ASSUME TypeInv, TypeInv', ExplainedInv, NEW w \in Workers, Frame(w), NEW b \in Records,
           NEW c \in Assessment, RecordExplained(c),
           \A k \in Jobs : k # item'[w] => c.job[k] = b.job[k],
           pc'[w] \in JobPC, Stage(c, pc'[w], item'[w])
    PROVE  RecordInv(c, pc', item', used')
<1>1. RecordInv(b, pc', item', used')
  BY RecordKept
<1>2. Ownership'
  BY OwnershipKept DEF ExplainedInv
<1>3. \A j \in Jobs : c.job[j] # "none" => j \in used'
  BY <1>1, <1>2 DEF RecordInv, Ownership
<1>4. ASSUME NEW v \in Workers \ {w}
      PROVE  Stage(c, pc'[v], item'[v])
  <2>1. CASE pc'[v] \notin JobPC
    BY <2>1 DEF Stage, JobPC
  <2>2. CASE pc'[v] \in JobPC
    <3>1. item'[v] # item'[w]
      BY <1>2, <1>4, <2>2 DEF Ownership
    <3>2. item'[v] \in Jobs
      BY <2>2 DEF TypeInv, WorkerShape
    <3>3. c.job[item'[v]] = b.job[item'[v]]
      BY <3>1, <3>2
    <3>4. Stage(b, pc'[v], item'[v])
      BY <1>1 DEF RecordInv
    <3> QED
      BY <3>3, <3>4 DEF Stage
  <2> QED
    BY <2>1, <2>2
<1> QED
  BY <1>3, <1>4 DEF RecordInv

\* Requests that copy a row, or nothing, and draw no job.
LEMMA QuietRequest ==
    ASSUME TypeInv, ExplainedInv, NEW w \in Workers, NEW p \in PC \ JobPC, NEW a, NEW i,
           NEW b \in Records, Begin(w, p, a, i, b), payload' = payload, used \subseteq used'
    PROVE  ExplainedInv'
<1>1. Frame(w)
  BY DEF Begin, Frame, ScanMove, TypeInv, TypeOK
<1>2. Records' \subseteq Records
  BY DEF Begin, Records, TypeInv, TypeOK
<1> QED
  BY <1>1, <1>2, QuietStep

\* A request that ends, having saved its copy or nothing.
LEMMA QuietEnd ==
    ASSUME TypeInv, ExplainedInv, NEW w \in Workers, Finish(w), used' = used,
           \A a \in Assessments : payload'[a] \in Records
    PROVE  ExplainedInv'
<1>1. Frame(w)
  BY DEF Finish, Frame, ScanMove, TypeInv, TypeOK, JobPC, BeforeScan, DuringScan
<1>2. Records' \subseteq Records
  BY DEF Finish, Records, TypeInv, TypeOK
<1> QED
  BY <1>1, <1>2, QuietStep

\* A transaction in the middle of a request that writes a known record, or
\* none, and goes on with the worker's job if it has one.
LEMMA QuietMiddle ==
    ASSUME TypeInv, ExplainedInv, NEW w \in Workers, NEW p \in PC, NEW q \in PC,
           Goto(w, p, q), copy' = copy, used' = used,
           \/ q \notin JobPC
           \/ /\ p \in JobPC
              /\ q \in BeforeScan => p \in BeforeScan
              /\ q \in DuringScan => p \in BeforeScan \cup DuringScan,
           \A a \in Assessments : payload'[a] \in Records
    PROVE  ExplainedInv'
<1>1. Frame(w)
  BY DEF Goto, Frame, ScanMove, TypeInv, TypeOK
<1>2. Records' \subseteq Records
  BY DEF Records
<1> QED
  BY <1>1, <1>2, QuietStep

\* What a save or a deletion leaves in the table.
LEMMA SavedRecords ==
    ASSUME TypeInv, NEW a \in Assessments, NEW b, Save(a, b)
    PROVE  \A x \in Assessments : payload'[x] = IF x = a THEN b ELSE payload[x]
BY DEF TypeInv, TypeOK, Save

\* A deleted row is the empty record, which is among the records.
LEMMA DeletedRecords ==
    ASSUME TypeInv, NEW a \in Assessments, Delete(a)
    PROVE  \A x \in Assessments : payload'[x] \in Records
BY DEF TypeInv, TypeOK, Delete, Records

\* Rows and copies are records.
LEMMA HeldRecords ==
    /\ \A a \in Assessments : payload[a] \in Records
    /\ \A v \in Workers : copy[v] \in Records
    /\ NewAssessment \in Records
BY DEF Records

\* Nothing needs an explanation at first.
LEMMA InitExplained == Init => ExplainedInv
<1> SUFFICES ASSUME Init PROVE ExplainedInv
  OBVIOUS
<1>1. Records \subseteq {NewAssessment}
  BY DEF Init, Records
<1>2. \A v \in Workers : pc[v] = "idle"
  BY DEF Init
<1>3. RecordInv(NewAssessment, pc, item, used)
  BY <1>2, NewAssessmentIsExplained
     DEF RecordInv, Stage, BeforeScan, DuringScan
<1>4. Ownership
  BY <1>2 DEF Ownership, JobPC, BeforeScan, DuringScan
<1> QED
  BY <1>1, <1>3, <1>4 DEF ExplainedInv

\* Accepting a request keeps every record explained.
LEMMA RequestExplained ==
    ASSUME TypeInv, TypeInv', ExplainedInv, NEW w \in Workers, Request(w)
    PROVE  ExplainedInv'
<1> USE DEF JobPC, BeforeScan, DuringScan
<1>0. \A a \in Assessments : payload[a] \in Records /\ payload[a] \in Assessment
          /\ RecordExplained(payload[a])
  BY HeldRecords DEF ExplainedInv, RecordInv
<1>1. ASSUME NEW a \in Assessments, EnforceAssessmentLimit(w, a)
      PROVE  ExplainedInv'
  <2>1. /\ Begin(w, "insert", a, None, NewAssessment)
        /\ payload' = payload
        /\ used \subseteq used'
    BY <1>1 DEF EnforceAssessmentLimit, Draw, store
  <2>2. "insert" \in PC \ JobPC /\ NewAssessment \in Records
    BY <1>0, HeldRecords DEF PC
  <2> QED
    BY <2>1, <2>2, QuietRequest
<1>2. ASSUME NEW a \in Assessments, ReadForDeletion(w, a)
      PROVE  ExplainedInv'
  <2>1. /\ Begin(w, "delete_row", a, None, payload[a])
        /\ payload' = payload
        /\ used \subseteq used'
    BY <1>2 DEF ReadForDeletion, Draw, store
  <2>2. "delete_row" \in PC \ JobPC /\ payload[a] \in Records
    BY <1>0, HeldRecords DEF PC
  <2> QED
    BY <2>1, <2>2, QuietRequest
<1>3. ASSUME NEW a \in Assessments, EnforceScanJobLimit(w, a)
      PROVE  ExplainedInv'
  <2>1. /\ Begin(w, "read_job", a, None, NewAssessment)
        /\ payload' = payload
        /\ used \subseteq used'
    BY <1>3 DEF EnforceScanJobLimit, Draw, store
  <2>2. "read_job" \in PC \ JobPC /\ NewAssessment \in Records
    BY <1>0, HeldRecords DEF PC
  <2> QED
    BY <2>1, <2>2, QuietRequest
<1>4. ASSUME NEW a \in Assessments, NEW r \in Repos, ReadForRemoval(w, a, r)
      PROVE  ExplainedInv'
  <2>1. /\ Begin(w, "save_removal", a, r, payload[a])
        /\ payload' = payload
        /\ used \subseteq used'
    BY <1>4 DEF ReadForRemoval, Draw, store
  <2>2. "save_removal" \in PC \ JobPC /\ payload[a] \in Records
    BY <1>0, HeldRecords DEF PC
  <2> QED
    BY <2>1, <2>2, QuietRequest
<1>5. ASSUME NEW a \in Assessments, NEW r \in Repos, ReadForIngestion(w, a, r)
      PROVE  ExplainedInv'
  <2> DEFINE c == SetRepo(payload[a], r, "pending")
  <2>1. c \in Assessment /\ RecordExplained(c) /\ c.job = payload[a].job
    <3>1. "pending" \in RepositoryIngestStatus
      BY DEF RepositoryIngestStatus
    <3>2. c \in Assessment
      BY <1>0, <3>1, SetRepoFields
    <3>3. c.job = payload[a].job
      BY <1>0, <3>1, SetRepoFields
    <3>4. RecordExplained(c)
      BY <1>0, <3>1, SetRepoExplained
    <3> QED
      BY <3>2, <3>3, <3>4
  <2>2. Begin(w, "save_new_repo", a, r, c) /\ payload' = payload /\ used \subseteq used'
    BY <1>5 DEF ReadForIngestion, Draw, store
  <2> HIDE DEF c
  <2>3. Frame(w)
    BY <2>2 DEF Begin, Frame, ScanMove, TypeInv, TypeOK
  <2>4. Records' \subseteq Records \cup {c}
    BY <2>2 DEF Begin, Records, TypeInv, TypeOK
  <2>5. RecordInv(c, pc', item', used')
    BY <1>0, <2>1, <2>3, SameJobs
  <2> QED
    BY <2>3, <2>4, <2>5, NewRecordStep
<1>6. ASSUME NEW a \in Assessments, NEW j \in Jobs, ReadForTrivyScan(w, a, j)
      PROVE  ExplainedInv'
  <2> DEFINE c == AppendJob(payload[a], j, "running", External, "absent")
  <2>1. j \notin used /\ used' = used \cup {j}
    BY <1>6 DEF ReadForTrivyScan, Draw
  <2>2. payload[a].job[j] = "none"
    BY <1>0, <2>1 DEF ExplainedInv, RecordInv
  <2>3. External \in Targets /\ "absent" \in Consent /\ "running" \in ScanStatus
    BY DEF Targets, Consent, ScanStatus
  <2>4. c \in Assessment
    BY <1>0, <2>3, AppendJobFields
  <2>5. RecordExplained(c)
    BY <1>0, <2>2, <2>3, RunningJobExplained
  <2>6. \A k \in Jobs : c.job[k] = IF k = j THEN "running" ELSE payload[a].job[k]
    BY <1>0, <2>3, AppendJobEntry
  <2>7. Begin(w, "save_trivy_job", a, j, c) /\ payload' = payload
    BY <1>6 DEF ReadForTrivyScan, store
  <2> HIDE DEF c
  <2>8. pc'[w] = "save_trivy_job" /\ item'[w] = j
    BY <2>7 DEF Begin, TypeInv, TypeOK
  <2>9. Frame(w)
    BY <2>1, <2>7, <2>8 DEF Begin, Frame, ScanMove, TypeInv, TypeOK
  <2>10. Records' \subseteq Records \cup {c}
    BY <2>7 DEF Begin, Records, TypeInv, TypeOK
  <2>11. Stage(c, pc'[w], item'[w])
    BY <2>6, <2>8 DEF Stage
  <2>12. RecordInv(c, pc', item', used')
    BY <1>0, <2>4, <2>5, <2>6, <2>8, <2>9, <2>11, OneJobMoved
  <2> QED
    BY <2>9, <2>10, <2>12, NewRecordStep
<1> QED
  BY <1>1, <1>2, <1>3, <1>4, <1>5, <1>6 DEF Request

\* Every transaction keeps every record explained.
LEMMA StepExplained ==
    ASSUME TypeInv, TypeInv', ExplainedInv, NEW w \in Workers, Step(w)
    PROVE  ExplainedInv'
<1> USE DEF JobPC, BeforeScan, DuringScan
<1>0. /\ \A b \in Records : b \in Assessment /\ RecordExplained(b)
      /\ pc[w] # "idle" => at[w] \in Assessments
      /\ pc[w] \in JobPC => item[w] \in Jobs
      /\ pc[w] \in RepoPC => item[w] \in Repos
      /\ copy[w] \in Records
      /\ at[w] \in Assessments => payload[at[w]] \in Records
  BY HeldRecords DEF ExplainedInv, RecordInv, TypeInv, WorkerShape
<1>1. CASE InsertAssessment(w)
  <2>1. Finish(w) /\ used' = used /\ Save(at[w], copy[w]) /\ at[w] \in Assessments
    BY <1>1, <1>0 DEF InsertAssessment
  <2>2. \A a \in Assessments : payload'[a] \in Records
    BY <2>1, <1>0, SavedRecords, HeldRecords
  <2> QED
    BY <2>1, <2>2, QuietEnd
<1>2. CASE DeleteRow(w)
  <2>1. /\ Goto(w, "delete_row", "cleanup") /\ "delete_row" \in PC /\ "cleanup" \in PC
        /\ copy' = copy /\ used' = used
        /\ Delete(at[w]) /\ at[w] \in Assessments
    BY <1>2, <1>0 DEF DeleteRow, Goto, PC
  <2> QED
    BY <2>1, DeletedRecords, QuietMiddle
<1>3. CASE SaveRemoval(w)
  <2> DEFINE c == SetRepo(copy[w], item[w], "none")
  <2>1. c \in Assessment /\ RecordExplained(c) /\ c.job = copy[w].job
    <3>1. "none" \in RepositoryIngestStatus /\ item[w] \in Repos
      BY <1>3, <1>0 DEF SaveRemoval, Goto, RepositoryIngestStatus, RepoPC
    <3>2. c \in Assessment
      BY <1>0, <3>1, SetRepoFields
    <3>3. c.job = copy[w].job
      BY <1>0, <3>1, SetRepoFields
    <3>4. RecordExplained(c)
      BY <1>0, <3>1, SetRepoExplained
    <3> QED
      BY <3>2, <3>3, <3>4
  <2>2. /\ Goto(w, "save_removal", "cleanup") /\ copy' = copy /\ used' = used
        /\ Save(at[w], c) /\ at[w] \in Assessments
    BY <1>3, <1>0 DEF SaveRemoval, Goto
  <2> HIDE DEF c
  <2>3. Frame(w)
    BY <2>2 DEF Goto, Frame, ScanMove, TypeInv, TypeOK
  <2>4. Records' \subseteq Records \cup {c}
    BY <2>2, SavedRecords DEF Records
  <2>5. RecordInv(c, pc', item', used')
    BY <1>0, <2>1, <2>3, SameJobs
  <2> QED
    BY <2>3, <2>4, <2>5, NewRecordStep
<1>4. CASE CleanupClones(w)
  <2>1. Finish(w) /\ used' = used /\ payload' = payload
    BY <1>4 DEF CleanupClones, store
  <2> QED
    BY <2>1, HeldRecords, QuietEnd
<1>5. CASE SaveNewRepository(w)
  <2>1. /\ Goto(w, "save_new_repo", "reload_repo") /\ "save_new_repo" \in PC /\ "reload_repo" \in PC
        /\ copy' = copy /\ used' = used
        /\ Save(at[w], copy[w]) /\ at[w] \in Assessments
    BY <1>5, <1>0 DEF SaveNewRepository, Goto, PC
  <2>2. \A a \in Assessments : payload'[a] \in Records
    BY <2>1, <1>0, SavedRecords, HeldRecords
  <2> QED
    BY <2>1, <2>2, QuietMiddle
<1>6. CASE ReloadRepository(w)
  <2>1. CASE at[w] \in stored /\ payload[at[w]].repo[item[w]] # "none"
    <3> DEFINE c == SetRepo(payload[at[w]], item[w], "cloning")
    <3>0. "cloning" \in RepositoryIngestStatus /\ item[w] \in Repos /\ payload[at[w]] \in Records
      BY <1>6, <1>0 DEF ReloadRepository, RepositoryIngestStatus, RepoPC
    <3>1. c \in Assessment
      BY <1>0, <3>0, SetRepoFields
    <3>2. c.job = payload[at[w]].job
      BY <1>0, <3>0, SetRepoFields
    <3>3. RecordExplained(c)
      BY <1>0, <3>0, SetRepoExplained
    <3>4. /\ Goto(w, "reload_repo", "save_cloning") /\ copy' = [copy EXCEPT ![w] = c]
          /\ used' = used /\ payload' = payload
      BY <1>6, <2>1 DEF ReloadRepository, store
    <3> HIDE DEF c
    <3>5. Frame(w)
      BY <3>4 DEF Goto, Frame, ScanMove, TypeInv, TypeOK
    <3>6. Records' \subseteq Records \cup {c}
      BY <3>4 DEF Records, TypeInv, TypeOK
    <3>7. RecordInv(c, pc', item', used')
      BY <3>0, <3>1, <3>2, <3>3, <3>5, SameJobs
    <3> QED
      BY <3>5, <3>6, <3>7, NewRecordStep
  <2>2. CASE ~(at[w] \in stored /\ payload[at[w]].repo[item[w]] # "none")
    <3>1. Finish(w) /\ used' = used /\ payload' = payload
      BY <1>6, <2>2 DEF ReloadRepository, store
    <3> QED
      BY <3>1, HeldRecords, QuietEnd
  <2> QED
    BY <2>1, <2>2
<1>7. CASE SaveCloning(w)
  <2>1. /\ Goto(w, "save_cloning", "begin_clone") /\ "save_cloning" \in PC /\ "begin_clone" \in PC
        /\ copy' = copy /\ used' = used
        /\ Save(at[w], copy[w]) /\ at[w] \in Assessments
    BY <1>7, <1>0 DEF SaveCloning, Goto, PC
  <2>2. \A a \in Assessments : payload'[a] \in Records
    BY <2>1, <1>0, SavedRecords, HeldRecords
  <2> QED
    BY <2>1, <2>2, QuietMiddle
<1>8. CASE BeginClone(w)
  <2>1. /\ Goto(w, "begin_clone", "end_clone") /\ "begin_clone" \in PC /\ "end_clone" \in PC
        /\ copy' = copy /\ used' = used /\ payload' = payload
    BY <1>8, <1>0 DEF BeginClone, PC, store
  <2> QED
    BY <2>1, HeldRecords, QuietMiddle
<1>9. ASSUME NEW outcome \in {"ready", "failed", "cloning"}, EndClone(w, outcome)
      PROVE  ExplainedInv'
  <2> DEFINE c == SetRepo(copy[w], item[w], outcome)
  <2>0. outcome \in RepositoryIngestStatus /\ item[w] \in Repos
    BY <1>9, <1>0 DEF EndClone, Goto, RepositoryIngestStatus, RepoPC
  <2>1. c \in Assessment
    BY <1>0, <2>0, SetRepoFields
  <2>2. c.job = copy[w].job
    BY <1>0, <2>0, SetRepoFields
  <2>3. RecordExplained(c)
    BY <1>0, <2>0, SetRepoExplained
  <2>4. /\ Goto(w, "end_clone", "save_ingestion") /\ copy' = [copy EXCEPT ![w] = c]
        /\ used' = used /\ payload' = payload
    BY <1>9 DEF EndClone, store
  <2> HIDE DEF c
  <2>5. Frame(w)
    BY <2>4 DEF Goto, Frame, ScanMove, TypeInv, TypeOK
  <2>6. Records' \subseteq Records \cup {c}
    BY <2>4 DEF Records, TypeInv, TypeOK
  <2>7. RecordInv(c, pc', item', used')
    BY <1>0, <2>1, <2>2, <2>3, <2>5, SameJobs
  <2> QED
    BY <2>5, <2>6, <2>7, NewRecordStep
<1>10. CASE SaveIngestion(w)
  <2>1. Finish(w) /\ used' = used /\ Save(at[w], copy[w]) /\ at[w] \in Assessments
    BY <1>10, <1>0 DEF SaveIngestion
  <2>2. \A a \in Assessments : payload'[a] \in Records
    BY <2>1, <1>0, SavedRecords, HeldRecords
  <2> QED
    BY <2>1, <2>2, QuietEnd
<1>11. ASSUME NEW j \in Jobs, NEW t \in Targets, NEW consent \in Consent,
              ReadForScanJob(w, j, t, consent)
       PROVE  ExplainedInv'
  <2> DEFINE d == StartAnalysis(payload[at[w]])
             c == AppendJob(d, j, "pending", t, consent)
             q == IF consent = "given" THEN "record_consent" ELSE "save_new_job"
  <2>0. payload[at[w]] \in Records /\ "pending" \in ScanStatus
    BY <1>11, <1>0 DEF ReadForScanJob, ScanStatus
  <2>1. j \notin used /\ used' = used \cup {j}
    BY <1>11 DEF ReadForScanJob, Draw
  <2>2. payload[at[w]].job[j] = "none"
    BY <2>0, <2>1 DEF ExplainedInv, RecordInv
  <2>3. RecordExplained(c)
    BY <1>0, <2>0, <2>2, PendingJobExplained
  <2>4. d \in Assessment /\ d.job = payload[at[w]].job
    BY <1>0, <2>0, StartAnalysisFields
  <2> HIDE DEF d
  <2>5. c \in Assessment
    BY <2>0, <2>4, AppendJobFields
  <2>6. \A k \in Jobs : c.job[k] = IF k = j THEN "pending" ELSE payload[at[w]].job[k]
    BY <2>0, <2>4, AppendJobEntry
  <2>7. /\ pc' = [pc EXCEPT ![w] = q]
        /\ item' = [item EXCEPT ![w] = j]
        /\ copy' = [copy EXCEPT ![w] = c]
        /\ payload' = payload
        /\ q \in {"record_consent", "save_new_job"}
    BY <1>11 DEF ReadForScanJob, store, d
  <2> HIDE DEF c, q
  <2>8. pc'[w] = q /\ item'[w] = j
    BY <2>7 DEF TypeInv, TypeOK
  <2>9. Frame(w)
    BY <2>1, <2>7, <2>8 DEF Frame, ScanMove, TypeInv, TypeOK
  <2>10. Records' \subseteq Records \cup {c}
    BY <2>7 DEF Records, TypeInv, TypeOK
  <2>11. Stage(c, pc'[w], item'[w])
    BY <2>6, <2>7, <2>8 DEF Stage
  <2>12. pc'[w] \in JobPC
    BY <2>7, <2>8 DEF JobPC, BeforeScan, DuringScan
  <2>13. \A k \in Jobs : k # item'[w] => c.job[k] = payload[at[w]].job[k]
    BY <2>6, <2>8
  <2>14. RecordInv(c, pc', item', used')
    BY <2>0, <2>3, <2>5, <2>9, <2>11, <2>12, <2>13, OneJobMoved
  <2> QED
    BY <2>9, <2>10, <2>14, NewRecordStep
<1>12. CASE RejectScanJob(w)
  <2>1. Finish(w) /\ used' = used /\ payload' = payload
    BY <1>12 DEF RejectScanJob, store
  <2> QED
    BY <2>1, HeldRecords, QuietEnd
<1>13. CASE RecordConsent(w)
  <2>1. /\ Goto(w, "record_consent", "save_new_job") /\ "record_consent" \in PC
        /\ "save_new_job" \in PC
        /\ copy' = copy /\ used' = used /\ payload' = payload
    BY <1>13, <1>0 DEF RecordConsent, PC, store
  <2> QED
    BY <2>1, HeldRecords, QuietMiddle
<1>14. CASE SaveNewJob(w)
  <2>1. /\ Goto(w, "save_new_job", "reload_job") /\ "save_new_job" \in PC /\ "reload_job" \in PC
        /\ copy' = copy /\ used' = used
        /\ Save(at[w], copy[w]) /\ at[w] \in Assessments
    BY <1>14, <1>0 DEF SaveNewJob, Goto, PC
  <2>2. \A a \in Assessments : payload'[a] \in Records
    BY <2>1, <1>0, SavedRecords, HeldRecords
  <2> QED
    BY <2>1, <2>2, QuietMiddle
<1>15. CASE ReloadJob(w)
  <2>1. CASE at[w] \in stored /\ payload[at[w]].job[item[w]] # "none"
    <3> DEFINE c == SetJob(payload[at[w]], item[w], "running")
    <3>0. "running" \in ScanStatus /\ item[w] \in Jobs /\ payload[at[w]] \in Records
          /\ pc[w] = "reload_job"
      BY <1>15, <1>0 DEF ReloadJob, ScanStatus
    <3>1. c \in Assessment
      BY <1>0, <3>0, SetJobFields
    <3>2. c.job = [payload[at[w]].job EXCEPT ![item[w]] = "running"]
      BY <1>0, <3>0, SetJobFields
    <3>3. payload[at[w]].job[item[w]] \in Active
      BY <2>1, <3>0 DEF ExplainedInv, RecordInv, Stage, Active
    <3>4. RecordExplained(c)
      BY <1>0, <3>0, <3>3, StartJobExplained
    <3>5. /\ Goto(w, "reload_job", "save_running") /\ copy' = [copy EXCEPT ![w] = c]
          /\ used' = used /\ payload' = payload
      BY <1>15, <2>1 DEF ReloadJob, store
    <3>6. payload[at[w]].job \in [Jobs -> ScanStatus]
      BY <1>0, <3>0 DEF Assessment
    <3> HIDE DEF c
    <3>7. pc'[w] = "save_running" /\ item' = item
      BY <3>5 DEF Goto, TypeInv, TypeOK
    <3>8. Frame(w)
      BY <3>0, <3>5, <3>7 DEF Goto, Frame, ScanMove, TypeInv, TypeOK
    <3>9. Records' \subseteq Records \cup {c}
      BY <3>5 DEF Records, TypeInv, TypeOK
    <3>10. Stage(c, pc'[w], item'[w])
      BY <3>0, <3>2, <3>6, <3>7 DEF Stage
    <3>11. \A k \in Jobs : k # item'[w] => c.job[k] = payload[at[w]].job[k]
      BY <3>2, <3>6, <3>7
    <3>12. RecordInv(c, pc', item', used')
      BY <3>0, <3>1, <3>4, <3>7, <3>8, <3>10, <3>11, OneJobMoved
    <3> QED
      BY <3>8, <3>9, <3>12, NewRecordStep
  <2>2. CASE ~(at[w] \in stored /\ payload[at[w]].job[item[w]] # "none")
    <3>1. Finish(w) /\ used' = used /\ payload' = payload
      BY <1>15, <2>2 DEF ReloadJob, store
    <3> QED
      BY <3>1, HeldRecords, QuietEnd
  <2> QED
    BY <2>1, <2>2
<1>16. CASE SaveRunning(w)
  <2>1. /\ Goto(w, "save_running", "execute") /\ "save_running" \in PC /\ "execute" \in PC
        /\ copy' = copy /\ used' = used
        /\ Save(at[w], copy[w]) /\ at[w] \in Assessments
    BY <1>16, <1>0 DEF SaveRunning, Goto, PC
  <2>2. \A a \in Assessments : payload'[a] \in Records
    BY <2>1, <1>0, SavedRecords, HeldRecords
  <2> QED
    BY <2>1, <2>2, QuietMiddle
<1>17. ASSUME NEW outcome \in Terminal, FinishScan(w, outcome)
       PROVE  ExplainedInv'
  <2> DEFINE c == FinishJob(copy[w], item[w], outcome)
  <2>0. item[w] \in Jobs /\ at[w] \in Assessments /\ pc[w] = "execute"
    BY <1>17, <1>0 DEF FinishScan, Goto
  <2>1. c \in Assessment
    BY <1>0, <2>0, FinishJobFields
  <2>2. \A k \in Jobs : c.job[k] = IF k = item[w] THEN outcome ELSE copy[w].job[k]
    BY <1>0, <2>0, FinishJobEntry
  <2>3. copy[w].job[item[w]] # "completed"
    BY <1>0, <2>0 DEF ExplainedInv, RecordInv, Stage
  <2>4. RecordExplained(c)
    BY <1>0, <2>0, <2>3, FinishJobExplained
  <2>5. /\ Goto(w, "execute", "notify") /\ copy' = [copy EXCEPT ![w] = c]
        /\ used' = used /\ Save(at[w], c)
    BY <1>17 DEF FinishScan
  <2> HIDE DEF c
  <2>7. pc'[w] = "notify" /\ item' = item
    BY <2>5 DEF Goto, TypeInv, TypeOK
  <2>8. Frame(w)
    BY <2>0, <2>5, <2>7 DEF Goto, Frame, ScanMove, TypeInv, TypeOK
  <2>9. Records' \subseteq Records \cup {c}
    BY <2>0, <2>5, SavedRecords DEF Records, TypeInv, TypeOK
  <2>10. Stage(c, pc'[w], item'[w])
    BY <2>7 DEF Stage
  <2>11. \A k \in Jobs : k # item'[w] => c.job[k] = copy[w].job[k]
    BY <2>2, <2>7
  <2>12. RecordInv(c, pc', item', used')
    BY <1>0, <2>1, <2>4, <2>7, <2>8, <2>10, <2>11, OneJobMoved
  <2> QED
    BY <2>8, <2>9, <2>12, NewRecordStep
<1>18. ASSUME NEW delivered \in BOOLEAN, NotifyWebhook(w, delivered)
       PROVE  ExplainedInv'
  <2>1. Finish(w) /\ used' = used /\ payload' = payload
    BY <1>18 DEF NotifyWebhook, store
  <2> QED
    BY <2>1, HeldRecords, QuietEnd
<1>19. CASE SaveTrivyJob(w)
  <2>1. /\ Goto(w, "save_trivy_job", "execute") /\ "save_trivy_job" \in PC /\ "execute" \in PC
        /\ copy' = copy /\ used' = used
        /\ Save(at[w], copy[w]) /\ at[w] \in Assessments
    BY <1>19, <1>0 DEF SaveTrivyJob, Goto, PC
  <2>2. \A a \in Assessments : payload'[a] \in Records
    BY <2>1, <1>0, SavedRecords, HeldRecords
  <2> QED
    BY <2>1, <2>2, QuietMiddle
<1>20. ASSUME NEW outcome \in {"failed", "cloning"}, RefuseClone(w, outcome)
       PROVE  ExplainedInv'
  <2> DEFINE c == SetRepo(copy[w], item[w], outcome)
  <2>0. outcome \in RepositoryIngestStatus /\ item[w] \in Repos
    BY <1>20, <1>0 DEF RefuseClone, Goto, RepositoryIngestStatus, RepoPC
  <2>1. c \in Assessment
    BY <1>0, <2>0, SetRepoFields
  <2>2. c.job = copy[w].job
    BY <1>0, <2>0, SetRepoFields
  <2>3. RecordExplained(c)
    BY <1>0, <2>0, SetRepoExplained
  <2>4. /\ Goto(w, "begin_clone", "save_ingestion") /\ copy' = [copy EXCEPT ![w] = c]
        /\ used' = used /\ payload' = payload
    BY <1>20 DEF RefuseClone, store
  <2> HIDE DEF c
  <2>5. Frame(w)
    BY <2>4 DEF Goto, Frame, ScanMove, TypeInv, TypeOK
  <2>6. Records' \subseteq Records \cup {c}
    BY <2>4 DEF Records, TypeInv, TypeOK
  <2>7. RecordInv(c, pc', item', used')
    BY <1>0, <2>1, <2>2, <2>3, <2>5, SameJobs
  <2> QED
    BY <2>5, <2>6, <2>7, NewRecordStep
<1> QED
  BY <1>1, <1>2, <1>3, <1>4, <1>5, <1>6, <1>7, <1>8, <1>9, <1>10, <1>11, <1>12, <1>13, <1>14,
     <1>15, <1>16, <1>17, <1>18, <1>19, <1>20 DEF Step

\* Every step keeps the invariant ...
LEMMA NextExplained ==
    ASSUME TypeInv, ExplainedInv, [Next]_vars
    PROVE  ExplainedInv'
<1>0. TypeInv'
  BY NextType
<1>1. ASSUME NEW w \in Workers, Request(w)
      PROVE  ExplainedInv'
  BY <1>0, <1>1, RequestExplained
<1>2. ASSUME NEW w \in Workers, Step(w)
      PROVE  ExplainedInv'
  BY <1>0, <1>2, StepExplained
<1>3. ASSUME NEW w \in Workers, Abort(w)
      PROVE  ExplainedInv'
  <2>1. Finish(w) /\ used' = used /\ payload' = payload
    BY <1>3 DEF Abort, store
  <2> QED
    BY <2>1, HeldRecords, QuietEnd
<1>4. CASE UNCHANGED vars
  <2>1. Records' = Records
    BY <1>4 DEF vars, Records
  <2> QED
    BY <1>4, <2>1 DEF vars, ExplainedInv, Ownership
<1> QED
  BY <1>1, <1>2, <1>3, <1>4 DEF Next

\* ... so it holds in every state.
LEMMA AlwaysExplained == Spec => [](TypeInv /\ ExplainedInv)
<1>1. Init => TypeInv /\ ExplainedInv
  BY InitType, InitExplained
<1>2. TypeInv /\ ExplainedInv /\ [Next]_vars => (TypeInv /\ ExplainedInv)'
  BY NextType, NextExplained
<1> QED
  BY <1>1, <1>2, PTL DEF Spec

\* Nobody ever reads an assessment whose status contradicts its jobs.
THEOREM StatusAlwaysMatchesJobs == Spec => []StatusMatchesJobs
<1>1. TypeInv /\ ExplainedInv => StatusMatchesJobs
  BY HeldRecords
     DEF TypeInv, TypeOK, ExplainedInv, RecordInv, RecordExplained, StatusMatchesJobs
<1> QED
  BY <1>1, AlwaysExplained, PTL

\* Nobody ever reads findings without their COMPLETED job, or the reverse.
THEOREM FindingsAlwaysMatchJobs == Spec => []FindingsMatchJobs
<1>1. TypeInv /\ ExplainedInv => FindingsMatchJobs
  BY HeldRecords
     DEF TypeInv, TypeOK, ExplainedInv, RecordInv, RecordExplained, FindingsMatchJobs
<1> QED
  BY <1>1, AlwaysExplained, PTL

-----------------------------------------------------------------------------
(* Consent.                                                                *)
(*                                                                         *)
(* Objects are written over one another, so the invariant speaks of every  *)
(* record: each authorised job is in the audit log under the record's      *)
(* assessment, save the one whose entry its worker is just about to write. *)

Consented(a, b) == \A j \in b.authorized : <<a, j>> \in audit

CopyConsented(w) ==
    \A j \in copy[w].authorized :
        <<at[w], j>> \in audit \/ (pc[w] = "record_consent" /\ j = item[w])

ConsentInv ==
    /\ \A a \in Assessments : Consented(a, payload[a])
    /\ \A w \in Workers : CopyConsented(w)

\* Nobody else moves.
Undisturbed(w) == \A v \in Workers \ {w} :
                pc'[v] = pc[v] /\ at'[v] = at[v] /\ item'[v] = item[v] /\ copy'[v] = copy[v]

\* At first nothing is authorised.
LEMMA InitConsent == Init => ConsentInv
<1>1. NewAssessment.authorized = {}
  BY DEF NewAssessment
<1> QED
  BY <1>1 DEF Init, ConsentInv, Consented, CopyConsented

\* The log only grows, so what one worker does disturbs its own copy and the
\* row it writes.
LEMMA ConsentStep ==
    ASSUME ConsentInv, NEW w \in Workers, Undisturbed(w), audit \subseteq audit',
           \A a \in Assessments : Consented(a, payload[a])' , CopyConsented(w)'
    PROVE  ConsentInv'
<1>1. ASSUME NEW v \in Workers \ {w} PROVE CopyConsented(v)'
  BY <1>1 DEF ConsentInv, CopyConsented, Undisturbed
<1> QED
  BY <1>1 DEF ConsentInv

\* A request that takes up a row.
LEMMA BeginConsent ==
    ASSUME TypeInv, ConsentInv, NEW w \in Workers, NEW p, p # "record_consent",
           NEW a, NEW i, NEW b, Begin(w, p, a, i, b), Consented(a, b),
           payload' = payload, audit' = audit
    PROVE  ConsentInv'
<1>1. Undisturbed(w)
  BY DEF Begin, Undisturbed, TypeInv, TypeOK
<1>2. CopyConsented(w)'
  BY DEF Begin, CopyConsented, Consented, TypeInv, TypeOK
<1> QED
  BY <1>1, <1>2, ConsentStep DEF ConsentInv, Consented

\* A request that ends.
LEMMA FinishConsent ==
    ASSUME TypeInv, ConsentInv, NEW w \in Workers, Finish(w), audit' = audit,
           \A a \in Assessments : Consented(a, payload'[a])
    PROVE  ConsentInv'
<1>1. Undisturbed(w)
  BY DEF Finish, Undisturbed, TypeInv, TypeOK
<1>2. copy'[w].authorized = {}
  BY DEF Finish, NewAssessment, TypeInv, TypeOK
<1> QED
  BY <1>1, <1>2, ConsentStep DEF CopyConsented, Consented

\* A transaction in the middle of a request whose copy is covered.
LEMMA GotoConsent ==
    ASSUME TypeInv, ConsentInv, NEW w \in Workers, NEW p, p # "record_consent",
           NEW q, Goto(w, p, q), NEW c, copy' = [copy EXCEPT ![w] = c], Consented(at[w], c),
           audit' = audit, \A a \in Assessments : Consented(a, payload'[a])
    PROVE  ConsentInv'
<1>1. Undisturbed(w)
  BY DEF Goto, Undisturbed, TypeInv, TypeOK
<1>2. CopyConsented(w)'
  BY DEF Goto, CopyConsented, Consented, TypeInv, TypeOK
<1> QED
  BY <1>1, <1>2, ConsentStep DEF Consented

\* What a save or a deletion leaves in the table is covered.
LEMMA SaveConsent ==
    ASSUME TypeInv, ConsentInv, NEW x \in Assessments, NEW b, Save(x, b), Consented(x, b)
    PROVE  \A a \in Assessments : Consented(a, payload'[a])
BY DEF Save, ConsentInv, TypeInv, TypeOK

\* A deletion leaves the audit log alone.
LEMMA DeleteConsent ==
    ASSUME TypeInv, ConsentInv, NEW x \in Assessments, Delete(x)
    PROVE  \A a \in Assessments : Consented(a, payload'[a])
<1>1. Consented(x, NewAssessment)
  BY DEF Consented, NewAssessment
<1> QED
  BY <1>1 DEF Delete, ConsentInv, TypeInv, TypeOK

\* Accepting a request authorises nothing that was not.
LEMMA RequestConsent ==
    ASSUME TypeInv, ConsentInv, NEW w \in Workers, Request(w)
    PROVE  ConsentInv'
<1>0. /\ \A a \in Assessments : Consented(a, payload[a]) /\ payload[a] \in Assessment
      /\ \A a : Consented(a, NewAssessment)
  BY DEF ConsentInv, Consented, NewAssessment, TypeInv, TypeOK
<1>1. ASSUME NEW a \in Assessments, EnforceAssessmentLimit(w, a)
      PROVE  ConsentInv'
  <2>1. Begin(w, "insert", a, None, NewAssessment) /\ payload' = payload /\ audit' = audit
    BY <1>1 DEF EnforceAssessmentLimit, store
  <2> QED
    BY <2>1, <1>0, BeginConsent
<1>2. ASSUME NEW a \in Assessments, ReadForDeletion(w, a)
      PROVE  ConsentInv'
  <2>1. Begin(w, "delete_row", a, None, payload[a]) /\ payload' = payload /\ audit' = audit
    BY <1>2 DEF ReadForDeletion, store
  <2> QED
    BY <2>1, <1>0, BeginConsent
<1>3. ASSUME NEW a \in Assessments, EnforceScanJobLimit(w, a)
      PROVE  ConsentInv'
  <2>1. Begin(w, "read_job", a, None, NewAssessment) /\ payload' = payload /\ audit' = audit
    BY <1>3 DEF EnforceScanJobLimit, store
  <2> QED
    BY <2>1, <1>0, BeginConsent
<1>4. ASSUME NEW a \in Assessments, NEW r \in Repos, ReadForRemoval(w, a, r)
      PROVE  ConsentInv'
  <2>1. Begin(w, "save_removal", a, r, payload[a]) /\ payload' = payload /\ audit' = audit
    BY <1>4 DEF ReadForRemoval, store
  <2> QED
    BY <2>1, <1>0, BeginConsent
<1>5. ASSUME NEW a \in Assessments, NEW r \in Repos, ReadForIngestion(w, a, r)
      PROVE  ConsentInv'
  <2> DEFINE b == SetRepo(payload[a], r, "pending")
  <2>1. Begin(w, "save_new_repo", a, r, b) /\ payload' = payload /\ audit' = audit
    BY <1>5 DEF ReadForIngestion, store
  <2>2. b.authorized = payload[a].authorized
    <3>1. "pending" \in RepositoryIngestStatus
      BY DEF RepositoryIngestStatus
    <3> QED
      BY <1>0, <3>1, SetRepoFields
  <2>3. Consented(a, b)
    BY <1>0, <2>2 DEF Consented
  <2> HIDE DEF b
  <2> QED
    BY <2>1, <2>3, BeginConsent
<1>6. ASSUME NEW a \in Assessments, NEW j \in Jobs, ReadForTrivyScan(w, a, j)
      PROVE  ConsentInv'
  <2> DEFINE b == AppendJob(payload[a], j, "running", External, "absent")
  <2>1. Begin(w, "save_trivy_job", a, j, b) /\ payload' = payload /\ audit' = audit
    BY <1>6 DEF ReadForTrivyScan, store
  <2>2. b.authorized = payload[a].authorized
    BY <1>0 DEF AppendJob, Assessment
  <2>3. Consented(a, b)
    BY <1>0, <2>2 DEF Consented
  <2> HIDE DEF b
  <2> QED
    BY <2>1, <2>3, BeginConsent
<1> QED
  BY <1>1, <1>2, <1>3, <1>4, <1>5, <1>6 DEF Request

\* Every transaction keeps consent ahead of what it authorises.
LEMMA StepConsent ==
    ASSUME TypeInv, ConsentInv, NEW w \in Workers, Step(w)
    PROVE  ConsentInv'
<1>0. /\ \A a \in Assessments : Consented(a, payload[a]) /\ payload[a] \in Assessment
      /\ copy[w] \in Assessment /\ CopyConsented(w)
      /\ pc[w] # "idle" => at[w] \in Assessments
      /\ pc[w] \in JobPC => item[w] \in Jobs
      /\ pc[w] \in RepoPC => item[w] \in Repos
      /\ copy \in [Workers -> Assessment]
  BY DEF ConsentInv, TypeInv, TypeOK, WorkerShape
<1> USE DEF JobPC, RepoPC, BeforeScan, DuringScan
<1>00. pc[w] # "record_consent" => Consented(at[w], copy[w])
  BY <1>0 DEF CopyConsented, Consented
<1>1. CASE InsertAssessment(w)
  <2>1. Finish(w) /\ audit' = audit /\ Save(at[w], copy[w]) /\ at[w] \in Assessments
    BY <1>1, <1>0 DEF InsertAssessment
  <2>2. Consented(at[w], copy[w])
    BY <1>1, <1>00 DEF InsertAssessment
  <2> QED
    BY <2>1, <2>2, SaveConsent, FinishConsent
<1>2. CASE DeleteRow(w)
  <2>1. /\ Goto(w, "delete_row", "cleanup") /\ audit' = audit
        /\ Delete(at[w]) /\ at[w] \in Assessments /\ copy' = [copy EXCEPT ![w] = copy[w]]
    BY <1>2, <1>0 DEF DeleteRow, Goto
  <2>2. Consented(at[w], copy[w])
    BY <1>2, <1>00 DEF DeleteRow, Goto
  <2> QED
    BY <2>1, <2>2, DeleteConsent, GotoConsent
<1>3. CASE SaveRemoval(w)
  <2> DEFINE b == SetRepo(copy[w], item[w], "none")
  <2>1. /\ Goto(w, "save_removal", "cleanup") /\ audit' = audit /\ item[w] \in Repos
        /\ Save(at[w], b) /\ at[w] \in Assessments /\ copy' = [copy EXCEPT ![w] = copy[w]]
    BY <1>3, <1>0 DEF SaveRemoval, Goto
  <2>2. Consented(at[w], copy[w])
    BY <1>3, <1>00 DEF SaveRemoval, Goto
  <2>3. "none" \in RepositoryIngestStatus
    BY DEF RepositoryIngestStatus
  <2>4. b.authorized = copy[w].authorized
    BY <1>0, <2>1, <2>3, SetRepoFields
  <2>5. Consented(at[w], b)
    BY <2>2, <2>4 DEF Consented
  <2> HIDE DEF b
  <2> QED
    BY <2>1, <2>2, <2>5, SaveConsent, GotoConsent
<1>4. CASE CleanupClones(w)
  <2>1. Finish(w) /\ audit' = audit /\ payload' = payload
    BY <1>4 DEF CleanupClones, store
  <2> QED
    BY <2>1, <1>0, FinishConsent
<1>5. CASE SaveNewRepository(w)
  <2>1. /\ Goto(w, "save_new_repo", "reload_repo") /\ audit' = audit
        /\ Save(at[w], copy[w]) /\ at[w] \in Assessments /\ copy' = [copy EXCEPT ![w] = copy[w]]
    BY <1>5, <1>0 DEF SaveNewRepository, Goto
  <2>2. Consented(at[w], copy[w])
    BY <1>5, <1>00 DEF SaveNewRepository, Goto
  <2> QED
    BY <2>1, <2>2, SaveConsent, GotoConsent
<1>6. CASE ReloadRepository(w)
  <2> DEFINE b == SetRepo(payload[at[w]], item[w], "cloning")
  <2>1. audit' = audit /\ payload' = payload /\ pc[w] = "reload_repo"
    BY <1>6 DEF ReloadRepository, Goto, store
  <2>2. CASE Finish(w)
    BY <2>1, <2>2, <1>0, FinishConsent
  <2>3. CASE Goto(w, "reload_repo", "save_cloning") /\ copy' = [copy EXCEPT ![w] = b]
    <3>1. at[w] \in Assessments /\ item[w] \in Repos /\ "cloning" \in RepositoryIngestStatus
      BY <2>1, <1>0 DEF RepositoryIngestStatus
    <3>2. b.authorized = payload[at[w]].authorized
      BY <1>0, <3>1, SetRepoFields
    <3>3. Consented(at[w], b)
      BY <1>0, <3>1, <3>2 DEF Consented
    <3> HIDE DEF b
    <3> QED
      BY <2>1, <2>3, <3>3, <1>0, GotoConsent
  <2> QED
    BY <1>6, <2>2, <2>3 DEF ReloadRepository
<1>7. CASE SaveCloning(w)
  <2>1. /\ Goto(w, "save_cloning", "begin_clone") /\ audit' = audit
        /\ Save(at[w], copy[w]) /\ at[w] \in Assessments /\ copy' = [copy EXCEPT ![w] = copy[w]]
    BY <1>7, <1>0 DEF SaveCloning, Goto
  <2>2. Consented(at[w], copy[w])
    BY <1>7, <1>00 DEF SaveCloning, Goto
  <2> QED
    BY <2>1, <2>2, SaveConsent, GotoConsent
<1>8. ASSUME NEW outcome \in {"failed", "cloning"}, RefuseClone(w, outcome)
      PROVE  ConsentInv'
  <2> DEFINE b == SetRepo(copy[w], item[w], outcome)
  <2>1. /\ Goto(w, "begin_clone", "save_ingestion") /\ audit' = audit /\ payload' = payload
        /\ copy' = [copy EXCEPT ![w] = b] /\ item[w] \in Repos
    BY <1>8, <1>0 DEF RefuseClone, Goto, store
  <2>2. outcome \in RepositoryIngestStatus
    BY <1>8 DEF RepositoryIngestStatus
  <2>3. b.authorized = copy[w].authorized
    BY <1>0, <2>1, <2>2, SetRepoFields
  <2>4. Consented(at[w], b)
    BY <1>8, <1>00, <2>3 DEF RefuseClone, Goto, Consented
  <2> HIDE DEF b
  <2> QED
    BY <2>1, <2>4, <1>0, GotoConsent
<1>9. CASE BeginClone(w)
  <2>1. /\ Goto(w, "begin_clone", "end_clone") /\ audit' = audit /\ payload' = payload
        /\ copy' = [copy EXCEPT ![w] = copy[w]]
    BY <1>9, <1>0 DEF BeginClone, store
  <2>2. Consented(at[w], copy[w])
    BY <1>9, <1>00 DEF BeginClone, Goto
  <2> QED
    BY <2>1, <2>2, <1>0, GotoConsent
<1>10. ASSUME NEW outcome \in {"ready", "failed", "cloning"}, EndClone(w, outcome)
      PROVE  ConsentInv'
  <2> DEFINE b == SetRepo(copy[w], item[w], outcome)
  <2>1. /\ Goto(w, "end_clone", "save_ingestion") /\ audit' = audit /\ payload' = payload
        /\ copy' = [copy EXCEPT ![w] = b] /\ item[w] \in Repos
    BY <1>10, <1>0 DEF EndClone, Goto, store
  <2>2. outcome \in RepositoryIngestStatus
    BY <1>10 DEF RepositoryIngestStatus
  <2>3. b.authorized = copy[w].authorized
    BY <1>0, <2>1, <2>2, SetRepoFields
  <2>4. Consented(at[w], b)
    BY <1>10, <1>00, <2>3 DEF EndClone, Goto, Consented
  <2> HIDE DEF b
  <2> QED
    BY <2>1, <2>4, <1>0, GotoConsent
<1>11. CASE SaveIngestion(w)
  <2>1. Finish(w) /\ audit' = audit /\ Save(at[w], copy[w]) /\ at[w] \in Assessments
    BY <1>11, <1>0 DEF SaveIngestion
  <2>2. Consented(at[w], copy[w])
    BY <1>11, <1>00 DEF SaveIngestion
  <2> QED
    BY <2>1, <2>2, SaveConsent, FinishConsent
<1>12. ASSUME NEW j \in Jobs, NEW t \in Targets, NEW consent \in Consent,
              ReadForScanJob(w, j, t, consent)
      PROVE  ConsentInv'
  <2> DEFINE s == StartAnalysis(payload[at[w]])
             b == AppendJob(s, j, "pending", t, consent)
  <2>1. at[w] \in Assessments
    BY <1>12, <1>0 DEF ReadForScanJob
  <2>2. s \in Assessment /\ s.authorized = payload[at[w]].authorized
    BY <1>0, <2>1, StartAnalysisFields
  <2>3. /\ b.authorized \subseteq s.authorized \cup {j}
        /\ consent = "absent" => b.authorized = s.authorized
    <3>1. "pending" \in ScanStatus
      BY DEF ScanStatus
    <3> HIDE DEF s
    <3> QED
      BY <2>2, <3>1, AppendJobFields
  <2>4. /\ pc' = [pc EXCEPT ![w] = IF consent = "given" THEN "record_consent" ELSE "save_new_job"]
        /\ item' = [item EXCEPT ![w] = j] /\ at' = at /\ copy' = [copy EXCEPT ![w] = b]
        /\ audit' = audit /\ payload' = payload
    BY <1>12 DEF ReadForScanJob, store
  <2>5. \A k \in s.authorized : <<at[w], k>> \in audit
    BY <1>0, <2>1, <2>2 DEF Consented
  <2> HIDE DEF b, s
  <2>6. Undisturbed(w)
    BY <2>4 DEF Undisturbed, TypeInv, TypeOK
  <2>7. CopyConsented(w)'
    BY <2>3, <2>4, <2>5 DEF CopyConsented, Consent, TypeInv, TypeOK
  <2> QED
    BY <2>4, <2>6, <2>7, <1>0, ConsentStep DEF Consented
<1>13. CASE RejectScanJob(w)
  <2>1. Finish(w) /\ audit' = audit /\ payload' = payload
    BY <1>13 DEF RejectScanJob, store
  <2> QED
    BY <2>1, <1>0, FinishConsent
<1>14. CASE RecordConsent(w)
  <2>1. /\ Goto(w, "record_consent", "save_new_job") /\ copy' = copy /\ payload' = payload
        /\ audit' = audit \cup {<<at[w], item[w]>>}
    BY <1>14 DEF RecordConsent, store
  <2>2. Undisturbed(w)
    BY <2>1 DEF Goto, Undisturbed, TypeInv, TypeOK
  <2>3. CopyConsented(w)'
    BY <1>0, <2>1 DEF Goto, CopyConsented
  <2> QED
    BY <2>1, <2>2, <2>3, <1>0, ConsentStep DEF Consented
<1>15. CASE SaveNewJob(w)
  <2>1. /\ Goto(w, "save_new_job", "reload_job") /\ audit' = audit
        /\ Save(at[w], copy[w]) /\ at[w] \in Assessments /\ copy' = [copy EXCEPT ![w] = copy[w]]
    BY <1>15, <1>0 DEF SaveNewJob, Goto
  <2>2. Consented(at[w], copy[w])
    BY <1>15, <1>00 DEF SaveNewJob, Goto
  <2> QED
    BY <2>1, <2>2, SaveConsent, GotoConsent
<1>16. CASE ReloadJob(w)
  <2> DEFINE b == SetJob(payload[at[w]], item[w], "running")
  <2>1. audit' = audit /\ payload' = payload /\ pc[w] = "reload_job"
    BY <1>16 DEF ReloadJob, Goto, store
  <2>2. CASE Finish(w)
    BY <2>1, <2>2, <1>0, FinishConsent
  <2>3. CASE Goto(w, "reload_job", "save_running") /\ copy' = [copy EXCEPT ![w] = b]
    <3>1. at[w] \in Assessments /\ item[w] \in Jobs /\ "running" \in ScanStatus
      BY <2>1, <1>0 DEF ScanStatus
    <3>2. b.authorized = payload[at[w]].authorized
      BY <1>0, <3>1, SetJobFields
    <3>3. Consented(at[w], b)
      BY <1>0, <3>1, <3>2 DEF Consented
    <3> HIDE DEF b
    <3> QED
      BY <2>1, <2>3, <3>3, <1>0, GotoConsent
  <2> QED
    BY <1>16, <2>2, <2>3 DEF ReloadJob
<1>17. CASE SaveRunning(w)
  <2>1. /\ Goto(w, "save_running", "execute") /\ audit' = audit
        /\ Save(at[w], copy[w]) /\ at[w] \in Assessments /\ copy' = [copy EXCEPT ![w] = copy[w]]
    BY <1>17, <1>0 DEF SaveRunning, Goto
  <2>2. Consented(at[w], copy[w])
    BY <1>17, <1>00 DEF SaveRunning, Goto
  <2> QED
    BY <2>1, <2>2, SaveConsent, GotoConsent
<1>18. ASSUME NEW outcome \in Terminal, FinishScan(w, outcome)
      PROVE  ConsentInv'
  <2> DEFINE b == FinishJob(copy[w], item[w], outcome)
  <2>1. /\ Goto(w, "execute", "notify") /\ audit' = audit /\ item[w] \in Jobs
        /\ Save(at[w], b) /\ at[w] \in Assessments /\ copy' = [copy EXCEPT ![w] = b]
    BY <1>18, <1>0 DEF FinishScan, Goto
  <2>2. b.authorized = copy[w].authorized
    BY <1>0, <2>1, FinishJobKeeps
  <2>3. Consented(at[w], b)
    BY <1>00, <2>1, <2>2 DEF Goto, Consented
  <2> HIDE DEF b
  <2> QED
    BY <2>1, <2>3, SaveConsent, GotoConsent
<1>19. ASSUME NEW delivered \in BOOLEAN, NotifyWebhook(w, delivered)
      PROVE  ConsentInv'
  <2>1. Finish(w) /\ audit' = audit /\ payload' = payload
    BY <1>19 DEF NotifyWebhook, store
  <2> QED
    BY <2>1, <1>0, FinishConsent
<1>20. CASE SaveTrivyJob(w)
  <2>1. /\ Goto(w, "save_trivy_job", "execute") /\ audit' = audit
        /\ Save(at[w], copy[w]) /\ at[w] \in Assessments /\ copy' = [copy EXCEPT ![w] = copy[w]]
    BY <1>20, <1>0 DEF SaveTrivyJob, Goto
  <2>2. Consented(at[w], copy[w])
    BY <1>20, <1>00 DEF SaveTrivyJob, Goto
  <2> QED
    BY <2>1, <2>2, SaveConsent, GotoConsent
<1> QED
  BY <1>1, <1>2, <1>3, <1>4, <1>5, <1>6, <1>7, <1>8, <1>9, <1>10, <1>11, <1>12, <1>13,
     <1>14, <1>15, <1>16, <1>17, <1>18, <1>19, <1>20
     DEF Step

\* Every step keeps the consent invariant.
LEMMA NextConsent == TypeInv /\ ConsentInv /\ [Next]_vars => ConsentInv'
<1> SUFFICES ASSUME TypeInv, ConsentInv, [Next]_vars
             PROVE  ConsentInv'
  OBVIOUS
<1>1. ASSUME NEW w \in Workers, Request(w)
      PROVE  ConsentInv'
  BY <1>1, RequestConsent
<1>2. ASSUME NEW w \in Workers, Step(w)
      PROVE  ConsentInv'
  BY <1>2, StepConsent
<1>3. ASSUME NEW w \in Workers, Abort(w)
      PROVE  ConsentInv'
  BY <1>3, FinishConsent DEF Abort, store, ConsentInv
<1>4. CASE UNCHANGED vars
  BY <1>4 DEF vars, ConsentInv, Consented, CopyConsented
<1> QED
  BY <1>1, <1>2, <1>3, <1>4 DEF Next

\* No agent starts an authorised scan, and nobody reads an authorised job,
\* without an entry in the consent audit log, whatever is overwritten,
\* deleted or killed in between.
THEOREM ConsentPrecedesScan == Spec => []ConsentBeforeScan
<1>1. Init => TypeInv /\ ConsentInv
  BY InitType, InitConsent
<1>2. TypeInv /\ ConsentInv /\ [Next]_vars => (TypeInv /\ ConsentInv)'
  BY NextType, NextConsent
<1>3. TypeInv /\ ConsentInv => ConsentBeforeScan
  BY DEF TypeInv, TypeOK, ConsentInv, Consented, CopyConsented, ConsentBeforeScan
<1> QED
  BY <1>1, <1>2, <1>3, PTL DEF Spec

-----------------------------------------------------------------------------
(* The cap on assessments.                                                 *)
(*                                                                         *)
(* A request that will save without looking at the table again may add its *)
(* row at any time, so the invariant counts the rows together with the     *)
(* assessments of such requests.  Only enforce_assessment_limit adds to    *)
(* that set, and it saw fewer rows than the cap.                           *)

Saving == {"insert", "save_removal", "save_new_repo", "save_cloning", "begin_clone",
           "end_clone", "save_ingestion", "record_consent", "save_new_job", "save_running",
           "save_trivy_job", "execute"}

Unsaved == {at[w] : w \in {v \in Workers : pc[v] \in Saving}}
Rows == stored \cup Unsaved

RowsInv == IsFiniteSet(Rows) /\ Cardinality(Rows) <= MaxAssessments - 1 + Cardinality(Workers)

\* There are no more unsaved assessments than workers.
LEMMA UnsavedCount == IsFiniteSet(Unsaved) /\ Cardinality(Unsaved) <= Cardinality(Workers)
<1> DEFINE S == {v \in Workers : pc[v] \in Saving}
           f == [w \in S |-> at[w]]
<1>1. /\ IsFiniteSet(S) /\ Cardinality(S) <= Cardinality(Workers)
      /\ Cardinality(S) \in Nat /\ Cardinality(Workers) \in Nat
  <2>1. S \in SUBSET Workers
    OBVIOUS
  <2> HIDE DEF S
  <2> QED
    BY <2>1, WorkersAssumption, FS_Subset, FS_CardinalityType
<1>2. f \in Surjection(S, Unsaved)
  BY DEF Surjection, Unsaved
<1> HIDE DEF S, f
<1>3. IsFiniteSet(Unsaved) /\ Cardinality(Unsaved) <= Cardinality(S)
  BY <1>1, <1>2, FS_Surjection
<1>4. Cardinality(Unsaved) \in Nat
  BY <1>3, FS_CardinalityType
<1> QED
  BY <1>1, <1>3, <1>4

\* A step that adds nothing to the rows.
LEMMA RowsShrink ==
    ASSUME RowsInv, Rows' \subseteq Rows
    PROVE  RowsInv'
<1>1. IsFiniteSet(Rows') /\ Cardinality(Rows') <= Cardinality(Rows)
  <2>1. Rows' \in SUBSET Rows /\ IsFiniteSet(Rows)
    BY DEF RowsInv
  <2> QED
    BY <2>1, FS_Subset
<1>2. Cardinality(Rows) \in Nat /\ Cardinality(Rows') \in Nat /\ Cardinality(Workers) \in Nat
  BY <1>1, WorkersAssumption, FS_CardinalityType DEF RowsInv
<1> QED
  BY <1>1, <1>2, CapAssumption DEF RowsInv

\* The step that does: it saw fewer rows than the cap.
LEMMA LimitRows ==
    ASSUME TypeInv, RowsInv, NEW w \in Workers, NEW a \in Assessments,
           EnforceAssessmentLimit(w, a)
    PROVE  RowsInv'
<1>1. IsFiniteSet(stored) /\ Cardinality(stored) \in Nat
  <2>1. stored \in SUBSET Rows /\ IsFiniteSet(Rows)
    BY DEF Rows, RowsInv
  <2>2. IsFiniteSet(stored)
    BY <2>1, FS_Subset
  <2> QED
    BY <2>2, FS_CardinalityType
<1>2. IsFiniteSet(Unsaved') /\ Cardinality(Unsaved') <= Cardinality(Workers)
  <2>1. (IsFiniteSet(Unsaved) /\ Cardinality(Unsaved) <= Cardinality(Workers))'
    BY UnsavedCount, PTL
  <2> QED
    BY <2>1
<1>3. /\ IsFiniteSet(stored \cup Unsaved')
      /\ Cardinality(stored \cup Unsaved') =
            Cardinality(stored) + Cardinality(Unsaved') - Cardinality(stored \cap Unsaved')
  BY <1>1, <1>2, FS_Union
<1>4. Cardinality(stored \cap Unsaved') \in Nat /\ Cardinality(Unsaved') \in Nat
  <2>1. stored \cap Unsaved' \in SUBSET stored
    OBVIOUS
  <2>2. IsFiniteSet(stored \cap Unsaved')
    BY <1>1, <2>1, FS_Subset
  <2> QED
    BY <1>2, <2>2, FS_CardinalityType
<1>5. stored' = stored /\ Cardinality(stored) <= MaxAssessments - 1
  BY <1>1, CapAssumption DEF EnforceAssessmentLimit, store
<1>6. Cardinality(Workers) \in Nat
  BY WorkersAssumption, FS_CardinalityType
<1>7. Cardinality(stored \cup Unsaved') <= MaxAssessments - 1 + Cardinality(Workers)
  BY <1>1, <1>2, <1>3, <1>4, <1>5, <1>6, CapAssumption
<1> QED
  BY <1>3, <1>5, <1>7 DEF RowsInv, Rows

\* A request that takes up a stored assessment, or saves nothing by itself.
LEMMA BeginRows ==
    ASSUME TypeInv, RowsInv, NEW w \in Workers, NEW p, NEW a, NEW i, NEW b,
           Begin(w, p, a, i, b), p \in Saving => a \in stored, stored' = stored
    PROVE  RowsInv'
<1>1. Rows' \subseteq Rows
  BY DEF Begin, Rows, Unsaved, TypeInv, TypeOK
<1> QED
  BY <1>1, RowsShrink

\* A request that ends saves no further row.
LEMMA FinishRows ==
    ASSUME TypeInv, RowsInv, NEW w \in Workers, Finish(w), stored' \subseteq Rows
    PROVE  RowsInv'
<1>1. Rows' \subseteq Rows
  BY DEF Finish, Rows, Unsaved, Saving, TypeInv, TypeOK
<1> QED
  BY <1>1, RowsShrink

\* A request that goes on saves only the row it already stands for.
LEMMA GotoRows ==
    ASSUME TypeInv, RowsInv, NEW w \in Workers, NEW q, pc' = [pc EXCEPT ![w] = q], at' = at,
           q \in Saving => at[w] \in Rows, stored' \subseteq Rows
    PROVE  RowsInv'
<1>1. Rows' \subseteq Rows
  BY DEF Rows, Unsaved, TypeInv, TypeOK
<1> QED
  BY <1>1, RowsShrink

\* At first there are no rows.
LEMMA InitRows == Init => RowsInv
<1> SUFFICES ASSUME Init PROVE RowsInv
  OBVIOUS
<1>1. Rows = {}
  BY DEF Init, Rows, Unsaved, Saving
<1>2. Cardinality(Workers) \in Nat
  BY WorkersAssumption, FS_CardinalityType
<1>3. IsFiniteSet({}) /\ Cardinality({}) = 0
  BY FS_EmptySet
<1> QED
  BY <1>1, <1>2, <1>3, CapAssumption DEF RowsInv

\* Accepting a request adds a row only below the cap.
LEMMA RequestRows ==
    ASSUME TypeInv, RowsInv, NEW w \in Workers, Request(w)
    PROVE  RowsInv'
<1>1. ASSUME NEW a \in Assessments, EnforceAssessmentLimit(w, a)
      PROVE  RowsInv'
  BY <1>1, LimitRows
<1>2. ASSUME NEW a \in Assessments, ReadForDeletion(w, a)
      PROVE  RowsInv'
  BY <1>2, BeginRows DEF ReadForDeletion, Saving, store
<1>3. ASSUME NEW a \in Assessments, EnforceScanJobLimit(w, a)
      PROVE  RowsInv'
  BY <1>3, BeginRows DEF EnforceScanJobLimit, Saving, store
<1>4. ASSUME NEW a \in Assessments, NEW r \in Repos, ReadForRemoval(w, a, r)
      PROVE  RowsInv'
  BY <1>4, BeginRows DEF ReadForRemoval, store
<1>5. ASSUME NEW a \in Assessments, NEW r \in Repos, ReadForIngestion(w, a, r)
      PROVE  RowsInv'
  BY <1>5, BeginRows DEF ReadForIngestion, store
<1>6. ASSUME NEW a \in Assessments, NEW j \in Jobs, ReadForTrivyScan(w, a, j)
      PROVE  RowsInv'
  BY <1>6, BeginRows DEF ReadForTrivyScan, store
<1> QED
  BY <1>1, <1>2, <1>3, <1>4, <1>5, <1>6 DEF Request

\* Every transaction saves only a row that was counted.
LEMMA StepRows ==
    ASSUME TypeInv, RowsInv, NEW w \in Workers, Step(w)
    PROVE  RowsInv'
<1>0. /\ pc[w] \in Saving => at[w] \in Rows
      /\ stored \subseteq Rows
  BY DEF Rows, Unsaved
<1> USE DEF Saving
<1>1. CASE InsertAssessment(w)
  BY <1>1, <1>0, FinishRows DEF InsertAssessment, Save
<1>2. CASE DeleteRow(w)
  BY <1>2, <1>0, GotoRows DEF DeleteRow, Goto, Delete
<1>3. CASE SaveRemoval(w)
  BY <1>3, <1>0, GotoRows DEF SaveRemoval, Goto, Save
<1>4. CASE CleanupClones(w)
  BY <1>4, <1>0, FinishRows DEF CleanupClones, store
<1>5. CASE SaveNewRepository(w)
  BY <1>5, <1>0, GotoRows DEF SaveNewRepository, Goto, Save
<1>6. CASE ReloadRepository(w)
  <2>1. stored' \subseteq Rows
    BY <1>6, <1>0 DEF ReloadRepository, store
  <2>2. CASE Finish(w)
    BY <2>1, <2>2, FinishRows
  <2>3. CASE pc' = [pc EXCEPT ![w] = "save_cloning"] /\ at' = at /\ at[w] \in stored
    BY <2>1, <2>3, <1>0, GotoRows
  <2> QED
    BY <1>6, <2>2, <2>3 DEF ReloadRepository, Goto
<1>7. CASE SaveCloning(w)
  BY <1>7, <1>0, GotoRows DEF SaveCloning, Goto, Save
<1>8. ASSUME NEW outcome \in {"failed", "cloning"}, RefuseClone(w, outcome)
      PROVE  RowsInv'
  BY <1>8, <1>0, GotoRows DEF RefuseClone, Goto, store
<1>9. CASE BeginClone(w)
  BY <1>9, <1>0, GotoRows DEF BeginClone, Goto, store
<1>10. ASSUME NEW outcome \in {"ready", "failed", "cloning"}, EndClone(w, outcome)
      PROVE  RowsInv'
  BY <1>10, <1>0, GotoRows DEF EndClone, Goto, store
<1>11. CASE SaveIngestion(w)
  BY <1>11, <1>0, FinishRows DEF SaveIngestion, Save
<1>12. ASSUME NEW j \in Jobs, NEW t \in Targets, NEW consent \in Consent,
              ReadForScanJob(w, j, t, consent)
      PROVE  RowsInv'
  <2>1. at[w] \in stored /\ stored' = stored /\ at' = at
    BY <1>12 DEF ReadForScanJob, store
  <2>2. PICK q : pc' = [pc EXCEPT ![w] = q]
    BY <1>12 DEF ReadForScanJob
  <2> QED
    BY <2>1, <2>2, <1>0, GotoRows
<1>13. CASE RejectScanJob(w)
  BY <1>13, <1>0, FinishRows DEF RejectScanJob, store
<1>14. CASE RecordConsent(w)
  BY <1>14, <1>0, GotoRows DEF RecordConsent, Goto, store
<1>15. CASE SaveNewJob(w)
  BY <1>15, <1>0, GotoRows DEF SaveNewJob, Goto, Save
<1>16. CASE ReloadJob(w)
  <2>1. stored' \subseteq Rows
    BY <1>16, <1>0 DEF ReloadJob, store
  <2>2. CASE Finish(w)
    BY <2>1, <2>2, FinishRows
  <2>3. CASE pc' = [pc EXCEPT ![w] = "save_running"] /\ at' = at /\ at[w] \in stored
    BY <2>1, <2>3, <1>0, GotoRows
  <2> QED
    BY <1>16, <2>2, <2>3 DEF ReloadJob, Goto
<1>17. CASE SaveRunning(w)
  BY <1>17, <1>0, GotoRows DEF SaveRunning, Goto, Save
<1>18. ASSUME NEW outcome \in Terminal, FinishScan(w, outcome)
      PROVE  RowsInv'
  BY <1>18, <1>0, GotoRows DEF FinishScan, Goto, Save
<1>19. ASSUME NEW delivered \in BOOLEAN, NotifyWebhook(w, delivered)
      PROVE  RowsInv'
  BY <1>19, <1>0, FinishRows DEF NotifyWebhook, store
<1>20. CASE SaveTrivyJob(w)
  BY <1>20, <1>0, GotoRows DEF SaveTrivyJob, Goto, Save
<1> QED
  BY <1>1, <1>2, <1>3, <1>4, <1>5, <1>6, <1>7, <1>8, <1>9, <1>10, <1>11, <1>12, <1>13,
     <1>14, <1>15, <1>16, <1>17, <1>18, <1>19, <1>20
     DEF Step

\* Every step keeps the rows, saved and unsaved, within their bound.
LEMMA NextRows == TypeInv /\ RowsInv /\ [Next]_vars => RowsInv'
<1> SUFFICES ASSUME TypeInv, RowsInv, [Next]_vars
             PROVE  RowsInv'
  OBVIOUS
<1>1. ASSUME NEW w \in Workers, Request(w)
      PROVE  RowsInv'
  BY <1>1, RequestRows
<1>2. ASSUME NEW w \in Workers, Step(w)
      PROVE  RowsInv'
  BY <1>2, StepRows
<1>3. ASSUME NEW w \in Workers, Abort(w)
      PROVE  RowsInv'
  BY <1>3, FinishRows DEF Abort, store, Rows
<1>4. CASE UNCHANGED vars
  BY <1>4, RowsShrink DEF vars, Rows, Unsaved
<1> QED
  BY <1>1, <1>2, <1>3, <1>4 DEF Next

\* However requests interleave, and whatever stale saves bring back, the
\* plan's cap on assessments is passed by less than the number of threads.
THEOREM OvershootIsBounded == Spec => []OvershootBounded
<1>1. Init => TypeInv /\ RowsInv
  BY InitType, InitRows
<1>2. TypeInv /\ RowsInv /\ [Next]_vars => (TypeInv /\ RowsInv)'
  BY NextType, NextRows
<1>3. RowsInv => OvershootBounded
  <2> SUFFICES ASSUME RowsInv PROVE OvershootBounded
    OBVIOUS
  <2>1. stored \in SUBSET Rows /\ IsFiniteSet(Rows)
    BY DEF Rows, RowsInv
  <2>2. IsFiniteSet(stored) /\ Cardinality(stored) <= Cardinality(Rows)
    BY <2>1, FS_Subset
  <2>3. /\ Cardinality(stored) \in Nat /\ Cardinality(Rows) \in Nat
        /\ Cardinality(Workers) \in Nat
    BY <2>1, <2>2, WorkersAssumption, FS_CardinalityType
  <2> QED
    BY <2>2, <2>3, CapAssumption DEF RowsInv, OvershootBounded
<1> QED
  BY <1>1, <1>2, <1>3, PTL DEF Spec
=============================================================================
