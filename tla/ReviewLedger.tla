----------------------------- MODULE ReviewLedger -----------------------------
(***************************************************************************)
(* What the assessment service promises its clients: a ledger of           *)
(* assessments in which every change takes effect at once and none is      *)
(* lost.  A step creates or deletes one assessment, or moves one of its    *)
(* scan jobs or repositories one stage further; jobs never leave the       *)
(* ledger while their assessment is in it, and what was deleted does not   *)
(* return.  The domain's stages are ScanStatus and RepositoryIngestStatus. *)
(***************************************************************************)

CONSTANTS Assessments, Jobs, Repos

VARIABLES
    rows,   \* the assessments there are
    job,    \* the stage of each job of each assessment
    repo,   \* the stage of each repository of each assessment
    gone    \* the assessments and repositories that were deleted

ledgerVars == <<rows, job, repo, gone>>

NoJobs == [j \in Jobs |-> "none"]
NoRepos == [r \in Repos |-> "none"]

Init ==
    /\ rows = {}
    /\ job = [a \in Assessments |-> NoJobs]
    /\ repo = [a \in Assessments |-> NoRepos]
    /\ gone = {}

Create(a) ==
    /\ a \notin rows \cup gone
    /\ rows' = rows \cup {a}
    /\ UNCHANGED <<job, repo, gone>>

DeleteAssessment(a) ==
    /\ a \in rows
    /\ rows' = rows \ {a}
    /\ job' = [job EXCEPT ![a] = NoJobs]
    /\ repo' = [repo EXCEPT ![a] = NoRepos]
    /\ gone' = gone \cup {a}

\* Job j of assessment a moves from one stage to the next.
MoveJob(a, j, from, to) ==
    /\ a \in rows
    /\ job[a][j] = from
    /\ job' = [job EXCEPT ![a] = [@ EXCEPT ![j] = to]]
    /\ UNCHANGED <<rows, repo, gone>>

AddJob(a, j)   == MoveJob(a, j, "none", "pending") \/ MoveJob(a, j, "none", "running")
StartJob(a, j) == MoveJob(a, j, "pending", "running")
EndJob(a, j)   == MoveJob(a, j, "running", "completed") \/ MoveJob(a, j, "running", "failed")

MoveRepo(a, r, from, to) ==
    /\ a \in rows
    /\ r \notin gone
    /\ repo[a][r] = from
    /\ repo' = [repo EXCEPT ![a] = [@ EXCEPT ![r] = to]]
    /\ UNCHANGED <<rows, job, gone>>

AddRepo(a, r)   == MoveRepo(a, r, "none", "pending")
StartClone(a, r) == MoveRepo(a, r, "pending", "cloning")
EndClone(a, r)  == MoveRepo(a, r, "cloning", "ready") \/ MoveRepo(a, r, "cloning", "failed")

RemoveRepo(a, r) ==
    /\ a \in rows
    /\ repo[a][r] # "none"
    /\ repo' = [repo EXCEPT ![a] = [@ EXCEPT ![r] = "none"]]
    /\ gone' = gone \cup {r}
    /\ UNCHANGED <<rows, job>>

Next ==
    \E a \in Assessments :
        \/ Create(a)
        \/ DeleteAssessment(a)
        \/ \E j \in Jobs : AddJob(a, j) \/ StartJob(a, j) \/ EndJob(a, j)
        \/ \E r \in Repos :
              AddRepo(a, r) \/ StartClone(a, r) \/ EndClone(a, r) \/ RemoveRepo(a, r)

Spec == Init /\ [][Next]_ledgerVars
=============================================================================
