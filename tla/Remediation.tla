---------------------------- MODULE Remediation ----------------------------
(* The auto-remediation agent (infrastructure/scanners/                      *)
(* auto_remediation_agent.py): baseline scan, rewriting of flagged files,    *)
(* second scan, branch, commit, push and pull request, over clones of one    *)
(* remote repository.  A run gives up at the first command that fails, is    *)
(* killed at its timeout or cannot be started, and may die with its thread   *)
(* at any point; what it has done by then stays.                             *)
EXTENDS TimeoutPatch

CONSTANTS
    Runs,     \* executions of the agent
    Clones,   \* clones of the repository
    Files,    \* files of the repository
    Sources,  \* what a file can hold when it is cloned
    Serial,   \* whether a clone has one run at a time
    Faults    \* whether runs die and commands fail for no reason of their own

ASSUME SourcesAssumption == Sources \subseteq Seq(Calls)
ASSUME RemediationAssumption == Serial \in BOOLEAN /\ Faults \in BOOLEAN

VARIABLES
    base,     \* the files on the main branch of the remote
    tree,     \* the working tree of each clone
    index,    \* what is staged in each clone
    head,     \* the branch each clone is on
    branch,   \* the commits after base on each branch of each clone
    commit,   \* the files in the commit of each run
    remote,   \* the commits after base on the fix branch of the remote
    open,     \* whether the fix branch has an open pull request
    run       \* where each run is and what it knows

clones == <<index, head, branch, commit>>
hub    == <<remote, open>>
vars   == <<base, tree, clones, hub, run>>

Branches == {"main", "fix"}

NewRun(c) == [at |-> "new", clone |-> c, todo |-> {}, file |-> {}, text |-> Empty,
              patched |-> {}, url |-> FALSE]

Init ==
    /\ base \in [Files -> Sources]
    /\ tree = [c \in Clones |-> base]
    /\ index = [c \in Clones |-> base]
    /\ head = [c \in Clones |-> "main"]
    /\ branch = [c \in Clones |-> [b \in Branches |-> <<>>]]
    /\ commit = [r \in Runs |-> base]
    /\ remote = <<>>
    /\ open = FALSE
    /\ run \in [Runs -> {NewRun(c) : c \in Clones}]

Active(r) == run[r].at \notin {"new", "done"}

Goto(r, from, to) == run[r].at = from /\ run' = [run EXCEPT ![r].at = to]

(***************************************************************************)
(* The files                                                               *)
(***************************************************************************)

(* WhiteBoxAgent.execute: the flagged files of a clone, or none when the     *)
(* scan fails or is killed at its timeout.                                   *)
Scans(c) ==
    {{f \in Files : Flagged(tree[c][f])}} \cup (IF Faults THEN {{}} ELSE {})

(* The baseline scan; a run that finds nothing to fix has no more to do.     *)
Scan(r) ==
    LET c == run[r].clone IN
    /\ run[r].at = "new"
    /\ Serial => \A q \in Runs : Active(q) => run[q].clone # c
    /\ \E flagged \in Scans(c) :
        run' = [run EXCEPT ![r].at = IF flagged = {} THEN "done" ELSE "read",
                           ![r].todo = flagged]
    /\ UNCHANGED <<base, tree, clones, hub>>

(* The text of a flagged file.  A file that cannot be read, or in which the  *)
(* pattern matches nothing, is left as it is.                                *)
Read(r) ==
    \E f \in run[r].todo :
        LET now  == tree[run[r].clone][f]
            rest == run[r].todo \ {f}
        IN  /\ run[r].at = "read"
            /\ \/ run' = [run EXCEPT ![r].todo = rest] /\ (Faults \/ Rewrite(now) = now)
               \/ /\ Rewrite(now) # now
                  /\ run' = [run EXCEPT ![r].at = "truncate", ![r].todo = rest,
                                        ![r].file = {f}, ![r].text = now]
            /\ UNCHANGED <<base, tree, clones, hub>>

PutFiles(r, now) ==
    LET c == run[r].clone IN
    tree' = [tree EXCEPT ![c] = [f \in Files |-> IF f \in run[r].file THEN now ELSE @[f]]]

(* write_text empties the file first.                                        *)
Truncate(r) ==
    /\ Goto(r, "truncate", "write")
    /\ PutFiles(r, Empty)
    /\ UNCHANGED <<base, clones, hub>>

(* The rewritten text; the file counts as patched.                           *)
Write(r) ==
    /\ run[r].at = "write"
    /\ PutFiles(r, Rewrite(run[r].text))
    /\ run' = [run EXCEPT ![r].at = "read", ![r].patched = @ \cup run[r].file,
                          ![r].text = Empty, ![r].file = {}]
    /\ UNCHANGED <<base, clones, hub>>

(* The second scan changes nothing; without a patched file there is nothing  *)
(* to propose.                                                               *)
Rescan(r) ==
    /\ run[r].todo = {}
    /\ Goto(r, "read", IF run[r].patched = {} THEN "done" ELSE "checkout")
    /\ UNCHANGED <<base, tree, clones, hub>>

(***************************************************************************)
(* The commands of git and gh                                              *)
(***************************************************************************)

(* A command that has done its work is answered, or killed just then.        *)
Answers == IF Faults THEN {TRUE, FALSE} ELSE {TRUE}

Proceed(r, from, to) == \E answered \in Answers : Goto(r, from, IF answered THEN to ELSE "done")

\* Mutant: without check=True, a checkout that fails does not stop the run.
CheckoutUnchecked(r) ==
    LET c == run[r].clone IN
    /\ Proceed(r, "checkout", "add")
    /\ \/ /\ head' = [head EXCEPT ![c] = "fix"]
          /\ branch' = [branch EXCEPT ![c].fix = branch[c][head[c]]]
       \/ UNCHANGED <<head, branch>>
    /\ UNCHANGED <<base, tree, index, commit, hub>>

(* git checkout -B: the fix branch starts again from where the clone is.     *)
Checkout(r) ==
    LET c == run[r].clone IN
    /\ Proceed(r, "checkout", "add")
    /\ head' = [head EXCEPT ![c] = "fix"]
    /\ branch' = [branch EXCEPT ![c].fix = branch[c][head[c]]]
    /\ UNCHANGED <<base, tree, index, commit, hub>>

\* Mutant: git add -A, whatever has changed in the working tree is staged.
AddEverything(r) ==
    LET c == run[r].clone IN
    /\ Proceed(r, "add", "commit")
    /\ index' = [index EXCEPT ![c] = tree[c]]
    /\ UNCHANGED <<base, tree, head, branch, commit, hub>>

(* git add: the patched files as they are now.                               *)
Add(r) ==
    LET c == run[r].clone IN
    /\ Proceed(r, "add", "commit")
    /\ index' = [index EXCEPT ![c] =
            [f \in Files |-> IF f \in run[r].patched THEN tree[c][f] ELSE @[f]]]
    /\ UNCHANGED <<base, tree, head, branch, commit, hub>>

(* The files at the end of a list of commits.                                *)
FilesAt(commits) == IF commits = <<>> THEN base ELSE commit[Last(commits)]

(* git commit: everything staged, or an error when that is nothing new.      *)
Commit(r) ==
    LET c == run[r].clone IN
    /\ IF index[c] = FilesAt(branch[c][head[c]])
       THEN Goto(r, "commit", "done") /\ UNCHANGED <<branch, commit>>
       ELSE /\ Proceed(r, "commit", "push")
            /\ commit' = [commit EXCEPT ![r] = index[c]]
            /\ branch' = [branch EXCEPT ![c][head[c]] = Append(@, r)]
    /\ UNCHANGED <<base, tree, index, head, hub>>

\* Mutant: the return code of git push is not looked at.
PushUnchecked(r) ==
    LET c == run[r].clone IN
    /\ Proceed(r, "push", "pr")
    /\ remote' = IF IsPrefix(remote, branch[c].fix) THEN branch[c].fix ELSE remote
    /\ UNCHANGED <<base, tree, clones, open>>

(* git push: the remote takes what continues its own branch.                 *)
Push(r) ==
    LET c == run[r].clone IN
    /\ IF IsPrefix(remote, branch[c].fix)
       THEN Proceed(r, "push", "pr") /\ remote' = branch[c].fix
       ELSE Goto(r, "push", "done") /\ UNCHANGED remote
    /\ UNCHANGED <<base, tree, clones, open>>

(* gh pr create: one open pull request for a branch that differs from main.  *)
CreatePullRequest(r) ==
    /\ run[r].at = "pr"
    /\ IF open \/ FilesAt(remote) = base
       THEN Goto(r, "pr", "done") /\ UNCHANGED open
       ELSE /\ open' = TRUE
            /\ \E answered \in Answers :
                 run' = [run EXCEPT ![r].at = "done", ![r].url = answered]
    /\ UNCHANGED <<base, tree, clones, remote>>

(***************************************************************************)
(* Failures and reviews                                                    *)
(***************************************************************************)

(* A command fails and changes nothing, or the thread dies.                  *)
GiveUp(r) ==
    /\ Faults /\ Active(r)
    /\ run' = [run EXCEPT ![r].at = "done"]
    /\ UNCHANGED <<base, tree, clones, hub>>

(* Somebody closes the pull request.                                         *)
Close ==
    /\ open /\ open' = FALSE
    /\ UNCHANGED <<base, tree, clones, remote, run>>

Next ==
    \/ \E r \in Runs :
        \/ Scan(r) \/ Read(r) \/ Truncate(r) \/ Write(r) \/ Rescan(r)
        \/ Checkout(r) \/ Add(r) \/ Commit(r) \/ Push(r) \/ CreatePullRequest(r)
        \/ GiveUp(r)
    \/ Close

Spec == Init /\ [][Next]_vars

(***************************************************************************)
(* Properties                                                              *)
(***************************************************************************)

(* Whatever fails and however runs follow one another, no commit of the      *)
(* agent lands on the branch that was cloned (auto_remediation_agent.py:     *)
(* 153-159: nothing is added or committed unless the checkout succeeded).    *)
ClonedBranchUntouched == \A c \in Clones : branch[c].main = <<>>

(* A run that reports a pull request has its fixes on the remote's branch:   *)
(* not only an older fix, and not only in its own clone                      *)
(* (auto_remediation_agent.py:180-211).                                      *)
PullRequestCarriesFix ==
    \A r \in Runs : run[r].url =>
        \A f \in run[r].patched : FilesAt(remote)[f] = Rewrite(base[f])

(* Every file in a commit is the cloned text or that text rewritten once:    *)
(* none that a dying run left empty and none that several runs patched on    *)
(* top of one another (auto_remediation_agent.py:128-138, 160-161).          *)
CommitsAreWhole ==
    \A r \in Runs : \A f \in Files : commit[r][f] \in {base[f], Rewrite(base[f])}

(* The agent "only fixes patterns where the remediation is mechanical and    *)
(* behavior-preserving" (auto_remediation_agent.py:25-27): a file it has     *)
(* rewritten is the same program but for timeouts of the requests.           *)
FixesPreserveBehavior ==
    \A c \in Clones : \A f \in Files :
        tree[c][f] # Empty => FilePreserved(base[f], tree[c][f])
=============================================================================
