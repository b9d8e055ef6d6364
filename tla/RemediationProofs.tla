------------------------- MODULE RemediationProofs -------------------------
(***************************************************************************)
(* Theorems about Remediation, for any number of runs, clones and files,   *)
(* whatever the files hold, and failures anywhere.                         *)
(***************************************************************************)
EXTENDS Remediation, SequenceTheorems, TLAPS

-----------------------------------------------------------------------------
(* The rewriting of calls and files.                                       *)

\* The pattern ends at the first closing parenthesis.
LEMMA FirstCloseProperties ==
    ASSUME NEW call \in Calls
    PROVE  /\ call \in Seq(Token) /\ Len(call) \in Nat
           /\ FirstClose(call) \in 1..Len(call)
           /\ call[FirstClose(call)] = "close"
           /\ \A j \in 1..(FirstClose(call) - 1) : call[j] # "close"
<1>1. call \in Seq(Token) /\ Len(call) \in Nat /\ DOMAIN call = 1..Len(call)
  BY DEF Calls
<1>2. \E i \in DOMAIN call : call[i] = "close" /\ \A j \in 1 .. i - 1 : call[j] # "close"
  BY DEF Calls
<1>3. /\ FirstClose(call) \in DOMAIN call /\ call[FirstClose(call)] = "close"
      /\ \A j \in 1 .. FirstClose(call) - 1 : call[j] # "close"
  BY <1>2 DEF FirstClose
<1> QED
  BY <1>1, <1>3

\* It is the only one with nothing but other tokens before it.
LEMMA FirstCloseUnique ==
    ASSUME NEW call \in Calls, NEW n \in 1..Len(call), call[n] = "close",
           \A j \in 1..(n - 1) : call[j] # "close"
    PROVE  FirstClose(call) = n
<1>1. /\ Len(call) \in Nat /\ FirstClose(call) \in 1..Len(call)
      /\ call[FirstClose(call)] = "close"
      /\ \A j \in 1..(FirstClose(call) - 1) : call[j] # "close"
  BY FirstCloseProperties
<1>2. ~(FirstClose(call) < n)
  <2> SUFFICES ASSUME FirstClose(call) < n
               PROVE  FALSE
    OBVIOUS
  <2>1. FirstClose(call) \in 1..(n - 1)
    BY <1>1
  <2> QED
    BY <1>1, <2>1
<1>3. ~(n < FirstClose(call))
  <2> SUFFICES ASSUME n < FirstClose(call)
               PROVE  FALSE
    OBVIOUS
  <2>1. n \in 1..(FirstClose(call) - 1)
    BY <1>1
  <2> QED
    BY <1>1, <2>1
<1> QED
  BY <1>1, <1>2, <1>3

\* Tokens without a closing parenthesis.
Unclosed(s) == s \in Seq(Token) /\ \A j \in 1..Len(s) : s[j] # "close"

\* Two runs of tokens without a closing parenthesis make one.
LEMMA UnclosedConcat ==
    ASSUME NEW s, NEW t, Unclosed(s), Unclosed(t)
    PROVE  /\ Unclosed(s \o t) /\ Len(s \o t) = Len(s) + Len(t)
           /\ Len(t) # 0 => (s \o t)[Len(s) + Len(t)] = t[Len(t)]
<1>1. s \in Seq(Token) /\ t \in Seq(Token) /\ Len(s) \in Nat /\ Len(t) \in Nat
  BY DEF Unclosed
<1>2. /\ s \o t \in Seq(Token) /\ Len(s \o t) = Len(s) + Len(t)
      /\ \A j \in 1..(Len(s) + Len(t)) : (s \o t)[j] = IF j <= Len(s) THEN s[j] ELSE t[j - Len(s)]
  BY <1>1, ConcatProperties
<1>3. ASSUME NEW j \in 1..(Len(s) + Len(t))
      PROVE  (s \o t)[j] # "close"
  <2>1. CASE j <= Len(s)
    BY <1>1, <1>2, <2>1 DEF Unclosed
  <2>2. CASE ~(j <= Len(s))
    <3>1. j - Len(s) \in 1..Len(t)
      BY <1>1, <2>2
    <3> QED
      BY <1>2, <2>2, <3>1 DEF Unclosed
  <2> QED
    BY <2>1, <2>2
<1>4. ASSUME Len(t) # 0
      PROVE  (s \o t)[Len(s) + Len(t)] = t[Len(t)]
  <2>1. /\ Len(s) + Len(t) \in 1..(Len(s) + Len(t)) /\ ~(Len(s) + Len(t) <= Len(s))
        /\ Len(s) + Len(t) - Len(s) = Len(t)
    BY <1>1, <1>4
  <2> QED
    BY <1>2, <2>1
<1> QED
  BY <1>2, <1>3, <1>4 DEF Unclosed

\* What the pattern captures when a closing parenthesis follows them.
LEMMA CapturedBefore ==
    ASSUME NEW s, NEW t \in Seq(Token), Unclosed(s), Len(t) # 0, t[1] = "close"
    PROVE  s \o t \in Calls /\ Captured(s \o t) = s
<1>1. s \in Seq(Token) /\ Len(s) \in Nat /\ Len(t) \in Nat
  BY DEF Unclosed
<1>2. /\ s \o t \in Seq(Token) /\ Len(s \o t) = Len(s) + Len(t)
      /\ \A j \in 1..(Len(s) + Len(t)) : (s \o t)[j] = IF j <= Len(s) THEN s[j] ELSE t[j - Len(s)]
  BY <1>1, ConcatProperties
<1>3. \A j \in 1..Len(s) : (s \o t)[j] = s[j]
  BY <1>1, <1>2
<1>4. /\ Len(s) + 1 \in 1..(Len(s) + Len(t)) /\ ~(Len(s) + 1 <= Len(s))
      /\ Len(s) + 1 - Len(s) = 1 /\ Len(s) + 1 - 1 = Len(s)
  BY <1>1
<1>5. (s \o t)[Len(s) + 1] = "close"
  BY <1>2, <1>4
<1>6. \A j \in 1..(Len(s) + 1 - 1) : (s \o t)[j] # "close"
  BY <1>3, <1>4 DEF Unclosed
<1>7. DOMAIN (s \o t) = 1..(Len(s) + Len(t))
  BY <1>2
<1>8. PICK x, n : x = s \o t /\ n = Len(s) + 1
  OBVIOUS
<1>9. /\ x \in Seq(Token) /\ DOMAIN x = 1..Len(x) /\ n \in 1..Len(x) /\ x[n] = "close"
      /\ \A j \in 1..(n - 1) : x[j] # "close"
  BY <1>2, <1>4, <1>5, <1>6, <1>7, <1>8
<1>12. x \in Calls
  BY <1>9 DEF Calls
<1>13. FirstClose(x) = n
  BY <1>9, <1>12, FirstCloseUnique
<1>10. Captured(s \o t) = SubSeq(s \o t, 1, Len(s))
  BY <1>4, <1>8, <1>13 DEF Captured
<1>11. /\ SubSeq(s \o t, 1, Len(s)) \in Seq(Token)
       /\ Len(SubSeq(s \o t, 1, Len(s))) = Len(s)
       /\ \A j \in 1..Len(s) : SubSeq(s \o t, 1, Len(s))[j] = (s \o t)[j]
  <2>1. 1 \in Int /\ Len(s) \in Int /\ \A j \in 1..Len(s) : j \in 1..Len(s \o t)
    BY <1>1, <1>2
  <2>2. SubSeq(s \o t, 1, Len(s)) = [j \in 1..Len(s) |-> (s \o t)[j]]
    BY <1>1, <1>2
  <2> DEFINE q == [j \in 1..Len(s) |-> (s \o t)[j]]
  <2>3. q \in [1..Len(s) -> Token]
    BY <1>1, <1>3
  <2> QED
    BY <1>1, <2>2, <2>3
<1> QED
  BY <1>1, <1>3, <1>8, <1>10, <1>11, <1>12

\* What is put between the arguments of a call and its parenthesis is put once.
LEMMA AddTimeoutOnce ==
    ASSUME NEW call \in Calls
    PROVE  AddTimeout(call) \in Calls /\ AddTimeout(AddTimeout(call)) = AddTimeout(call)
<1> DEFINE args == Captured(call)
           sep == IF args = <<>> THEN <<>> ELSE <<"comma">>
           rest == SubSeq(call, FirstClose(call), Len(call))
           front == args \o sep \o <<"timeout">>
<1>1. CASE Contains(args, "timeout") \/ Contains(args, "mention")
  BY <1>1 DEF AddTimeout
<1>2. CASE ~(Contains(args, "timeout") \/ Contains(args, "mention"))
  <2>1. AddTimeout(call) = front \o rest
    BY <1>2 DEF AddTimeout
  <2>2. /\ call \in Seq(Token) /\ Len(call) \in Nat
        /\ FirstClose(call) \in 1..Len(call)
        /\ call[FirstClose(call)] = "close"
        /\ \A j \in 1..(FirstClose(call) - 1) : call[j] # "close"
    BY FirstCloseProperties
  <2>3. Unclosed(args)
    BY <2>2, SubSeqProperties DEF Captured, Unclosed
  <2>4. rest \in Seq(Token) /\ Len(rest) # 0 /\ rest[1] = "close"
    BY <2>2, SubSeqProperties
  <2>5. Unclosed(sep) /\ Unclosed(<<"timeout">>) /\ Len(<<"timeout">>) = 1
    <3>1. Unclosed(<<>>)
      BY DEF Unclosed
    <3>2. Unclosed(<<"comma">>)
      BY DEF Unclosed, Token
    <3>3. Unclosed(<<"timeout">>) /\ Len(<<"timeout">>) = 1
      BY DEF Unclosed, Token
    <3> QED
      BY <3>1, <3>2, <3>3
  <2> HIDE DEF args, sep, rest
  <2>6. Unclosed(args \o sep)
    BY <2>3, <2>5, UnclosedConcat
  <2>7. /\ Unclosed(front) /\ Len(front) = Len(args \o sep) + 1 /\ Len(args \o sep) \in Nat
        /\ front[Len(front)] = "timeout"
    <3>1. Len(args \o sep) \in Nat /\ Len(<<"timeout">>) # 0 /\ <<"timeout">>[Len(<<"timeout">>)] = "timeout"
      BY <2>5, <2>6 DEF Unclosed
    <3> QED
      BY <2>5, <2>6, <3>1, UnclosedConcat
  <2> HIDE DEF front
  <2>8. front \o rest \in Calls /\ Captured(front \o rest) = front
    BY <2>4, <2>7, CapturedBefore
  <2>9. Contains(front, "timeout")
    BY <2>7 DEF Contains
  <2> QED
    BY <2>1, <2>8, <2>9 DEF AddTimeout
<1> QED
  BY <1>1, <1>2

\* A file that was rewritten is not rewritten again, and an emptied one stays.
LEMMA RewriteOnce ==
    ASSUME NEW file \in Seq(Calls)
    PROVE  /\ Rewrite(file) \in Seq(Calls)
           /\ Rewrite(Rewrite(file)) = Rewrite(file)
           /\ Rewrite(Empty) = Empty /\ Empty \in Seq(Calls)
<1>1. file \in [1..Len(file) -> Calls] /\ Len(file) \in Nat /\ DOMAIN file = 1..Len(file)
  OBVIOUS
<1>2. Rewrite(file) \in [1..Len(file) -> Calls]
  BY <1>1, AddTimeoutOnce DEF Rewrite
<1>3. Rewrite(Rewrite(file)) = Rewrite(file)
  BY <1>1, <1>2, AddTimeoutOnce DEF Rewrite
<1>4. Rewrite(Empty) = Empty
  BY DEF Rewrite, Empty
<1> QED
  BY <1>1, <1>2, <1>3, <1>4 DEF Empty

-----------------------------------------------------------------------------
(* Types, and the branch that was cloned.                                  *)

Contents == Seq(Calls)

Stages == {"new", "read", "truncate", "write", "checkout", "add", "commit", "push", "pr", "done"}

Run == [at : Stages, clone : Clones, todo : SUBSET Files, file : SUBSET Files,
        text : Contents, patched : SUBSET Files, url : BOOLEAN]

TypeOK ==
    /\ base \in [Files -> Contents]
    /\ tree \in [Clones -> [Files -> Contents]]
    /\ index \in [Clones -> [Files -> Contents]]
    /\ head \in [Clones -> Branches]
    /\ branch \in [Clones -> [Branches -> Seq(Runs)]]
    /\ commit \in [Runs -> [Files -> Contents]]
    /\ remote \in Seq(Runs)
    /\ open \in BOOLEAN
    /\ run \in [Runs -> Run]

\* Before its checkout a clone has nothing on its fix branch, and nothing is
\* added or committed unless the checkout succeeded.
OnFix ==
    /\ \A c \in Clones : head[c] = "main" => branch[c].fix = <<>>
    /\ \A r \in Runs : run[r].at \in {"add", "commit", "push", "pr"} => head[run[r].clone] = "fix"

Inv == TypeOK /\ ClonedBranchUntouched /\ OnFix

\* A run goes to its next stage, or it is done.
LEMMA GotoStage ==
    ASSUME TypeOK, NEW r \in Runs, NEW p \in Stages, NEW q \in Stages, Goto(r, p, q)
    PROVE  /\ run' \in [Runs -> Run]
           /\ \A s \in Runs : s # r => run'[s] = run[s]
           /\ run[r].at = p /\ run'[r].at = q
           /\ run'[r].clone = run[r].clone /\ run'[r].todo = run[r].todo
           /\ run'[r].file = run[r].file /\ run'[r].text = run[r].text
           /\ run'[r].patched = run[r].patched /\ run'[r].url = run[r].url
           /\ run[r].clone \in Clones /\ run[r].patched \subseteq Files
BY DEF Goto, TypeOK, Run

\* A run that goes on moves to the stage it names.
LEMMA ProceedStage ==
    ASSUME NEW r \in Runs, NEW p, NEW q, Proceed(r, p, q)
    PROVE  Goto(r, p, q) \/ Goto(r, p, "done")
BY DEF Proceed

\* The scans of a run, and its reading and writing of files.
LEMMA ScanRun ==
    ASSUME TypeOK, NEW r \in Runs, Scan(r)
    PROVE  /\ run' \in [Runs -> Run]
           /\ \A s \in Runs : s # r => run'[s] = run[s]
           /\ run[r].at = "new" /\ run'[r].at \in {"read", "done"}
           /\ run'[r].clone = run[r].clone
           /\ run'[r].patched = run[r].patched /\ run'[r].url = run[r].url
<1>1. PICK flagged \in SUBSET Files :
          run' = [run EXCEPT ![r].at = IF flagged = {} THEN "done" ELSE "read",
                             ![r].todo = flagged]
  BY DEF Scan, Scans
<1>2. run[r] \in Run /\ run \in [Runs -> Run] /\ run[r].at = "new"
  BY DEF TypeOK, Scan
<1> QED
  BY <1>1, <1>2 DEF Run, Stages

\* What a step that reads the clone does to a run.
LEMMA ReadRun ==
    ASSUME TypeOK, NEW r \in Runs, Read(r)
    PROVE  /\ run' \in [Runs -> Run]
           /\ \A s \in Runs : s # r => run'[s] = run[s]
           /\ run[r].at = "read" /\ run'[r].at \in {"read", "truncate"}
           /\ run'[r].clone = run[r].clone
           /\ run'[r].patched = run[r].patched /\ run'[r].url = run[r].url
           /\ run'[r].todo \subseteq run[r].todo
           /\ run'[r].at = "truncate" =>
                  \E f \in run[r].todo : LET now == tree[run[r].clone][f]
                                         IN  /\ Rewrite(now) # now
                                             /\ run'[r].file = {f} /\ run'[r].text = now
                                             /\ run'[r].todo = run[r].todo \ {f}
<1> DEFINE now == tree[run[r].clone]
<1>1. PICK f \in run[r].todo :
          /\ run[r].at = "read"
          /\ \/ run' = [run EXCEPT ![r].todo = run[r].todo \ {f}]
             \/ /\ Rewrite(now[f]) # now[f]
                /\ run' = [run EXCEPT ![r].at = "truncate", ![r].todo = run[r].todo \ {f},
                                      ![r].file = {f}, ![r].text = now[f]]
  BY DEF Read
<1>2. run[r] \in Run /\ run \in [Runs -> Run] /\ f \in Files /\ now[f] \in Contents
  BY <1>1 DEF TypeOK, Run
<1>3. CASE run' = [run EXCEPT ![r].todo = run[r].todo \ {f}]
  BY <1>1, <1>2, <1>3 DEF Run
<1>4. CASE /\ Rewrite(now[f]) # now[f]
           /\ run' = [run EXCEPT ![r].at = "truncate", ![r].todo = run[r].todo \ {f},
                                 ![r].file = {f}, ![r].text = now[f]]
  BY <1>1, <1>2, <1>4 DEF Run, Stages
<1> QED
  BY <1>1, <1>3, <1>4

\* What a step that writes the clone does to a run.
LEMMA WriteRun ==
    ASSUME TypeOK, NEW r \in Runs, Write(r)
    PROVE  /\ run' \in [Runs -> Run]
           /\ \A s \in Runs : s # r => run'[s] = run[s]
           /\ run[r].at = "write" /\ run'[r].at = "read"
           /\ run'[r].clone = run[r].clone /\ run'[r].todo = run[r].todo
           /\ run'[r].patched = run[r].patched \cup run[r].file /\ run'[r].url = run[r].url
<1>1. /\ run' = [run EXCEPT ![r].at = "read", ![r].patched = @ \cup run[r].file,
                            ![r].text = Empty, ![r].file = {}]
      /\ run[r].at = "write"
  BY DEF Write
<1>2. run[r] \in Run /\ run \in [Runs -> Run] /\ Empty \in Contents
  BY DEF TypeOK, Empty, Contents
<1> QED
  BY <1>1, <1>2 DEF Run, Stages

\* A file is written, the others of the clone and the other clones are not.
LEMMA PutFilesTree ==
    ASSUME TypeOK, NEW r \in Runs, NEW now \in Contents, PutFiles(r, now)
    PROVE  /\ tree' \in [Clones -> [Files -> Contents]]
           /\ \A c \in Clones, f \in Files :
                  tree'[c][f] = IF c = run[r].clone /\ f \in run[r].file THEN now ELSE tree[c][f]
BY DEF TypeOK, PutFiles, Run

\* Opening the pull request ends the run.
LEMMA CreatePullRequestRun ==
    ASSUME TypeOK, NEW r \in Runs, CreatePullRequest(r)
    PROVE  /\ run' \in [Runs -> Run]
           /\ \A s \in Runs : s # r => run'[s] = run[s]
           /\ run[r].at = "pr" /\ run'[r].at = "done" /\ open' \in BOOLEAN
           /\ run'[r].clone = run[r].clone /\ run'[r].patched = run[r].patched
<1>1. run[r].at = "pr" /\ run[r] \in Run /\ run \in [Runs -> Run]
  BY DEF CreatePullRequest, TypeOK
<1>2. CASE Goto(r, "pr", "done") /\ UNCHANGED open
  BY <1>1, <1>2, GotoStage DEF TypeOK, Stages
<1>3. ASSUME NEW answered \in BOOLEAN, open' = TRUE,
             run' = [run EXCEPT ![r].at = "done", ![r].url = answered]
      PROVE  /\ run' \in [Runs -> Run]
             /\ \A s \in Runs : s # r => run'[s] = run[s]
             /\ run'[r].at = "done" /\ open' \in BOOLEAN
             /\ run'[r].clone = run[r].clone /\ run'[r].patched = run[r].patched
  BY <1>1, <1>3 DEF Run, Stages
<1> QED
  BY <1>1, <1>2, <1>3 DEF CreatePullRequest, Answers

-----------------------------------------------------------------------------
(* The invariant of any runs, one action at a time.                        *)

\* No clone has been touched at first.
LEMMA InitInv == Init => Inv
<1> SUFFICES ASSUME Init
             PROVE  Inv
  OBVIOUS
<1>1. base \in [Files -> Contents]
  BY SourcesAssumption DEF Init, Contents
<1>2. \A c \in Clones : NewRun(c) \in Run /\ NewRun(c).at = "new"
  BY DEF NewRun, Run, Stages, Contents, Empty
<1>3. run \in [Runs -> Run] /\ \A r \in Runs : run[r].at = "new"
  BY <1>2 DEF Init
<1>4. TypeOK
  <2>1. /\ tree \in [Clones -> [Files -> Contents]] /\ index \in [Clones -> [Files -> Contents]]
        /\ commit \in [Runs -> [Files -> Contents]]
    BY <1>1 DEF Init
  <2>2. <<>> \in Seq(Runs)
    OBVIOUS
  <2>3. branch \in [Clones -> [Branches -> Seq(Runs)]] /\ remote \in Seq(Runs)
    BY <2>2 DEF Init
  <2>4. head \in [Clones -> Branches] /\ open \in BOOLEAN
    BY DEF Init, Branches
  <2> QED
    BY <1>1, <1>3, <2>1, <2>3, <2>4 DEF TypeOK
<1> QED
  BY <1>3, <1>4 DEF Init, Inv, ClonedBranchUntouched, OnFix, Branches

\* A step that touches neither the branches nor the head of a clone.
LEMMA QuietInv ==
    ASSUME Inv, TypeOK', UNCHANGED <<head, branch>>, NEW r \in Runs,
           \A s \in Runs : s # r => run'[s] = run[s],
           run'[r].clone = run[r].clone,
           run'[r].at \in {"add", "commit", "push", "pr"} =>
               run[r].at \in {"add", "commit", "push", "pr"}
    PROVE  Inv'
<1>1. \A s \in Runs : run'[s].at \in {"add", "commit", "push", "pr"} =>
          run'[s].clone = run[s].clone /\ run[s].at \in {"add", "commit", "push", "pr"}
  OBVIOUS
<1> QED
  BY <1>1 DEF Inv, ClonedBranchUntouched, OnFix

\* Steps on files leave commits and branches alone.
LEMMA FilesInv ==
    ASSUME Inv, NEW r \in Runs, Scan(r) \/ Read(r) \/ Truncate(r) \/ Write(r) \/ Rescan(r)
    PROVE  Inv'
<1>1. CASE Scan(r)
  BY <1>1, ScanRun, QuietInv DEF Inv, Scan, TypeOK, clones, hub
<1>2. CASE Read(r)
  BY <1>2, ReadRun, QuietInv DEF Inv, Read, TypeOK, clones, hub
<1>3. CASE Truncate(r)
  <2>1. Goto(r, "truncate", "write") /\ Empty \in Contents
    BY <1>3 DEF Truncate, Contents, Empty
  <2> QED
    BY <1>3, <2>1, GotoStage, PutFilesTree, QuietInv DEF Inv, Truncate, TypeOK, clones, hub, Stages
<1>4. CASE Write(r)
  <2>1. Rewrite(run[r].text) \in Contents
    BY RewriteOnce DEF Inv, TypeOK, Run, Contents
  <2> QED
    BY <1>4, <2>1, WriteRun, PutFilesTree, QuietInv DEF Inv, Write, TypeOK, clones, hub
<1>5. CASE Rescan(r)
  <2>1. PICK q \in {"done", "checkout"} : Goto(r, "read", q)
    BY <1>5 DEF Rescan
  <2> QED
    BY <1>5, <2>1, GotoStage, QuietInv DEF Inv, Rescan, TypeOK, clones, hub, Stages
<1> QED
  BY <1>1, <1>2, <1>3, <1>4, <1>5

\* Checking out the fix branch adds no commit to any.
LEMMA CheckoutInv ==
    ASSUME Inv, NEW r \in Runs, Checkout(r)
    PROVE  /\ Inv' /\ \A c \in Clones : branch'[c].fix = branch[c].fix
<1>1. PICK c : c = run[r].clone
  OBVIOUS
<1>2. /\ head' = [head EXCEPT ![c] = "fix"]
      /\ branch' = [branch EXCEPT ![c].fix = branch[c][head[c]]]
      /\ UNCHANGED <<base, tree, index, commit, hub>>
  BY <1>1 DEF Checkout
<1>3. PICK q \in {"add", "done"} : Goto(r, "checkout", q)
  BY ProceedStage DEF Checkout
<1>4. /\ run' \in [Runs -> Run] /\ run'[r].clone = c /\ c \in Clones
      /\ \A s \in Runs : s # r => run'[s] = run[s]
  BY <1>1, <1>3, GotoStage DEF Inv, Stages
\* The fix branch is empty, or the clone is on it already.
<1>5. branch[c][head[c]] = branch[c].fix
  BY <1>4 DEF Inv, TypeOK, ClonedBranchUntouched, OnFix, Branches
<1>6. /\ branch' \in [Clones -> [Branches -> Seq(Runs)]]
      /\ \A d \in Clones : branch'[d].fix = branch[d].fix /\ branch'[d].main = branch[d].main
  <2>1. branch \in [Clones -> [Branches -> Seq(Runs)]]
    BY DEF Inv, TypeOK
  <2>2. branch'[c] = [branch[c] EXCEPT !.fix = branch[c].fix] /\ branch'[c] = branch[c]
    BY <1>2, <1>4, <1>5, <2>1 DEF Branches
  <2>3. branch' = branch
    BY <1>2, <1>4, <2>1, <2>2
  <2> QED
    BY <2>1, <2>3
<1>7. head' \in [Clones -> Branches] /\ head'[c] = "fix" /\ \A d \in Clones : d # c => head'[d] = head[d]
  BY <1>2, <1>4 DEF Inv, TypeOK, Branches
<1>8. TypeOK'
  BY <1>2, <1>4, <1>6, <1>7 DEF Inv, TypeOK, hub
<1>9. ClonedBranchUntouched'
  BY <1>6 DEF Inv, ClonedBranchUntouched
<1>10. \A d \in Clones : head'[d] = "main" => branch'[d].fix = <<>>
  BY <1>6, <1>7 DEF Inv, OnFix
<1>11. ASSUME NEW s \in Runs, run'[s].at \in {"add", "commit", "push", "pr"}
       PROVE  head'[run'[s].clone] = "fix"
  <2>1. CASE run'[s].clone = c
    BY <1>7, <2>1
  <2>2. CASE run'[s].clone # c
    <3>1. s # r /\ run'[s] = run[s] /\ run[s].clone \in Clones
      BY <1>4, <2>2 DEF Inv, TypeOK, Run
    <3> QED
      BY <1>7, <1>11, <2>2, <3>1 DEF Inv, OnFix
  <2> QED
    BY <2>1, <2>2
<1> QED
  BY <1>6, <1>8, <1>9, <1>10, <1>11 DEF Inv, OnFix

\* Adding stages the patched files of one clone, and commits nothing.
LEMMA AddInv ==
    ASSUME Inv, NEW r \in Runs, Add(r)
    PROVE  /\ Inv'
           /\ \A c \in Clones, f \in Files :
                  index'[c][f] = IF c = run[r].clone /\ f \in run[r].patched
                                 THEN tree[c][f] ELSE index[c][f]
<1>1. PICK c : c = run[r].clone
  OBVIOUS
<1>2. /\ index' = [index EXCEPT ![c] =
              [f \in Files |-> IF f \in run[r].patched THEN tree[c][f] ELSE @[f]]]
      /\ UNCHANGED <<base, tree, head, branch, commit, hub>>
  BY <1>1 DEF Add
<1>3. PICK q \in {"commit", "done"} : Goto(r, "add", q)
  BY ProceedStage DEF Add
<1>4. /\ run' \in [Runs -> Run] /\ run'[r].clone = c /\ c \in Clones
      /\ run[r].at = "add" /\ \A s \in Runs : s # r => run'[s] = run[s]
  BY <1>1, <1>3, GotoStage DEF Inv, Stages
<1>5. /\ index' \in [Clones -> [Files -> Contents]]
      /\ \A d \in Clones, f \in Files :
             index'[d][f] = IF d = c /\ f \in run[r].patched THEN tree[d][f] ELSE index[d][f]
  BY <1>2, <1>4 DEF Inv, TypeOK
<1>6. TypeOK'
  BY <1>2, <1>4, <1>5 DEF Inv, TypeOK, hub
<1> QED
  BY <1>1, <1>2, <1>4, <1>5, <1>6, QuietInv

\* A commit goes to the fix branch, or nothing changes.
LEMMA CommitInv ==
    ASSUME Inv, NEW r \in Runs, Commit(r)
    PROVE  /\ Inv'
           /\ \/ /\ UNCHANGED <<branch, commit>> /\ run'[r].at = "done"
              \/ /\ commit'[r] = index[run[r].clone]
                 /\ \A s \in Runs : s # r => commit'[s] = commit[s]
                 /\ branch'[run[r].clone].fix = Append(branch[run[r].clone].fix, r)
                 /\ \A d \in Clones : d # run[r].clone => branch'[d].fix = branch[d].fix
<1>1. PICK c : c = run[r].clone
  OBVIOUS
<1>2. PICK q \in {"push", "done"} : Goto(r, "commit", q)
  BY ProceedStage DEF Commit
<1>3. /\ run' \in [Runs -> Run] /\ run'[r].clone = c /\ c \in Clones
      /\ run[r].at = "commit" /\ \A s \in Runs : s # r => run'[s] = run[s]
  BY <1>1, <1>2, GotoStage DEF Inv, Stages
<1>4. head[c] = "fix" /\ UNCHANGED <<base, tree, index, head, hub>>
  BY <1>1, <1>3 DEF Inv, OnFix, Commit
<1>5. CASE UNCHANGED <<branch, commit>> /\ Goto(r, "commit", "done")
  <2>1. run'[r].at = "done"
    BY <1>5, GotoStage DEF Inv, Stages
  <2>2. TypeOK'
    BY <1>3, <1>4, <1>5 DEF Inv, TypeOK, hub
  <2> QED
    BY <1>1, <1>3, <1>4, <1>5, <2>1, <2>2, QuietInv
<1>6. CASE /\ commit' = [commit EXCEPT ![r] = index[c]]
           /\ branch' = [branch EXCEPT ![c][head[c]] = Append(@, r)]
  <2>1. branch[c] \in [Branches -> Seq(Runs)] /\ "fix" \in Branches /\ "main" \in Branches
    BY <1>3 DEF Inv, TypeOK, Branches
  <2>2. Append(branch[c].fix, r) \in Seq(Runs)
    BY <2>1
  <2>3. /\ branch' \in [Clones -> [Branches -> Seq(Runs)]]
        /\ branch'[c].fix = Append(branch[c].fix, r) /\ branch'[c].main = branch[c].main
        /\ \A d \in Clones : d # c => branch'[d] = branch[d]
    BY <1>3, <1>4, <1>6, <2>1, <2>2 DEF Inv, TypeOK
  <2>4. /\ commit' \in [Runs -> [Files -> Contents]] /\ commit'[r] = index[c]
        /\ \A s \in Runs : s # r => commit'[s] = commit[s]
    BY <1>3, <1>6 DEF Inv, TypeOK
  <2>5. TypeOK'
    BY <1>3, <1>4, <2>3, <2>4 DEF Inv, TypeOK, hub
  <2>6. ClonedBranchUntouched'
    BY <2>3 DEF Inv, ClonedBranchUntouched
  <2>7. \A s \in Runs : run'[s].at \in {"add", "commit", "push", "pr"} =>
            run'[s].clone = run[s].clone /\ run[s].at \in {"add", "commit", "push", "pr"}
    BY <1>1, <1>3
  <2>8. OnFix'
    BY <1>4, <2>3, <2>7 DEF Inv, OnFix
  <2> QED
    BY <1>1, <2>3, <2>4, <2>5, <2>6, <2>8 DEF Inv
<1> QED
  BY <1>1, <1>5, <1>6 DEF Commit

\* A push sends commits, and makes none.
LEMMA PushInv ==
    ASSUME Inv, NEW r \in Runs, Push(r)
    PROVE  Inv'
<1>1. PICK q \in {"pr", "done"} : Goto(r, "push", q)
  BY ProceedStage DEF Push
<1>2. /\ run' \in [Runs -> Run] /\ run'[r].clone = run[r].clone /\ run[r].clone \in Clones
      /\ run[r].at = "push" /\ \A s \in Runs : s # r => run'[s] = run[s]
  BY <1>1, GotoStage DEF Inv, Stages
<1>3. remote' \in Seq(Runs) /\ UNCHANGED <<base, tree, clones, open>>
  BY <1>2 DEF Push, Inv, TypeOK, Branches
<1>4. TypeOK'
  BY <1>2, <1>3 DEF Inv, TypeOK, clones
<1> QED
  BY <1>2, <1>3, <1>4, QuietInv DEF clones

\* A run that ends leaves the clone as it is.
LEMMA EndInv ==
    ASSUME Inv, NEW r \in Runs, CreatePullRequest(r) \/ GiveUp(r)
    PROVE  Inv'
<1>1. CASE CreatePullRequest(r)
  BY <1>1, CreatePullRequestRun, QuietInv DEF Inv, TypeOK, CreatePullRequest, clones
<1>2. CASE GiveUp(r)
  <2>1. /\ run' \in [Runs -> Run] /\ run'[r].clone = run[r].clone /\ run'[r].at = "done"
        /\ \A s \in Runs : s # r => run'[s] = run[s]
    <3>1. PICK p \in Stages : Goto(r, p, "done")
      BY <1>2 DEF GiveUp, Goto, Inv, TypeOK, Run
    <3> QED
      BY <3>1, GotoStage DEF Inv, Stages
  <2> QED
    BY <1>2, <2>1, QuietInv DEF Inv, TypeOK, GiveUp, clones, hub
<1> QED
  BY <1>1, <1>2

\* Every step keeps the invariant ...
LEMMA NextInv ==
    ASSUME Inv, [Next]_vars
    PROVE  Inv'
<1>1. CASE Close \/ UNCHANGED vars
  BY <1>1 DEF Close, vars, clones, hub, Inv, TypeOK, ClonedBranchUntouched, OnFix
<1> QED
  BY <1>1, FilesInv, CheckoutInv, AddInv, CommitInv, PushInv, EndInv DEF Next

\* ... so it holds in every state.
LEMMA InvAlways == Spec => []Inv
<1>1. Inv /\ [Next]_vars => Inv'
  BY NextInv
<1> QED
  BY <1>1, InitInv, PTL DEF Spec

\* No commit of the agent lands on the branch that was cloned, wherever its
\* commands fail and however its runs overlap.
THEOREM ClonedBranchStaysUntouched == Spec => []ClonedBranchUntouched
<1>1. Inv => ClonedBranchUntouched
  BY DEF Inv
<1> QED
  BY <1>1, InvAlways, PTL

-----------------------------------------------------------------------------
(* One run at a time in each clone.                                        *)

Alone ==
    \A q, r \in Runs : Active(q) /\ Active(r) /\ run[q].clone = run[r].clone => q = r

\* What is cloned is whole, and a dying run empties at most one file.
Whole(text, f) == text \in {base[f], Rewrite(base[f])}

TreesAreWhole == \A c \in Clones, f \in Files : Whole(tree[c][f], f) \/ tree[c][f] = Empty

IndexesAreWhole == \A c \in Clones, f \in Files : Whole(index[c][f], f)

\* A run rewrites the cloned text of a file, once.
Fixes(file, f) == file[f] = Rewrite(base[f])

Rewriting(r) ==
    /\ run[r].at \in {"read", "truncate", "write"} => run[r].todo \cap run[r].patched = {}
    /\ run[r].at \in {"truncate", "write"} =>
           /\ run[r].file \cap (run[r].todo \cup run[r].patched) = {}
           /\ \A f \in run[r].file : run[r].text = base[f]

\* Where its fixes have got to.
Progress(r) ==
    /\ run[r].at = "new" => run[r].patched = {}
    /\ Active(r) => \A f \in run[r].patched : Fixes(tree[run[r].clone], f)
    /\ run[r].at = "commit" => \A f \in run[r].patched : Fixes(index[run[r].clone], f)
    /\ run[r].at \in {"push", "pr"} \/ run[r].url => \A f \in run[r].patched : Fixes(commit[r], f)
    /\ run[r].at = "push" => LET commits == branch[run[r].clone].fix
                             IN  commits # <<>> /\ Last(commits) = r
    /\ run[r].at = "pr" \/ run[r].url => \E i \in DOMAIN remote : remote[i] = r

\* The commits on a branch are those of runs that have committed, and a fix
\* that is in one of them is in the last.
Committed(commits) == \A i \in DOMAIN commits : run[commits[i]].at \in {"push", "pr", "done"}

KeepsFixes(commits) ==
    \A i \in DOMAIN commits, f \in Files : Fixes(commit[commits[i]], f) => Fixes(commit[Last(commits)], f)

IndexKeepsFixes(c) ==
    \A i \in DOMAIN branch[c].fix, f \in Files :
        Fixes(commit[branch[c].fix[i]], f) => Fixes(index[c], f)

Histories ==
    /\ Committed(remote) /\ KeepsFixes(remote)
    /\ \A c \in Clones : /\ Committed(branch[c].fix)
                          /\ KeepsFixes(branch[c].fix) /\ IndexKeepsFixes(c)

SerialInv ==
    /\ Alone
    /\ TreesAreWhole
    /\ IndexesAreWhole
    /\ CommitsAreWhole
    /\ \A r \in Runs : Rewriting(r) /\ Progress(r)
    /\ Histories

\* At first every clone is as it was cloned.
LEMMA InitSerial == Init => SerialInv
<1> SUFFICES ASSUME Init
             PROVE  SerialInv
  OBVIOUS
<1>1. \A r \in Runs : run[r].at = "new" /\ run[r].patched = {} /\ run[r].url = FALSE
  BY DEF Init, NewRun
<1>2. Alone /\ \A r \in Runs : Rewriting(r) /\ Progress(r)
  BY <1>1 DEF Alone, Active, Rewriting, Progress
<1>3. TreesAreWhole /\ IndexesAreWhole /\ CommitsAreWhole
  BY DEF Init, TreesAreWhole, IndexesAreWhole, CommitsAreWhole, Whole
<1>4. \A c \in Clones : branch[c].fix = <<>>
  BY DEF Init, Branches
<1>5. remote = <<>> /\ DOMAIN <<>> = {}
  BY DEF Init
<1>6. Histories
  BY <1>4, <1>5 DEF Histories, Committed, KeepsFixes, IndexKeepsFixes
<1> QED
  BY <1>2, <1>3, <1>6 DEF SerialInv

\* What the two states promise.
LEMMA SerialPromises == Inv /\ SerialInv => CommitsAreWhole /\ PullRequestCarriesFix
<1> SUFFICES ASSUME Inv, SerialInv, NEW r \in Runs, run[r].url, NEW f \in run[r].patched
             PROVE  FilesAt(remote)[f] = Rewrite(base[f])
  BY DEF SerialInv, PullRequestCarriesFix
<1>1. Progress(r) /\ f \in Files /\ remote \in Seq(Runs)
  BY DEF SerialInv, Inv, TypeOK, Run
<1>2. PICK i \in DOMAIN remote : remote[i] = r
  BY <1>1 DEF Progress
<1>3. Fixes(commit[remote[i]], f)
  BY <1>1, <1>2 DEF Progress
<1>4. Fixes(commit[Last(remote)], f)
  BY <1>1, <1>3 DEF SerialInv, Histories, KeepsFixes
<1>5. remote # <<>>
  BY <1>2
<1> QED
  BY <1>4, <1>5 DEF FilesAt, Fixes

\* A step of a run that touches no file, index or commit.
LEMMA QuietSerial ==
    ASSUME Inv, SerialInv, NEW r \in Runs, UNCHANGED <<base, tree, index, branch, commit, remote>>,
           \A s \in Runs : s # r => run'[s] = run[s],
           run'[r].clone = run[r].clone,
           Alone', Rewriting(r)', Progress(r)',
           run[r].at \in {"push", "pr", "done"} => run'[r].at \in {"push", "pr", "done"}
    PROVE  SerialInv'
<1>1. TreesAreWhole' /\ IndexesAreWhole' /\ CommitsAreWhole'
  BY DEF SerialInv, TreesAreWhole, IndexesAreWhole, CommitsAreWhole, Whole
<1>2. \A s \in Runs : Rewriting(s)' /\ Progress(s)'
  BY DEF SerialInv, Rewriting, Progress, Active, Fixes
<1>3. \A s \in Runs : run[s].at \in {"push", "pr", "done"} => run'[s].at \in {"push", "pr", "done"}
  OBVIOUS
<1>4. /\ \A i \in DOMAIN remote : remote[i] \in Runs
      /\ \A c \in Clones : \A i \in DOMAIN branch[c].fix : branch[c].fix[i] \in Runs
  BY DEF Inv, TypeOK, Branches
<1>5. Committed(remote)' /\ \A c \in Clones : Committed(branch[c].fix)'
  BY <1>3, <1>4 DEF SerialInv, Histories, Committed
<1>6. KeepsFixes(remote)' /\ \A c \in Clones : KeepsFixes(branch[c].fix)' /\ IndexKeepsFixes(c)'
  BY DEF SerialInv, Histories, KeepsFixes, IndexKeepsFixes, Fixes
<1> QED
  BY <1>1, <1>2, <1>5, <1>6 DEF SerialInv, Histories

\* A run that goes on is no less alone.
LEMMA AloneKept ==
    ASSUME SerialInv, NEW r \in Runs, Active(r),
           \A s \in Runs : s # r => run'[s] = run[s],
           run'[r].clone = run[r].clone
    PROVE  Alone'
BY DEF SerialInv, Alone, Active

\* A scan reads whole files.
LEMMA ScanSerial ==
    ASSUME Serial, Inv, SerialInv, NEW r \in Runs, Scan(r)
    PROVE  SerialInv'
<1>1. /\ \A s \in Runs : s # r => run'[s] = run[s]
      /\ run[r].at = "new" /\ run'[r].at \in {"read", "done"}
      /\ run'[r].clone = run[r].clone
      /\ run'[r].patched = run[r].patched /\ run'[r].url = run[r].url
  BY ScanRun DEF Inv
<1>2. UNCHANGED <<base, tree, index, branch, commit, remote>>
  BY DEF Scan, clones, hub
<1>3. \A q \in Runs : Active(q) => run[q].clone # run[r].clone
  BY DEF Scan
<1>4. Alone'
  BY <1>1, <1>3 DEF SerialInv, Alone, Active
<1>5. Progress(r) /\ run[r].patched = {}
  BY <1>1 DEF SerialInv, Progress
<1>6. Rewriting(r)' /\ Progress(r)'
  BY <1>1, <1>2, <1>5 DEF Rewriting, Progress
<1> QED
  BY <1>1, <1>2, <1>4, <1>6, QuietSerial

\* A file that needs rewriting holds what was cloned.
LEMMA ReadSerial ==
    ASSUME Inv, SerialInv, NEW r \in Runs, Read(r)
    PROVE  SerialInv'
<1>1. /\ \A s \in Runs : s # r => run'[s] = run[s]
      /\ run[r].at = "read" /\ run'[r].at \in {"read", "truncate"}
      /\ run'[r].clone = run[r].clone
      /\ run'[r].patched = run[r].patched /\ run'[r].url = run[r].url
      /\ run'[r].todo \subseteq run[r].todo
      /\ run'[r].at = "truncate" =>
             \E f \in run[r].todo : LET now == tree[run[r].clone][f]
                                    IN  /\ Rewrite(now) # now
                                        /\ run'[r].file = {f} /\ run'[r].text = now
                                        /\ run'[r].todo = run[r].todo \ {f}
  BY ReadRun DEF Inv
<1>2. UNCHANGED <<base, tree, index, branch, commit, remote>>
  BY DEF Read, clones, hub
<1>3. Alone'
  BY <1>1, AloneKept DEF Active
<1>4. Rewriting(r) /\ Progress(r) /\ run[r].clone \in Clones /\ run[r].todo \subseteq Files
  BY DEF SerialInv, Inv, TypeOK, Run
<1>5. Progress(r)'
  BY <1>1, <1>2, <1>4 DEF Progress, Active, Fixes
<1>6. Rewriting(r)'
  <2>1. CASE run'[r].at = "read"
    BY <1>1, <1>4, <2>1 DEF Rewriting
  <2>2. CASE run'[r].at = "truncate"
    <3> DEFINE now == tree[run[r].clone]
    <3>1. PICK f \in run[r].todo :
              /\ Rewrite(now[f]) # now[f]
              /\ run'[r].file = {f} /\ run'[r].text = now[f] /\ run'[r].todo = run[r].todo \ {f}
      BY <1>1, <2>2
    <3>2. now[f] \in {base[f], Rewrite(base[f]), Empty} /\ base[f] \in Contents
      BY <1>4, <3>1 DEF SerialInv, TreesAreWhole, Whole, Inv, TypeOK
    <3>3. now[f] = base[f]
      BY <3>1, <3>2, RewriteOnce DEF Contents
    <3> QED
      BY <1>1, <1>2, <1>4, <3>1, <3>3 DEF Rewriting
  <2> QED
    BY <1>1, <2>1, <2>2
<1> QED
  BY <1>1, <1>2, <1>3, <1>5, <1>6, QuietSerial

\* A run that writes a file is alone in its clone.
LEMMA FileSerial ==
    ASSUME Inv, SerialInv, NEW r \in Runs, Active(r), run[r].at \notin {"push", "pr", "done"},
           UNCHANGED <<base, index, branch, commit, remote>>, NEW now,
           \A c \in Clones, f \in Files :
               tree'[c][f] = IF c = run[r].clone /\ f \in run[r].file THEN now ELSE tree[c][f],
           \A f \in run[r].file : Whole(now, f) \/ now = Empty,
           \A s \in Runs : s # r => run'[s] = run[s],
           run'[r].clone = run[r].clone,
           Rewriting(r)', Progress(r)'
    PROVE  SerialInv'
<1>1. TreesAreWhole' /\ IndexesAreWhole' /\ CommitsAreWhole'
  BY DEF SerialInv, TreesAreWhole, IndexesAreWhole, CommitsAreWhole, Whole
<1>2. ASSUME NEW s \in Runs, s # r
      PROVE  Rewriting(s)' /\ Progress(s)'
  <2>1. Rewriting(s) /\ Progress(s) /\ run'[s] = run[s] /\ run[s].patched \subseteq Files
        /\ run[s].clone \in Clones
    BY <1>2 DEF SerialInv, Inv, TypeOK, Run
  <2>2. Active(s) => run[s].clone # run[r].clone
    BY <1>2 DEF SerialInv, Alone
  <2>3. Active(s) => \A f \in run[s].patched : tree'[run[s].clone][f] = tree[run[s].clone][f]
    BY <2>1, <2>2
  <2> QED
    BY <2>1, <2>3 DEF Rewriting, Progress, Active, Fixes
<1>3. \A s \in Runs : run[s].at \in {"push", "pr", "done"} => run'[s].at \in {"push", "pr", "done"}
  OBVIOUS
<1>4. /\ \A i \in DOMAIN remote : remote[i] \in Runs
      /\ \A c \in Clones : \A i \in DOMAIN branch[c].fix : branch[c].fix[i] \in Runs
  BY DEF Inv, TypeOK, Branches
<1>5. Committed(remote)' /\ \A c \in Clones : Committed(branch[c].fix)'
  BY <1>3, <1>4 DEF SerialInv, Histories, Committed
<1>6. KeepsFixes(remote)' /\ \A c \in Clones : KeepsFixes(branch[c].fix)' /\ IndexKeepsFixes(c)'
  BY DEF SerialInv, Histories, KeepsFixes, IndexKeepsFixes, Fixes
<1>7. Alone'
  BY AloneKept
<1> QED
  BY <1>1, <1>2, <1>5, <1>6, <1>7 DEF SerialInv, Histories

\* A file is empty while the only run of its clone writes it.
LEMMA TruncateSerial ==
    ASSUME Inv, SerialInv, NEW r \in Runs, Truncate(r)
    PROVE  SerialInv'
<1>1. /\ \A s \in Runs : s # r => run'[s] = run[s]
      /\ run[r].at = "truncate" /\ run'[r].at = "write" /\ run'[r].clone = run[r].clone
      /\ run'[r].todo = run[r].todo /\ run'[r].file = run[r].file /\ run'[r].text = run[r].text
      /\ run'[r].patched = run[r].patched /\ run'[r].url = run[r].url
  BY GotoStage DEF Truncate, Inv, Stages
<1>2. \A c \in Clones, f \in Files :
          tree'[c][f] = IF c = run[r].clone /\ f \in run[r].file THEN Empty ELSE tree[c][f]
  <2>1. Empty \in Contents /\ PutFiles(r, Empty)
    BY DEF Truncate, Contents, Empty
  <2> QED
    BY <2>1, PutFilesTree DEF Inv
<1>3. UNCHANGED <<base, index, branch, commit, remote>>
  BY DEF Truncate, clones, hub
<1>4. /\ Rewriting(r) /\ Progress(r)
      /\ run[r].clone \in Clones /\ run[r].patched \subseteq Files
  BY DEF SerialInv, Inv, TypeOK, Run
<1>5. Rewriting(r)'
  BY <1>1, <1>3, <1>4 DEF Rewriting
<1>6. \A f \in run[r].patched : Fixes(tree[run[r].clone], f) /\ f \notin run[r].file
  BY <1>1, <1>4 DEF Progress, Active, Rewriting
<1>7. Progress(r)'
  BY <1>1, <1>2, <1>3, <1>4, <1>6 DEF Progress, Active, Fixes
<1> QED
  BY <1>1, <1>2, <1>3, <1>5, <1>7, FileSerial DEF Active

\* The file that is written is whole again, and patched.
LEMMA WriteSerial ==
    ASSUME Inv, SerialInv, NEW r \in Runs, Write(r)
    PROVE  SerialInv'
<1>1. PICK now : now = Rewrite(run[r].text)
  OBVIOUS
<1>2. /\ \A s \in Runs : s # r => run'[s] = run[s]
      /\ run[r].at = "write" /\ run'[r].at = "read"
      /\ run'[r].clone = run[r].clone /\ run'[r].todo = run[r].todo
      /\ run'[r].patched = run[r].patched \cup run[r].file /\ run'[r].url = run[r].url
  BY WriteRun DEF Inv
<1>3. \A c \in Clones, f \in Files :
          tree'[c][f] = IF c = run[r].clone /\ f \in run[r].file THEN now ELSE tree[c][f]
  <2>1. now \in Contents /\ PutFiles(r, now)
    BY <1>1, RewriteOnce DEF Inv, TypeOK, Run, Contents, Write
  <2> QED
    BY <2>1, PutFilesTree DEF Inv
<1>4. UNCHANGED <<base, index, branch, commit, remote>>
  BY DEF Write, clones, hub
<1>5. /\ Rewriting(r) /\ Progress(r) /\ run[r].clone \in Clones
      /\ run[r].patched \subseteq Files /\ run[r].file \subseteq Files
  BY DEF SerialInv, Inv, TypeOK, Run
<1>6. \A f \in run[r].file : now = Rewrite(base[f])
  BY <1>1, <1>2, <1>5 DEF Rewriting
<1>7. Rewriting(r)'
  BY <1>2, <1>5 DEF Rewriting
<1>8. \A f \in run[r].patched : Fixes(tree[run[r].clone], f)
  BY <1>2, <1>5 DEF Progress, Active
<1>9. \A f \in run'[r].patched : tree'[run[r].clone][f] = Rewrite(base[f])
  BY <1>2, <1>3, <1>5, <1>6, <1>8 DEF Fixes
<1>10. ~run[r].url
  <2>1. \A i \in DOMAIN remote : remote[i] # r
    BY <1>2 DEF SerialInv, Histories, Committed
  <2> QED
    BY <1>5, <2>1 DEF Progress
<1>11. Progress(r)'
  BY <1>2, <1>4, <1>5, <1>9, <1>10 DEF Progress, Fixes
<1> QED
  BY <1>2, <1>3, <1>4, <1>6, <1>7, <1>11, FileSerial DEF Active, Whole

\* The scan after the patch reads whole files.
LEMMA RescanSerial ==
    ASSUME Inv, SerialInv, NEW r \in Runs, Rescan(r)
    PROVE  SerialInv'
<1>1. PICK q \in {"done", "checkout"} : Goto(r, "read", q)
  BY DEF Rescan
<1>2. /\ \A s \in Runs : s # r => run'[s] = run[s]
      /\ run[r].at = "read" /\ run'[r].at = q /\ run'[r].clone = run[r].clone
      /\ run'[r].patched = run[r].patched /\ run'[r].url = run[r].url
  BY <1>1, GotoStage DEF Inv, Stages
<1>3. UNCHANGED <<base, tree, index, branch, commit, remote>>
  BY DEF Rescan, clones, hub
<1>4. Rewriting(r) /\ Progress(r)
  BY DEF SerialInv
<1>5. Rewriting(r)' /\ Progress(r)'
  BY <1>2, <1>3, <1>4 DEF Rewriting, Progress, Active, Fixes
<1> QED
  BY <1>2, <1>3, <1>5, AloneKept, QuietSerial DEF Active

\* A run that checks out its branch is alone with the clone.
LEMMA CheckoutSerial ==
    ASSUME Inv, SerialInv, NEW r \in Runs, Checkout(r)
    PROVE  SerialInv'
<1>1. PICK q \in {"add", "done"} : Goto(r, "checkout", q)
  BY ProceedStage DEF Checkout
<1>2. /\ \A s \in Runs : s # r => run'[s] = run[s]
      /\ run[r].at = "checkout" /\ run'[r].at = q /\ run'[r].clone = run[r].clone
      /\ run'[r].patched = run[r].patched /\ run'[r].url = run[r].url
  BY <1>1, GotoStage DEF Inv, Stages
<1>3. UNCHANGED <<base, tree, index, commit, remote>>
  BY DEF Checkout, hub
<1>4. \A c \in Clones : branch'[c].fix = branch[c].fix
  BY CheckoutInv
<1>5. Rewriting(r) /\ Progress(r)
  BY DEF SerialInv
<1>6. Rewriting(r)' /\ Progress(r)'
  BY <1>2, <1>3, <1>5 DEF Rewriting, Progress, Active, Fixes
<1>7. TreesAreWhole' /\ IndexesAreWhole' /\ CommitsAreWhole'
  BY <1>3 DEF SerialInv, TreesAreWhole, IndexesAreWhole, CommitsAreWhole, Whole
<1>8. ASSUME NEW s \in Runs, s # r
      PROVE  Rewriting(s)' /\ Progress(s)'
  <2>1. Rewriting(s) /\ Progress(s) /\ run'[s] = run[s] /\ run[s].clone \in Clones
    BY <1>2, <1>8 DEF SerialInv, Inv, TypeOK, Run
  <2> QED
    BY <1>3, <1>4, <2>1 DEF Rewriting, Progress, Active, Fixes
<1>9. \A s \in Runs : run[s].at \in {"push", "pr", "done"} => run'[s].at \in {"push", "pr", "done"}
  BY <1>2
<1>10. /\ \A i \in DOMAIN remote : remote[i] \in Runs
       /\ \A c \in Clones : \A i \in DOMAIN branch[c].fix : branch[c].fix[i] \in Runs
  BY DEF Inv, TypeOK, Branches
<1>11. Committed(remote)' /\ \A c \in Clones : Committed(branch[c].fix)'
  BY <1>3, <1>4, <1>9, <1>10 DEF SerialInv, Histories, Committed
<1>12. KeepsFixes(remote)' /\ \A c \in Clones : KeepsFixes(branch[c].fix)' /\ IndexKeepsFixes(c)'
  BY <1>3, <1>4 DEF SerialInv, Histories, KeepsFixes, IndexKeepsFixes, Fixes
<1> QED
  BY <1>2, <1>6, <1>7, <1>8, <1>11, <1>12, AloneKept DEF SerialInv, Histories, Active

\* What is staged is a fix, and no fix is unstaged.
LEMMA AddSerial ==
    ASSUME Inv, SerialInv, NEW r \in Runs, Add(r)
    PROVE  SerialInv'
<1>1. PICK q \in {"commit", "done"} : Goto(r, "add", q)
  BY ProceedStage DEF Add
<1>2. /\ \A s \in Runs : s # r => run'[s] = run[s]
      /\ run[r].at = "add" /\ run'[r].at = q /\ run'[r].clone = run[r].clone
      /\ run'[r].patched = run[r].patched /\ run'[r].url = run[r].url
  BY <1>1, GotoStage DEF Inv, Stages
<1>3. UNCHANGED <<base, tree, branch, commit, remote>>
  BY DEF Add, hub
<1>4. \A c \in Clones, f \in Files :
          index'[c][f] = IF c = run[r].clone /\ f \in run[r].patched THEN tree[c][f] ELSE index[c][f]
  BY AddInv
<1>5. /\ Rewriting(r) /\ Progress(r) /\ run[r].clone \in Clones /\ run[r].patched \subseteq Files
  BY DEF SerialInv, Inv, TypeOK, Run
<1>6. \A f \in run[r].patched : Fixes(tree[run[r].clone], f)
  BY <1>2, <1>5 DEF Progress, Active
<1>7. \A c \in Clones, f \in Files : index'[c][f] = index[c][f] \/ index'[c][f] = Rewrite(base[f])
  BY <1>4, <1>6 DEF Fixes
<1>8. Rewriting(r)' /\ Progress(r)'
  BY <1>2, <1>3, <1>4, <1>5, <1>6 DEF Rewriting, Progress, Active, Fixes
<1>9. TreesAreWhole' /\ IndexesAreWhole' /\ CommitsAreWhole'
  BY <1>3, <1>7 DEF SerialInv, TreesAreWhole, IndexesAreWhole, CommitsAreWhole, Whole
<1>10. ASSUME NEW s \in Runs, s # r
       PROVE  Rewriting(s)' /\ Progress(s)'
  <2>1. /\ Rewriting(s) /\ Progress(s) /\ run'[s] = run[s] /\ run[s].clone \in Clones
        /\ run[s].patched \subseteq Files
    BY <1>2, <1>10 DEF SerialInv, Inv, TypeOK, Run
  <2>2. \A f \in Files : index[run[s].clone][f] = Rewrite(base[f])
                              => index'[run[s].clone][f] = Rewrite(base[f])
    BY <1>7, <2>1
  <2> QED
    BY <1>3, <2>1, <2>2 DEF Rewriting, Progress, Active, Fixes
<1>11. \A s \in Runs : run[s].at \in {"push", "pr", "done"} => run'[s].at \in {"push", "pr", "done"}
  BY <1>2
<1>12. /\ \A i \in DOMAIN remote : remote[i] \in Runs
       /\ \A c \in Clones : \A i \in DOMAIN branch[c].fix : branch[c].fix[i] \in Runs
  BY DEF Inv, TypeOK, Branches
<1>13. Committed(remote)' /\ \A c \in Clones : Committed(branch[c].fix)'
  BY <1>3, <1>11, <1>12 DEF SerialInv, Histories, Committed
<1>14. KeepsFixes(remote)' /\ \A c \in Clones : KeepsFixes(branch[c].fix)' /\ IndexKeepsFixes(c)'
  BY <1>3, <1>7 DEF SerialInv, Histories, KeepsFixes, IndexKeepsFixes, Fixes
<1> QED
  BY <1>2, <1>8, <1>9, <1>10, <1>13, <1>14, AloneKept DEF SerialInv, Histories, Active

\* A commit has every fix of the commits before it.
LEMMA CommitSerial ==
    ASSUME Inv, SerialInv, NEW r \in Runs, Commit(r)
    PROVE  SerialInv'
<1>1. PICK c : c = run[r].clone
  OBVIOUS
<1>2. PICK q \in {"push", "done"} : Goto(r, "commit", q)
  BY ProceedStage DEF Commit
<1>3. /\ \A s \in Runs : s # r => run'[s] = run[s]
      /\ run[r].at = "commit" /\ run'[r].at = q /\ run'[r].clone = c /\ c \in Clones
      /\ run'[r].patched = run[r].patched /\ run'[r].url = run[r].url
      /\ run[r].patched \subseteq Files
  BY <1>1, <1>2, GotoStage DEF Inv, Stages
<1>4. UNCHANGED <<base, tree, index, remote>>
  BY DEF Commit, hub
<1>5. Rewriting(r) /\ Progress(r)
  BY DEF SerialInv
<1>6. Alone'
  BY <1>1, <1>3, AloneKept DEF Active
<1>7. CASE UNCHANGED <<branch, commit>> /\ run'[r].at = "done"
  <2>1. Rewriting(r)' /\ Progress(r)'
    BY <1>1, <1>3, <1>4, <1>5, <1>7 DEF Rewriting, Progress, Active, Fixes
  <2> QED
    BY <1>1, <1>3, <1>4, <1>6, <1>7, <2>1, QuietSerial
<1>8. CASE /\ commit'[r] = index[c]
           /\ \A s \in Runs : s # r => commit'[s] = commit[s]
           /\ branch'[c].fix = Append(branch[c].fix, r)
           /\ \A d \in Clones : d # c => branch'[d].fix = branch[d].fix
  <2>1. PICK old, new : old = branch[c].fix /\ new = branch'[c].fix
    OBVIOUS
  <2>2. /\ old \in Seq(Runs) /\ Len(old) \in Nat /\ DOMAIN old = 1..Len(old)
        /\ new \in Seq(Runs) /\ Len(new) = Len(old) + 1 /\ DOMAIN new = 1..(Len(old) + 1)
        /\ \A i \in 1..Len(old) : new[i] = old[i]
        /\ new[Len(old) + 1] = r /\ Last(new) = r /\ new # <<>>
    BY <1>3, <1>8, <2>1, AppendProperties DEF Inv, TypeOK, Branches, Last
  <2>3. /\ \A i \in DOMAIN remote : remote[i] \in Runs /\ remote[i] # r
        /\ \A d \in Clones : \A i \in DOMAIN branch[d].fix :
               branch[d].fix[i] \in Runs /\ branch[d].fix[i] # r
    <3>1. /\ \A i \in DOMAIN remote : remote[i] \in Runs
          /\ \A d \in Clones : \A i \in DOMAIN branch[d].fix : branch[d].fix[i] \in Runs
      BY DEF Inv, TypeOK, Branches
    <3>2. Committed(remote) /\ \A d \in Clones : Committed(branch[d].fix)
      BY DEF SerialInv, Histories
    <3> QED
      BY <1>3, <3>1, <3>2 DEF Committed
  <2>4. \A s \in Runs : run[s].at \in {"push", "pr", "done"} => run'[s].at \in {"push", "pr", "done"}
    BY <1>3
  <2>5. Rewriting(r)' /\ Progress(r)'
    <3>1. ~run[r].url
      BY <1>3, <1>5, <2>3 DEF Progress
    <3>2. \A f \in run[r].patched : Fixes(index[c], f) /\ Fixes(tree[c], f)
      BY <1>1, <1>3, <1>5 DEF Progress, Active
    <3> QED
      BY <1>1, <1>3, <1>4, <1>8, <2>1, <2>2, <3>1, <3>2 DEF Rewriting, Progress, Active, Fixes
  <2>6. TreesAreWhole' /\ IndexesAreWhole' /\ CommitsAreWhole'
    BY <1>3, <1>4, <1>8 DEF SerialInv, TreesAreWhole, IndexesAreWhole, CommitsAreWhole, Whole
  <2>7. ASSUME NEW s \in Runs, s # r
        PROVE  Rewriting(s)' /\ Progress(s)'
    <3>1. /\ Rewriting(s) /\ Progress(s) /\ run'[s] = run[s] /\ run[s].clone \in Clones
          /\ commit'[s] = commit[s]
      BY <1>3, <1>8, <2>7 DEF SerialInv, Inv, TypeOK, Run
    <3>2. run[s].at = "push" => run[s].clone # c
      BY <1>1, <1>3, <2>7 DEF SerialInv, Alone, Active
    <3> QED
      BY <1>4, <1>8, <3>1, <3>2 DEF Rewriting, Progress, Active, Fixes
  <2>8. Committed(remote)' /\ KeepsFixes(remote)'
    <3>1. remote # <<>> => Last(remote) \in Runs /\ Last(remote) # r
      <4>1. remote \in Seq(Runs)
        BY DEF Inv, TypeOK
      <4>2. remote # <<>> => Len(remote) \in DOMAIN remote
        BY <4>1
      <4> QED
        BY <2>3, <4>2 DEF Last
    <3>2. \A i \in DOMAIN remote : remote # <<>>
      OBVIOUS
    <3> QED
      BY <1>4, <1>8, <2>3, <2>4, <3>1, <3>2 DEF SerialInv, Histories, Committed, KeepsFixes, Fixes
  <2>9. ASSUME NEW d \in Clones, d # c
        PROVE  Committed(branch[d].fix)' /\ KeepsFixes(branch[d].fix)' /\ IndexKeepsFixes(d)'
    <3>1. PICK now : now = branch[d].fix /\ now = branch'[d].fix
      BY <1>8, <2>9
    <3>2. now \in Seq(Runs)
      <4>1. "fix" \in Branches /\ branch[d] \in [Branches -> Seq(Runs)]
        BY DEF Inv, TypeOK, Branches
      <4> QED
        BY <3>1, <4>1
    <3>3. \A i \in DOMAIN now : now[i] \in Runs /\ now[i] # r /\ Len(now) \in DOMAIN now
      <4>1. \A i \in DOMAIN now : now[i] \in Runs /\ now[i] # r
        BY <2>3, <3>1
      <4>2. \A i \in DOMAIN now : Len(now) \in DOMAIN now
        BY <3>2
      <4> QED
        BY <4>1, <4>2
    <3>4. Committed(now) /\ KeepsFixes(now)
      BY <3>1 DEF SerialInv, Histories
    <3>5. Committed(now)' /\ KeepsFixes(now)'
      BY <1>4, <1>8, <2>4, <3>3, <3>4 DEF Committed, KeepsFixes, Fixes, Last
    <3>6. IndexKeepsFixes(d)'
      BY <1>4, <1>8, <3>1, <3>3 DEF SerialInv, Histories, IndexKeepsFixes, Fixes
    <3> QED
      BY <3>1, <3>5, <3>6 DEF Committed, KeepsFixes
  <2>10. Committed(new)'
    <3>1. Committed(old)
      BY <1>3, <2>1 DEF SerialInv, Histories
    <3>2. run'[r].at \in {"push", "pr", "done"}
      BY <1>3
    <3>3. ASSUME NEW i \in 1..(Len(old) + 1)
          PROVE  run'[new[i]].at \in {"push", "pr", "done"}
      <4>1. CASE i = Len(old) + 1
        BY <2>2, <3>2, <4>1
      <4>2. CASE i \in 1..Len(old)
        BY <2>1, <2>2, <2>3, <2>4, <3>1, <4>2, <1>3 DEF Committed
      <4> QED
        BY <2>2, <4>1, <4>2
    <3> QED
      BY <2>2, <3>3 DEF Committed
  <2>11. ASSUME NEW i \in 1..(Len(old) + 1), NEW f \in Files,
                commit'[new[i]][f] = Rewrite(base[f])
         PROVE  index[c][f] = Rewrite(base[f])
    <3>1. CASE i = Len(old) + 1
      BY <1>4, <1>8, <2>2, <2>11, <3>1 DEF Fixes
    <3>2. CASE i \in 1..Len(old)
      <4>1. IndexKeepsFixes(c) /\ old[i] \in Runs /\ old[i] # r
        BY <1>3, <2>1, <2>2, <2>3, <3>2 DEF SerialInv, Histories
      <4>2. new[i] = old[i] /\ commit'[new[i]] = commit[old[i]] /\ base' = base
        BY <1>4, <1>8, <2>2, <3>2, <4>1
      <4>3. i \in DOMAIN branch[c].fix /\ branch[c].fix[i] = old[i]
        BY <2>1, <2>2, <3>2
      <4>4. commit[old[i]][f] = Rewrite(base[f])
        BY <2>11, <4>2
      <4> QED
        BY <4>1, <4>3, <4>4 DEF Fixes, IndexKeepsFixes
    <3> QED
      BY <2>2, <3>1, <3>2
  <2>12. KeepsFixes(new)' /\ IndexKeepsFixes(c)'
    <3>1. commit'[Last(new)] = index[c]
      BY <1>8, <2>2
    <3>2. KeepsFixes(new)'
      BY <1>4, <2>2, <2>11, <3>1 DEF KeepsFixes, Fixes
    <3>3. IndexKeepsFixes(c)'
      BY <1>4, <2>1, <2>2, <2>11 DEF IndexKeepsFixes, Fixes
    <3> QED
      BY <3>2, <3>3
  <2>13. Committed(branch[c].fix)' /\ KeepsFixes(branch[c].fix)'
    BY <2>1, <2>10, <2>12 DEF Committed, KeepsFixes
  <2>14. Histories'
    BY <2>8, <2>9, <2>12, <2>13 DEF Histories
  <2> QED
    BY <1>6, <2>5, <2>6, <2>7, <2>14 DEF SerialInv
<1> QED
  BY <1>1, <1>7, <1>8, CommitInv

\* The remote takes commits that continue its own.
LEMMA PushSerial ==
    ASSUME Inv, SerialInv, NEW r \in Runs, Push(r)
    PROVE  SerialInv'
<1>1. PICK c : c = run[r].clone
  OBVIOUS
<1>2. PICK q \in {"pr", "done"} : Goto(r, "push", q)
  BY ProceedStage DEF Push
<1>3. /\ \A s \in Runs : s # r => run'[s] = run[s]
      /\ run[r].at = "push" /\ run'[r].at = q /\ run'[r].clone = c /\ c \in Clones
      /\ run'[r].patched = run[r].patched /\ run'[r].url = run[r].url
  BY <1>1, <1>2, GotoStage DEF Inv, Stages
<1>4. UNCHANGED <<base, tree, index, branch, commit>>
  BY DEF Push, clones
<1>5. Rewriting(r) /\ Progress(r)
  BY DEF SerialInv
<1>6. Alone'
  BY <1>1, <1>3, AloneKept DEF Active
<1>7. CASE UNCHANGED remote /\ run'[r].at = "done"
  <2>1. Rewriting(r)' /\ Progress(r)'
    BY <1>1, <1>3, <1>4, <1>5, <1>7 DEF Rewriting, Progress, Active, Fixes
  <2> QED
    BY <1>1, <1>3, <1>4, <1>6, <1>7, <2>1, QuietSerial
<1>8. CASE IsPrefix(remote, branch[c].fix) /\ remote' = branch[c].fix
  <2>1. PICK new : new = branch[c].fix
    OBVIOUS
  <2>2. new \in Seq(Runs) /\ new # <<>> /\ Last(new) = r
    <3>1. "fix" \in Branches /\ branch[c] \in [Branches -> Seq(Runs)]
      BY <1>3 DEF Inv, TypeOK, Branches
    <3> QED
      BY <1>1, <1>3, <1>5, <2>1, <3>1 DEF Progress
  <2>3. Len(new) \in DOMAIN new /\ new[Len(new)] = r
    BY <2>2 DEF Last
  <2>4. \A i \in DOMAIN remote : i \in DOMAIN new /\ new[i] = remote[i]
    <3>1. /\ remote \in Seq(Runs) /\ Len(remote) \in Nat /\ Len(remote) <= Len(new)
          /\ SubSeq(remote, 1, Len(remote)) = SubSeq(new, 1, Len(remote))
      BY <1>8, <2>1, <2>2 DEF Inv, TypeOK, IsPrefix
    <3>2. DOMAIN remote = 1..Len(remote) /\ DOMAIN new = 1..Len(new) /\ Len(new) \in Nat
      BY <2>2, <3>1
    <3>3. \A i \in 1..Len(remote) : /\ SubSeq(remote, 1, Len(remote))[i] = remote[i]
                                    /\ SubSeq(new, 1, Len(remote))[i] = new[i]
      BY <2>2, <3>1, <3>2, SubSeqProperties
    <3> QED
      BY <3>1, <3>2, <3>3
  <2>5. Committed(new) /\ KeepsFixes(new)
    BY <1>3, <2>1 DEF SerialInv, Histories
  <2>6. \A s \in Runs : run[s].at \in {"push", "pr", "done"} => run'[s].at \in {"push", "pr", "done"}
    BY <1>3
  <2>7. TreesAreWhole' /\ IndexesAreWhole' /\ CommitsAreWhole'
    BY <1>4 DEF SerialInv, TreesAreWhole, IndexesAreWhole, CommitsAreWhole, Whole
  <2>8. \E i \in DOMAIN new : new[i] = r
    BY <2>3
  <2>9. Rewriting(r)' /\ Progress(r)'
    BY <1>1, <1>3, <1>4, <1>5, <1>8, <2>1, <2>8 DEF Rewriting, Progress, Active, Fixes
  <2>10. ASSUME NEW s \in Runs, s # r
         PROVE  Rewriting(s)' /\ Progress(s)'
    <3>1. Rewriting(s) /\ Progress(s) /\ run'[s] = run[s]
      BY <1>3, <2>10 DEF SerialInv
    <3>2. (\E i \in DOMAIN remote : remote[i] = s) => \E i \in DOMAIN new : new[i] = s
      BY <2>4
    <3> QED
      BY <1>4, <1>8, <2>1, <3>1, <3>2 DEF Rewriting, Progress, Active, Fixes
  <2>11. /\ \A i \in DOMAIN new : new[i] \in Runs
         /\ \A d \in Clones : \A i \in DOMAIN branch[d].fix : branch[d].fix[i] \in Runs
    BY <2>2 DEF Inv, TypeOK, Branches
  <2>12. Committed(new)' /\ \A d \in Clones : Committed(branch[d].fix)'
    BY <1>4, <2>5, <2>6, <2>11 DEF SerialInv, Histories, Committed
  <2>13. KeepsFixes(new)'
    BY <1>4, <2>5 DEF KeepsFixes, Fixes
  <2>14. \A d \in Clones : KeepsFixes(branch[d].fix)' /\ IndexKeepsFixes(d)'
    BY <1>4 DEF SerialInv, Histories, KeepsFixes, IndexKeepsFixes, Fixes
  <2>15. Committed(remote)' /\ KeepsFixes(remote)'
    BY <1>8, <2>1, <2>12, <2>13 DEF Committed, KeepsFixes
  <2>16. Histories'
    BY <2>12, <2>14, <2>15 DEF Histories
  <2> QED
    BY <1>6, <2>7, <2>9, <2>10, <2>16 DEF SerialInv
<1>9. Goto(r, "push", "done") => run'[r].at = "done"
  BY GotoStage DEF Inv, Stages
<1> QED
  BY <1>1, <1>7, <1>8, <1>9 DEF Push

\* The pull request is for a branch that was pushed.
LEMMA CreatePullRequestSerial ==
    ASSUME Inv, SerialInv, NEW r \in Runs, CreatePullRequest(r)
    PROVE  SerialInv'
<1>1. /\ \A s \in Runs : s # r => run'[s] = run[s]
      /\ run[r].at = "pr" /\ run'[r].at = "done" /\ run'[r].clone = run[r].clone
      /\ run'[r].patched = run[r].patched
  BY CreatePullRequestRun DEF Inv
<1>2. UNCHANGED <<base, tree, index, branch, commit, remote>>
  BY DEF CreatePullRequest, clones
<1>3. Rewriting(r) /\ Progress(r)
  BY DEF SerialInv
<1>4. Rewriting(r)' /\ Progress(r)'
  BY <1>1, <1>2, <1>3 DEF Rewriting, Progress, Active, Fixes
<1> QED
  BY <1>1, <1>2, <1>4, AloneKept, QuietSerial DEF Active

\* A run that gives up leaves whole files.
LEMMA GiveUpSerial ==
    ASSUME Inv, SerialInv, NEW r \in Runs, GiveUp(r)
    PROVE  SerialInv'
<1>1. /\ \A s \in Runs : s # r => run'[s] = run[s]
      /\ Active(r) /\ run'[r].at = "done" /\ run'[r].clone = run[r].clone
      /\ run'[r].patched = run[r].patched /\ run'[r].url = run[r].url
  BY DEF GiveUp, Inv, TypeOK, Run
<1>2. UNCHANGED <<base, tree, index, branch, commit, remote>>
  BY DEF GiveUp, clones, hub
<1>3. Rewriting(r) /\ Progress(r)
  BY DEF SerialInv
<1>4. Rewriting(r)' /\ Progress(r)'
  BY <1>1, <1>2, <1>3 DEF Rewriting, Progress, Active, Fixes
<1> QED
  BY <1>1, <1>2, <1>4, AloneKept, QuietSerial

\* Every step keeps the invariant of runs that do not overlap ...
LEMMA NextSerial ==
    ASSUME Serial, Inv, SerialInv, [Next]_vars
    PROVE  SerialInv'
<1>1. CASE Close \/ UNCHANGED vars
  <2>1. UNCHANGED <<base, tree, index, branch, commit, remote, run>>
    BY <1>1 DEF Close, vars, clones, hub
  <2> QED
    BY <2>1 DEF SerialInv, Alone, Active, TreesAreWhole, IndexesAreWhole, CommitsAreWhole, Whole,
        Rewriting, Progress, Fixes, Histories, Committed, KeepsFixes, IndexKeepsFixes
<1> QED
  BY <1>1, ScanSerial, ReadSerial, TruncateSerial, WriteSerial, RescanSerial, CheckoutSerial,
     AddSerial, CommitSerial, PushSerial, CreatePullRequestSerial, GiveUpSerial DEF Next

\* ... so it holds in every state.
LEMMA SerialInvAlways ==
    ASSUME Serial
    PROVE  Spec => [](Inv /\ SerialInv)
<1>1. Inv /\ SerialInv /\ [Next]_vars => (Inv /\ SerialInv)'
  BY NextInv, NextSerial
<1> QED
  BY <1>1, InitInv, InitSerial, PTL DEF Spec

\* Every file in a commit is the cloned text or that text rewritten once, as
\* long as a clone has one run at a time: no text that a dying run left empty
\* gets into a commit.
THEOREM CommitsAlwaysWhole ==
    ASSUME Serial
    PROVE  Spec => []CommitsAreWhole
<1>1. Inv /\ SerialInv => CommitsAreWhole
  BY SerialPromises
<1> QED
  BY <1>1, SerialInvAlways, PTL

\* The fixes that a run reports in a pull request are on the branch of the
\* remote, and stay there whatever is pushed on top of them.
THEOREM PullRequestsCarryFixes ==
    ASSUME Serial
    PROVE  Spec => []PullRequestCarriesFix
<1>1. Inv /\ SerialInv => PullRequestCarriesFix
  BY SerialPromises
<1> QED
  BY <1>1, SerialInvAlways, PTL
=============================================================================
