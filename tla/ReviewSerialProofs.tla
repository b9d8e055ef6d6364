------------------------- MODULE ReviewSerialProofs -------------------------
(***************************************************************************)
(* Theorems about ReviewService when clients keep one request in flight    *)
(* per assessment: requests on different assessments interleave, any of    *)
(* them may die anywhere, and no change is lost.                           *)
(***************************************************************************)
EXTENDS ReviewServiceProofs

-----------------------------------------------------------------------------
(* The inductive invariant.                                                *)

\* The jobs and repositories a record has.
Ids(b) == {j \in Jobs : b.job[j] # "none"} \cup {r \in Repos : b.repo[r] # "none"}

\* The next record, when one job or one repository moves a stage.
JobMove(b, c, j, from, to) ==
    /\ b.job[j] = from
    /\ c.job = [b.job EXCEPT ![j] = to] /\ c.repo = b.repo

RepoMove(b, c, r, from, to) ==
    /\ b.repo[r] = from
    /\ c.repo = [b.repo EXCEPT ![r] = to] /\ c.job = b.job

\* A job on a clone has one that is READY.
TargetReady(b, j) == b.target[j] \in Repos => b.repo[b.target[j]] = "ready"

\* Where a worker is with its assessment, compared with the row.
Resting(w) ==
    /\ pc[w] = "idle" => at[w] = None /\ item[w] = None /\ copy[w] = NewAssessment
    /\ pc[w] # "idle" => at[w] \in used
    /\ pc[w] \in {"insert", "delete_row", "read_job"} => item[w] = None
    /\ item[w] # None => item[w] \in Ids(copy[w])

Creating(w) ==
    pc[w] = "insert" => at[w] \notin stored \cup gone /\ copy[w] = NewAssessment

Deleting(w) ==
    /\ pc[w] = "delete_row" => at[w] \in stored /\ copy[w] = payload[at[w]]
    /\ pc[w] = "save_removal" => copy[w] = payload[at[w]] /\ copy[w].repo[item[w]] # "none"
    /\ pc[w] = "cleanup" => IF item[w] = None THEN at[w] \notin stored
                            ELSE item[w] \in Repos /\ payload[at[w]].repo[item[w]] = "none"

Ingesting(w) ==
    LET row == payload[at[w]] IN
    /\ pc[w] \in RepoPC => at[w] \in stored /\ item[w] \notin gone
    /\ pc[w] = "save_new_repo" => RepoMove(row, copy[w], item[w], "none", "pending")
    /\ pc[w] = "reload_repo" => copy[w] = row /\ row.repo[item[w]] = "pending"
    /\ pc[w] = "save_cloning" => RepoMove(row, copy[w], item[w], "pending", "cloning")
    /\ pc[w] \in {"begin_clone", "end_clone"} => copy[w] = row /\ row.repo[item[w]] = "cloning"
    /\ pc[w] = "end_clone" => item[w] \in disk
    /\ pc[w] = "save_ingestion" =>
           \E s \in {"ready", "failed", "cloning"} :
               RepoMove(row, copy[w], item[w], "cloning", s) /\ (s = "ready" => item[w] \in disk)

Scanning(w) ==
    LET row == payload[at[w]] IN
    /\ pc[w] = "read_job" => copy[w] = NewAssessment
    /\ pc[w] \in JobPC => at[w] \in stored /\ TargetReady(copy[w], item[w])
    /\ pc[w] \in {"record_consent", "save_new_job"} =>
           JobMove(row, copy[w], item[w], "none", "pending")
    /\ pc[w] = "reload_job" => copy[w] = row /\ row.job[item[w]] = "pending"
    /\ pc[w] = "save_running" => JobMove(row, copy[w], item[w], "pending", "running")
    /\ pc[w] = "save_trivy_job" => JobMove(row, copy[w], item[w], "none", "running")
    /\ pc[w] = "execute" => copy[w] = row /\ row.job[item[w]] = "running"
    /\ pc[w] = "notify" => copy[w] = row /\ row.job[item[w]] \in Terminal

InStep(w) == Resting(w) /\ Creating(w) /\ Deleting(w) /\ Ingesting(w) /\ Scanning(w)

RowInv(a) ==
    /\ a \notin stored => payload[a] = NewAssessment
    /\ a \in stored => /\ a \in used /\ a \notin gone
                       /\ \A r \in gone \cap Repos : payload[a].repo[r] = "none"
                       /\ LocalPaths(payload[a]) \subseteq disk

\* An identifier belongs to one assessment, wherever it is held.
Apart ==
    /\ \A a, b \in Assessments : Ids(payload[a]) \cap Ids(payload[b]) # {} => a = b
    /\ \A w \in Workers, a \in Assessments : Ids(copy[w]) \cap Ids(payload[a]) # {} => at[w] = a
    /\ \A v, w \in Workers : Ids(copy[v]) \cap Ids(copy[w]) # {} => at[v] = at[w]

Known ==
    /\ gone \subseteq used
    /\ \A a \in Assessments : Ids(payload[a]) \subseteq used
    /\ \A w \in Workers : Ids(copy[w]) \subseteq used

Alone == \A v, w \in Workers : at[v] = at[w] /\ at[v] # None => v = w

SerialInv ==
    /\ Alone
    /\ Known
    /\ Apart
    /\ \A a \in Assessments : RowInv(a)
    /\ \A w \in Workers : InStep(w)

\* A job that a receiver was told of is over.
Told ==
    \A m \in notified :
        /\ m[1] \in used
        /\ \A w \in Workers : pc[w] \in JobPC => item[w] # m[1]
        /\ \A a \in Assessments : payload[a].job[m[1]] \in {"none", m[2]}

\* While no request dies, whose the directories are: a clone that is READY is
\* in a row, and any other is in the hands of one request.
Kept(r) == \E a \in stored : payload[a].repo[r] = "ready"

ClaimedBy(w, r) ==
    \/ pc[w] = "end_clone" /\ item[w] = r
    \/ pc[w] = "save_ingestion" /\ item[w] = r /\ copy[w].repo[r] = "ready"
    \/ pc[w] = "cleanup" /\ r \in LocalPaths(copy[w]) /\ item[w] \in {None, r}

Claimed == \A r \in disk : Kept(r) \/ \E w \in Workers : ClaimedBy(w, r)

-----------------------------------------------------------------------------
(* One request's step leaves the others alone.                             *)

\* A step of worker w on assessment x.
Turn(w, x) ==
    /\ \A v \in Workers \ {w} : /\ at[v] # x
                                /\ pc'[v] = pc[v] /\ at'[v] = at[v]
                                /\ item'[v] = item[v] /\ copy'[v] = copy[v]
    /\ \A a \in Assessments \ {x} : payload'[a] = payload[a] /\ (a \in stored' <=> a \in stored)
    /\ at[w] \in {x, None} /\ at'[w] \in {x, None}
    /\ used \subseteq used'
    /\ gone' \subseteq gone \cup {x} \cup (Repos \cap Ids(copy[w]))
    /\ disk \ disk' \subseteq Ids(copy[w])
    /\ x \in gone' => x \in used'
    /\ Ids(payload'[x]) \cup Ids(copy'[w])
           \subseteq Ids(payload[x]) \cup Ids(copy[w]) \cup (used' \ used)

\* A new assessment has no jobs and no repositories.
LEMMA NewAssessmentIds == Ids(NewAssessment) = {}
BY DEF Ids, NewAssessment

\* What the other workers and the other rows have is theirs.
LEMMA OthersApart ==
    ASSUME TypeInv, SerialInv, NEW w \in Workers, NEW x \in Assessments, Turn(w, x)
    PROVE  LET new == Ids(payload[x]) \cup Ids(copy[w]) \cup (used' \ used)
           IN  /\ \A v \in Workers \ {w} : Ids(copy[v]) \cap new = {}
               /\ \A a \in Assessments \ {x} : Ids(payload[a]) \cap new = {}
<1>1. None \notin Assessments
  BY NoneAssumption
<1>2. \A v \in Workers : at[v] = None => Ids(copy[v]) = {}
  BY <1>1, NewAssessmentIds DEF TypeInv, WorkerShape, SerialInv, InStep, Resting
<1>3. ASSUME NEW v \in Workers \ {w}
      PROVE  Ids(copy[v]) \cap (Ids(payload[x]) \cup Ids(copy[w]) \cup (used' \ used)) = {}
  <2>1. Ids(copy[v]) \cap Ids(payload[x]) = {}
    BY <1>3 DEF SerialInv, Apart, Turn
  <2>2. Ids(copy[v]) \cap Ids(copy[w]) = {}
    BY <1>2, <1>3 DEF SerialInv, Apart, Turn
  <2>3. Ids(copy[v]) \subseteq used
    BY DEF SerialInv, Known
  <2> QED
    BY <2>1, <2>2, <2>3
<1>4. ASSUME NEW a \in Assessments \ {x}
      PROVE  Ids(payload[a]) \cap (Ids(payload[x]) \cup Ids(copy[w]) \cup (used' \ used)) = {}
  <2>1. Ids(payload[a]) \cap Ids(payload[x]) = {}
    BY <1>4 DEF SerialInv, Apart
  <2>2. Ids(payload[a]) \cap Ids(copy[w]) = {}
    BY <1>1, <1>4 DEF SerialInv, Apart, Turn
  <2>3. Ids(payload[a]) \subseteq used
    BY DEF SerialInv, Known
  <2> QED
    BY <2>1, <2>2, <2>3
<1> QED
  BY <1>3, <1>4

\* A turn keeps the invariant if its own worker and its own row do.
LEMMA TurnKeeps ==
    ASSUME TypeInv, TypeInv', SerialInv, NEW w \in Workers, NEW x \in Assessments, Turn(w, x),
           InStep(w)', RowInv(x)'
    PROVE  SerialInv'
<1>1. None \notin Assessments
  BY NoneAssumption
<1>2. PICK new : new = Ids(payload[x]) \cup Ids(copy[w]) \cup (used' \ used)
  OBVIOUS
<1>3. /\ \A v \in Workers \ {w} : Ids(copy[v]) \cap new = {}
      /\ \A a \in Assessments \ {x} : Ids(payload[a]) \cap new = {}
  BY <1>2, OthersApart
<1>4. Ids(payload'[x]) \subseteq new /\ Ids(copy'[w]) \subseteq new
  BY <1>2 DEF Turn
<1>5. at'[w] = None => Ids(copy'[w]) = {}
  BY <1>1, NewAssessmentIds DEF TypeInv, WorkerShape, InStep, Resting
<1>6. \A v \in Workers \ {w} : copy'[v] = copy[v] /\ at'[v] = at[v] /\ at[v] # x
  BY DEF Turn
<1>7. \A a \in Assessments \ {x} : payload'[a] = payload[a]
  BY DEF Turn
<1>8. at'[w] \in {x, None}
  BY DEF Turn
<1>9. Alone'
  BY <1>6, <1>8 DEF SerialInv, Alone
<1>10. Apart'
  <2>1. \A a, b \in Assessments : Ids(payload'[a]) \cap Ids(payload'[b]) # {} => a = b
    <3> SUFFICES ASSUME NEW a \in Assessments, NEW b \in Assessments, a # b
                 PROVE  Ids(payload'[a]) \cap Ids(payload'[b]) = {}
      OBVIOUS
    <3>1. CASE a # x /\ b # x
      BY <1>7, <3>1 DEF SerialInv, Apart
    <3>2. CASE a = x
      BY <1>3, <1>4, <1>7, <3>2
    <3>3. CASE b = x
      BY <1>3, <1>4, <1>7, <3>3
    <3> QED
      BY <3>1, <3>2, <3>3
  <2>2. \A v \in Workers, a \in Assessments :
            Ids(copy'[v]) \cap Ids(payload'[a]) # {} => at'[v] = a
    <3> SUFFICES ASSUME NEW v \in Workers, NEW a \in Assessments, at'[v] # a
                 PROVE  Ids(copy'[v]) \cap Ids(payload'[a]) = {}
      OBVIOUS
    <3>1. CASE v # w /\ a # x
      BY <1>6, <1>7, <3>1 DEF SerialInv, Apart
    <3>2. CASE v # w /\ a = x
      BY <1>3, <1>4, <1>6, <3>2
    <3>3. CASE v = w /\ a # x
      BY <1>3, <1>4, <1>7, <3>3
    <3>4. CASE v = w /\ a = x
      BY <1>5, <1>8, <3>4
    <3> QED
      BY <3>1, <3>2, <3>3, <3>4
  <2>3. \A u, v \in Workers : Ids(copy'[u]) \cap Ids(copy'[v]) # {} => at'[u] = at'[v]
    <3> SUFFICES ASSUME NEW u \in Workers, NEW v \in Workers, at'[u] # at'[v]
                 PROVE  Ids(copy'[u]) \cap Ids(copy'[v]) = {}
      OBVIOUS
    <3>1. CASE u # w /\ v # w
      BY <1>6, <3>1 DEF SerialInv, Apart
    <3>2. CASE u = w
      BY <1>3, <1>4, <1>6, <3>2
    <3>3. CASE v = w
      BY <1>3, <1>4, <1>6, <3>3
    <3> QED
      BY <3>1, <3>2, <3>3
  <2> QED
    BY <2>1, <2>2, <2>3 DEF Apart
<1>11. Known'
  <2>1. used \subseteq used' /\ Ids(payload[x]) \subseteq used /\ Ids(copy[w]) \subseteq used
    BY DEF Turn, SerialInv, Known
  <2>2. new \subseteq used'
    BY <1>2, <2>1
  <2>3. gone' \subseteq used'
    BY <2>1 DEF Turn, SerialInv, Known
  <2>4. \A a \in Assessments : Ids(payload'[a]) \subseteq used'
    BY <1>4, <1>7, <2>1, <2>2 DEF SerialInv, Known
  <2>5. \A v \in Workers : Ids(copy'[v]) \subseteq used'
    BY <1>4, <1>6, <2>1, <2>2 DEF SerialInv, Known
  <2> QED
    BY <2>3, <2>4, <2>5 DEF Known
<1>12. ASSUME NEW a \in Assessments, a # x
       PROVE  RowInv(a)'
  <2>1. /\ RowInv(a) /\ payload'[a] = payload[a] /\ (a \in stored' <=> a \in stored)
        /\ used \subseteq used'
    BY <1>12 DEF SerialInv, Turn
  <2>2. a \in gone' => a \in gone
    BY <1>12, IdentifiersAssumption DEF Turn
  <2>3. \A r \in Repos : payload[a].repo[r] # "none" => r \in Ids(payload[a])
    BY DEF Ids
  <2>4. \A r \in gone' \cap Repos : r \in gone \/ r \in Ids(copy[w])
    BY IdentifiersAssumption DEF Turn
  <2>5. Ids(payload[a]) \cap Ids(copy[w]) = {}
    BY <1>2, <1>3, <1>12
  <2>6. \A r \in gone' \cap Repos : payload[a].repo[r] = "none" \/ a \notin stored
    BY <2>1, <2>3, <2>4, <2>5 DEF RowInv
  <2>7. LocalPaths(payload[a]) \subseteq Ids(payload[a])
    BY DEF LocalPaths, Ids
  <2>8. a \in stored => LocalPaths(payload[a]) \subseteq disk'
    BY <2>1, <2>5, <2>7 DEF RowInv, Turn
  <2> QED
    BY <2>1, <2>2, <2>6, <2>8 DEF RowInv
<1>13. ASSUME NEW v \in Workers, v # w
       PROVE  InStep(v)'
  <2>1. /\ InStep(v) /\ pc'[v] = pc[v] /\ at'[v] = at[v] /\ item'[v] = item[v]
        /\ copy'[v] = copy[v] /\ used \subseteq used'
    BY <1>13 DEF SerialInv, Turn
  <2>2. Resting(v)'
    BY <2>1 DEF InStep, Resting
  <2>3. CASE pc[v] = "idle"
    BY <2>1, <2>2, <2>3
       DEF InStep, Creating, Deleting, Ingesting, Scanning, RepoPC, JobPC, BeforeScan, DuringScan
  <2>4. CASE pc[v] # "idle"
    <3>1. at[v] \in Assessments \ {x}
      BY <1>6, <1>13, <2>4 DEF TypeInv, WorkerShape
    <3>2. payload'[at[v]] = payload[at[v]] /\ (at[v] \in stored' <=> at[v] \in stored)
      BY <3>1 DEF Turn
    <3>3. at[v] \in gone' => at[v] \in gone
      BY <3>1, IdentifiersAssumption DEF Turn
    <3>4. item[v] # None => item[v] \notin Ids(copy[w])
      BY <1>2, <1>3, <1>13, <2>1 DEF InStep, Resting
    <3>5. pc[v] \in RepoPC => item[v] \in Repos
      BY DEF TypeInv, WorkerShape
    <3>6. pc[v] \in RepoPC /\ item[v] \in gone' => item[v] \in gone
      BY <3>4, <3>5, NoneAssumption, IdentifiersAssumption DEF Turn
    <3>7. pc[v] \in RepoPC /\ item[v] \in disk => item[v] \in disk'
      BY <3>4, <3>5, NoneAssumption DEF Turn
    <3>8. Creating(v)' /\ Deleting(v)'
      BY <2>1, <3>2, <3>3 DEF InStep, Creating, Deleting
    <3>9. Ingesting(v)'
      BY <2>1, <3>2, <3>6, <3>7 DEF InStep, Ingesting, RepoMove, RepoPC
    <3>10. Scanning(v)'
      BY <2>1, <3>2 DEF InStep, Scanning, JobMove, TargetReady
    <3> QED
      BY <2>2, <3>8, <3>9, <3>10 DEF InStep
  <2> QED
    BY <2>3, <2>4
<1> QED
  BY <1>9, <1>10, <1>11, <1>12, <1>13 DEF SerialInv

-----------------------------------------------------------------------------
(* The three ways a worker moves.                                          *)

\* A request that is accepted.
LEMMA BeginSerial ==
    ASSUME TypeInv, TypeInv', SerialInv, NEW w \in Workers, NEW x \in Assessments,
           NEW p \in PC \ {"idle"}, NEW i, NEW b, Begin(w, p, x, i, b),
           \A v \in Workers : at[v] # x, UNCHANGED <<stored, payload, disk, gone>>,
           used \subseteq used', x \in used', Ids(b) \subseteq Ids(payload[x]) \cup (used' \ used),
           InStep(w)'
    PROVE  SerialInv'
<1>1. /\ pc[w] = "idle" /\ pc'[w] = p /\ at'[w] = x /\ item'[w] = i /\ copy'[w] = b
      /\ \A v \in Workers \ {w} : /\ pc'[v] = pc[v] /\ at'[v] = at[v]
                                  /\ item'[v] = item[v] /\ copy'[v] = copy[v]
  BY DEF Begin, TypeInv, TypeOK
<1>2. at[w] = None
  BY <1>1 DEF SerialInv, InStep, Resting
<1>3. Turn(w, x)
  BY <1>1, <1>2 DEF Turn
<1>4. RowInv(x)'
  BY DEF SerialInv, RowInv
<1> QED
  BY <1>3, <1>4, TurnKeeps

\* A request that goes on leaves all other workers where they are ...
LEMMA GotoLocal ==
    ASSUME TypeInv, NEW w \in Workers, NEW p, NEW q, Goto(w, p, q)
    PROVE  /\ pc[w] = p /\ pc'[w] = q /\ at'[w] = at[w] /\ item'[w] = item[w]
           /\ \A v \in Workers \ {w} : pc'[v] = pc[v] /\ at'[v] = at[v] /\ item'[v] = item[v]
BY DEF Goto, TypeInv, TypeOK

\* ... and so does one that ends.
LEMMA FinishLocal ==
    ASSUME TypeInv, NEW w \in Workers, Finish(w)
    PROVE  /\ pc'[w] = "idle" /\ at'[w] = None /\ item'[w] = None /\ copy'[w] = NewAssessment
           /\ \A v \in Workers \ {w} : /\ pc'[v] = pc[v] /\ at'[v] = at[v]
                                       /\ item'[v] = item[v] /\ copy'[v] = copy[v]
BY DEF Finish, TypeInv, TypeOK

\* A worker at rest is where it should be.
LEMMA IdleInStep ==
    ASSUME NEW w \in Workers, pc[w] = "idle", at[w] = None, item[w] = None,
           copy[w] = NewAssessment
    PROVE  InStep(w)
BY DEF InStep, Resting, Creating, Deleting, Ingesting, Scanning, RepoPC, JobPC, BeforeScan,
       DuringScan

\* A worker that is busy is alone with its assessment.
LEMMA BusyAlone ==
    ASSUME TypeInv, SerialInv, NEW w \in Workers, pc[w] # "idle"
    PROVE  /\ at[w] \in Assessments /\ at[w] \in used /\ at[w] # None
           /\ RowInv(at[w]) /\ InStep(w)
           /\ copy[w] \in Assessment /\ payload[at[w]] \in Assessment
           /\ \A v \in Workers \ {w} : at[v] # at[w]
<1>1. at[w] \in Assessments /\ at[w] # None /\ at[w] \in used /\ InStep(w)
  BY NoneAssumption DEF TypeInv, WorkerShape, SerialInv, InStep, Resting
<1> QED
  BY <1>1 DEF TypeInv, TypeOK, SerialInv, Alone

\* A request that ends without touching a row.
LEMMA EndSerial ==
    ASSUME TypeInv, TypeInv', SerialInv, NEW w \in Workers, pc[w] # "idle", Finish(w),
           UNCHANGED <<stored, payload, used, gone>>, disk \ disk' \subseteq Ids(copy[w]),
           at[w] \in stored => LocalPaths(payload[at[w]]) \subseteq disk'
    PROVE  SerialInv'
<1>1. PICK x \in Assessments : x = at[w]
  BY BusyAlone
<1>2. Turn(w, x)
  BY <1>1, BusyAlone, FinishLocal, NewAssessmentIds DEF Turn
<1>3. InStep(w)'
  BY FinishLocal DEF InStep, Resting, Creating, Deleting, Ingesting, Scanning, RepoPC, JobPC,
     BeforeScan, DuringScan
<1>4. RowInv(x)'
  BY <1>1 DEF SerialInv, RowInv
<1> QED
  BY <1>2, <1>3, <1>4, TurnKeeps

\* A request that goes on, having changed its copy only.
LEMMA GoOnSerial ==
    ASSUME TypeInv, TypeInv', SerialInv, NEW w \in Workers, pc[w] # "idle",
           \A v \in Workers \ {w} : /\ pc'[v] = pc[v] /\ at'[v] = at[v]
                                   /\ item'[v] = item[v] /\ copy'[v] = copy[v],
           at'[w] = at[w], UNCHANGED <<stored, payload, gone>>, used \subseteq used',
           disk \subseteq disk',
           Ids(copy'[w]) \subseteq Ids(payload[at[w]]) \cup Ids(copy[w]) \cup (used' \ used),
           InStep(w)'
    PROVE  SerialInv'
<1>1. PICK x \in Assessments : x = at[w]
  BY BusyAlone
<1>2. Turn(w, x)
  BY <1>1, BusyAlone DEF Turn
<1>3. RowInv(x)'
  BY <1>1 DEF SerialInv, RowInv
<1> QED
  BY <1>2, <1>3, TurnKeeps

\* A request that writes a row and goes on or ends.
LEMMA SaveSerial ==
    ASSUME TypeInv, TypeInv', SerialInv, NEW w \in Workers, pc[w] # "idle",
           NEW x \in Assessments, x = at[w], NEW b, payload' = [payload EXCEPT ![x] = b],
           \A a \in Assessments \ {x} : a \in stored' <=> a \in stored,
           \A v \in Workers \ {w} : /\ pc'[v] = pc[v] /\ at'[v] = at[v]
                                   /\ item'[v] = item[v] /\ copy'[v] = copy[v],
           at'[w] \in {x, None}, UNCHANGED <<disk, used>>,
           gone' \subseteq gone \cup {x} \cup (Repos \cap Ids(copy[w])),
           Ids(b) \subseteq Ids(payload[x]) \cup Ids(copy[w]),
           Ids(copy'[w]) \subseteq Ids(payload[x]) \cup Ids(copy[w]),
           InStep(w)', RowInv(x)'
    PROVE  SerialInv'
<1>1. payload'[x] = b /\ \A a \in Assessments \ {x} : payload'[a] = payload[a]
  BY DEF TypeInv, TypeOK
<1>2. Turn(w, x)
  BY <1>1, BusyAlone DEF Turn
<1> QED
  BY <1>2, TurnKeeps

-----------------------------------------------------------------------------
(* What a record has after a change.                                       *)

\* A record has the identifiers it had, and the repository that moved.
LEMMA RepoMoveIds ==
    ASSUME NEW b \in Assessment, NEW c, NEW r \in Repos, NEW from, NEW to,
           RepoMove(b, c, r, from, to)
    PROVE  /\ Ids(c) \subseteq Ids(b) \cup {r}
           /\ to # "none" => r \in Ids(c)
BY DEF RepoMove, Ids, Assessment

\* A record has the identifiers it had, and the job that moved.
LEMMA JobMoveIds ==
    ASSUME NEW b \in Assessment, NEW c, NEW j \in Jobs, NEW from, NEW to, JobMove(b, c, j, from, to)
    PROVE  /\ Ids(c) \subseteq Ids(b) \cup {j}
           /\ to # "none" => j \in Ids(c)
BY DEF JobMove, Ids, Assessment

\* A new job and its target, beside those there were.
LEMMA AppendJobMove ==
    ASSUME NEW b \in Assessment, NEW j \in Jobs, NEW s \in ScanStatus, NEW t \in Targets,
           NEW consent \in Consent
    PROVE  /\ AppendJob(b, j, s, t, consent).job = [b.job EXCEPT ![j] = s]
           /\ AppendJob(b, j, s, t, consent).target = [b.target EXCEPT ![j] = t]
           /\ AppendJob(b, j, s, t, consent).repo = b.repo
BY DEF AppendJob, Assessment

-----------------------------------------------------------------------------
(* Requests.                                                               *)

\* A new assessment's id is in no row and in no one's hands.
LEMMA EnforceAssessmentLimitSerial ==
    ASSUME TypeInv, TypeInv', SerialInv, NEW w \in Workers, NEW a \in Assessments,
           EnforceAssessmentLimit(w, a)
    PROVE  SerialInv'
<1>1. /\ Begin(w, "insert", a, None, NewAssessment) /\ "insert" \in PC \ {"idle"}
      /\ UNCHANGED <<stored, payload, disk, gone>> /\ a \notin used /\ used' = used \cup {a}
  BY DEF EnforceAssessmentLimit, Draw, store, PC
<1>2. a \notin stored /\ a \notin gone
  BY <1>1 DEF SerialInv, RowInv, Known
<1>3. \A v \in Workers : at[v] # a
  BY <1>1, NoneAssumption DEF SerialInv, InStep, Resting
<1>4. /\ pc'[w] = "insert" /\ at'[w] = a /\ item'[w] = None /\ copy'[w] = NewAssessment
  BY <1>1 DEF Begin, TypeInv, TypeOK
<1>5. InStep(w)'
  BY <1>1, <1>2, <1>4 DEF InStep, Resting, Creating, Deleting, Ingesting, Scanning, RepoPC, JobPC,
     BeforeScan, DuringScan
<1> QED
  BY <1>1, <1>3, <1>5, NewAssessmentIds, BeginSerial

\* A deletion is alone with the row it read ...
LEMMA ReadForDeletionSerial ==
    ASSUME Serial, TypeInv, TypeInv', SerialInv, NEW w \in Workers, NEW a \in Assessments,
           ReadForDeletion(w, a)
    PROVE  SerialInv'
<1>1. /\ Begin(w, "delete_row", a, None, payload[a]) /\ "delete_row" \in PC \ {"idle"}
      /\ UNCHANGED <<stored, payload, disk, gone, used>> /\ a \in stored
      /\ \A v \in Workers : at[v] # a
  BY DEF ReadForDeletion, Admits, store, PC
<1>2. a \in used
  BY <1>1 DEF SerialInv, RowInv
<1>3. pc'[w] = "delete_row" /\ at'[w] = a /\ item'[w] = None /\ copy'[w] = payload[a]
  BY <1>1 DEF Begin, TypeInv, TypeOK
<1>4. InStep(w)'
  BY <1>1, <1>2, <1>3 DEF InStep, Resting, Creating, Deleting, Ingesting, Scanning, RepoPC, JobPC,
     BeforeScan, DuringScan
<1> QED
  BY <1>1, <1>2, <1>4, BeginSerial

\* ... and so is the removal of a repository ...
LEMMA ReadForRemovalSerial ==
    ASSUME Serial, TypeInv, TypeInv', SerialInv, NEW w \in Workers, NEW a \in Assessments,
           NEW r \in Repos, ReadForRemoval(w, a, r)
    PROVE  SerialInv'
<1>1. /\ Begin(w, "save_removal", a, r, payload[a]) /\ "save_removal" \in PC \ {"idle"}
      /\ UNCHANGED <<stored, payload, disk, gone, used>> /\ a \in stored
      /\ payload[a].repo[r] # "none"
      /\ \A v \in Workers : at[v] # a
  BY DEF ReadForRemoval, Admits, store, PC
<1>2. a \in used /\ r \notin gone /\ r \in Ids(payload[a])
  BY <1>1 DEF SerialInv, RowInv, Ids
<1>3. pc'[w] = "save_removal" /\ at'[w] = a /\ item'[w] = r /\ copy'[w] = payload[a]
  BY <1>1 DEF Begin, TypeInv, TypeOK
<1>4. InStep(w)'
  BY <1>1, <1>2, <1>3 DEF InStep, Resting, Creating, Deleting, Ingesting, Scanning, RepoPC, JobPC,
     BeforeScan, DuringScan
<1> QED
  BY <1>1, <1>2, <1>4, BeginSerial

\* ... an ingestion, whose repository is new ...
LEMMA ReadForIngestionSerial ==
    ASSUME Serial, TypeInv, TypeInv', SerialInv, NEW w \in Workers, NEW a \in Assessments,
           NEW r \in Repos, ReadForIngestion(w, a, r)
    PROVE  SerialInv'
<1>1. PICK c : c = SetRepo(payload[a], r, "pending")
  OBVIOUS
<1>2. /\ Begin(w, "save_new_repo", a, r, c) /\ "save_new_repo" \in PC \ {"idle"}
      /\ UNCHANGED <<stored, payload, disk, gone>> /\ a \in stored
      /\ r \notin used /\ used' = used \cup {r}
      /\ \A v \in Workers : at[v] # a
  BY <1>1 DEF ReadForIngestion, Admits, Draw, store, PC
<1>3. a \in used /\ r \notin gone /\ payload[a] \in Assessment
  BY <1>2 DEF SerialInv, RowInv, Known, TypeInv, TypeOK
<1>4. payload[a].repo[r] = "none"
  BY <1>2 DEF SerialInv, Known, Ids
<1>5. RepoMove(payload[a], c, r, "none", "pending")
  BY <1>1, <1>3, <1>4, SetRepoFields DEF RepoMove, RepositoryIngestStatus
<1>6. Ids(c) \subseteq Ids(payload[a]) \cup {r} /\ r \in Ids(c)
  BY <1>3, <1>5, RepoMoveIds
<1>7. pc'[w] = "save_new_repo" /\ at'[w] = a /\ item'[w] = r /\ copy'[w] = c
  BY <1>2 DEF Begin, TypeInv, TypeOK
<1>8. InStep(w)'
  BY <1>2, <1>3, <1>5, <1>6, <1>7 DEF InStep, Resting, Creating, Deleting, Ingesting, Scanning,
     RepoPC, JobPC, BeforeScan, DuringScan, RepoMove
<1> QED
  BY <1>2, <1>3, <1>6, <1>8, BeginSerial

\* ... a scan, which has read nothing yet ...
LEMMA EnforceScanJobLimitSerial ==
    ASSUME Serial, TypeInv, TypeInv', SerialInv, NEW w \in Workers, NEW a \in Assessments,
           EnforceScanJobLimit(w, a)
    PROVE  SerialInv'
<1>1. /\ Begin(w, "read_job", a, None, NewAssessment) /\ "read_job" \in PC \ {"idle"}
      /\ UNCHANGED <<stored, payload, disk, gone, used>> /\ a \in used
      /\ \A v \in Workers : at[v] # a
  BY DEF EnforceScanJobLimit, Admits, store, PC
<1>2. pc'[w] = "read_job" /\ at'[w] = a /\ item'[w] = None /\ copy'[w] = NewAssessment
  BY <1>1 DEF Begin, TypeInv, TypeOK
<1>3. InStep(w)'
  BY <1>1, <1>2 DEF InStep, Resting, Creating, Deleting, Ingesting, Scanning, RepoPC, JobPC,
     BeforeScan, DuringScan
<1> QED
  BY <1>1, <1>3, NewAssessmentIds, BeginSerial

\* ... and a Trivy scan, whose job is new.
LEMMA ReadForTrivyScanSerial ==
    ASSUME Serial, TypeInv, TypeInv', SerialInv, NEW w \in Workers, NEW a \in Assessments,
           NEW j \in Jobs, ReadForTrivyScan(w, a, j)
    PROVE  SerialInv'
<1>1. PICK c : c = AppendJob(payload[a], j, "running", External, "absent")
  OBVIOUS
<1>2. /\ Begin(w, "save_trivy_job", a, j, c) /\ "save_trivy_job" \in PC \ {"idle"}
      /\ UNCHANGED <<stored, payload, disk, gone>> /\ a \in stored
      /\ j \notin used /\ used' = used \cup {j}
      /\ \A v \in Workers : at[v] # a
  BY <1>1 DEF ReadForTrivyScan, Admits, Draw, store, PC
<1>3. a \in used /\ payload[a] \in Assessment
  BY <1>2 DEF SerialInv, RowInv, TypeInv, TypeOK
<1>4. payload[a].job[j] = "none"
  BY <1>2 DEF SerialInv, Known, Ids
<1>5. /\ c.job = [payload[a].job EXCEPT ![j] = "running"] /\ c.repo = payload[a].repo
      /\ c.target = [payload[a].target EXCEPT ![j] = External]
  <2>1. "running" \in ScanStatus /\ External \in Targets /\ "absent" \in Consent
    BY DEF ScanStatus, Targets, Consent
  <2> QED
    BY <1>1, <1>3, <2>1, AppendJobMove
<1>6. JobMove(payload[a], c, j, "none", "running") /\ TargetReady(c, j)
  BY <1>3, <1>4, <1>5, ExternalAssumption DEF JobMove, TargetReady, Assessment
<1>7. Ids(c) \subseteq Ids(payload[a]) \cup {j} /\ j \in Ids(c)
  BY <1>3, <1>6, JobMoveIds
<1>8. pc'[w] = "save_trivy_job" /\ at'[w] = a /\ item'[w] = j /\ copy'[w] = c
  BY <1>2 DEF Begin, TypeInv, TypeOK
<1>9. InStep(w)'
  BY <1>2, <1>3, <1>6, <1>7, <1>8 DEF InStep, Resting, Creating, Deleting, Ingesting, Scanning,
     RepoPC, JobPC, BeforeScan, DuringScan, JobMove, TargetReady
<1> QED
  BY <1>2, <1>3, <1>7, <1>9, BeginSerial

-----------------------------------------------------------------------------
(* Saves.                                                                  *)

\* A save that moves the worker's repository a stage.
LEMMA SaveRepoSerial ==
    ASSUME TypeInv, TypeInv', SerialInv, NEW w \in Workers, pc[w] \in RepoPC,
           NEW from, NEW to, RepoMove(payload[at[w]], copy[w], item[w], from, to),
           to = "ready" => item[w] \in disk, Save(at[w], copy[w]),
           \A v \in Workers \ {w} : /\ pc'[v] = pc[v] /\ at'[v] = at[v]
                                   /\ item'[v] = item[v] /\ copy'[v] = copy[v],
           at'[w] \in {at[w], None}, copy'[w] \in {copy[w], NewAssessment},
           UNCHANGED <<disk, used, gone>>, InStep(w)'
    PROVE  SerialInv'
<1>1. pc[w] # "idle" /\ item[w] \in Repos
  BY DEF RepoPC, TypeInv, WorkerShape
<1>2. PICK a \in Assessments : a = at[w]
  BY <1>1, BusyAlone
<1>3. /\ RowInv(a) /\ payload[a] \in Assessment /\ copy[w] \in Assessment
      /\ a \in stored /\ item[w] \notin gone
  BY <1>1, <1>2, BusyAlone DEF InStep, Ingesting
<1>4. stored' = stored /\ payload' = [payload EXCEPT ![a] = copy[w]] /\ payload'[a] = copy[w]
  BY <1>2, <1>3 DEF Save, TypeInv, TypeOK
<1>5. Ids(copy'[w]) \subseteq Ids(copy[w])
  BY NewAssessmentIds
<1>6. \A r \in Repos : copy[w].repo[r] = IF r = item[w] THEN to ELSE payload[a].repo[r]
  BY <1>1, <1>2, <1>3 DEF RepoMove, Assessment
<1>7. LocalPaths(copy[w]) \subseteq disk
  BY <1>3, <1>6 DEF RowInv, LocalPaths
<1>8. RowInv(a)'
  BY <1>3, <1>4, <1>6, <1>7 DEF RowInv
<1> QED
  BY <1>1, <1>2, <1>4, <1>5, <1>8, SaveSerial

\* A save that moves the worker's job a stage.
LEMMA SaveJobSerial ==
    ASSUME TypeInv, TypeInv', SerialInv, NEW w \in Workers, pc[w] \in JobPC,
           NEW b \in Assessment, NEW from, NEW to,
           JobMove(payload[at[w]], b, item[w], from, to), Save(at[w], b),
           \A v \in Workers \ {w} : /\ pc'[v] = pc[v] /\ at'[v] = at[v]
                                   /\ item'[v] = item[v] /\ copy'[v] = copy[v],
           at'[w] = at[w], copy'[w] \in {copy[w], b}, UNCHANGED <<disk, used, gone>>, InStep(w)'
    PROVE  SerialInv'
<1>1. pc[w] # "idle" /\ item[w] \in Jobs /\ item[w] # None
  BY NoneAssumption DEF JobPC, BeforeScan, DuringScan, TypeInv, WorkerShape
<1>2. PICK a \in Assessments : a = at[w]
  BY <1>1, BusyAlone
<1>3. /\ RowInv(a) /\ payload[a] \in Assessment /\ a \in stored /\ item[w] \in Ids(copy[w])
  BY <1>1, <1>2, BusyAlone DEF InStep, Scanning, Resting
<1>4. stored' = stored /\ payload' = [payload EXCEPT ![a] = b] /\ payload'[a] = b
  BY <1>2, <1>3 DEF Save, TypeInv, TypeOK
<1>5. Ids(b) \subseteq Ids(payload[a]) \cup {item[w]}
  BY <1>1, <1>2, <1>3, JobMoveIds
<1>6. Ids(b) \subseteq Ids(payload[a]) \cup Ids(copy[w])
  BY <1>3, <1>5
<1>7. Ids(copy'[w]) \subseteq Ids(payload[a]) \cup Ids(copy[w])
  BY <1>6
<1>8. b.repo = payload[a].repo
  BY <1>2 DEF JobMove
<1>9. RowInv(a)'
  BY <1>3, <1>4, <1>8 DEF RowInv, LocalPaths
<1>10. gone' \subseteq gone \cup {a} \cup (Repos \cap Ids(copy[w]))
  OBVIOUS
<1>11. \A x \in Assessments \ {a} : x \in stored' <=> x \in stored
  BY <1>4
<1> QED
  BY <1>1, <1>2, <1>4, <1>6, <1>7, <1>9, <1>10, <1>11, SaveSerial

\* The row that is inserted is new.
LEMMA InsertAssessmentSerial ==
    ASSUME TypeInv, TypeInv', SerialInv, NEW w \in Workers, InsertAssessment(w)
    PROVE  SerialInv'
<1>1. pc[w] = "insert" /\ Save(at[w], copy[w]) /\ UNCHANGED <<disk, used, gone>> /\ Finish(w)
  BY DEF InsertAssessment
<1>2. PICK a \in Assessments : a = at[w]
  BY <1>1, BusyAlone
<1>3. a \in used /\ a \notin stored /\ a \notin gone /\ copy[w] = NewAssessment
  BY <1>1, <1>2, BusyAlone DEF InStep, Creating
<1>4. /\ stored' = stored \cup {a} /\ payload' = [payload EXCEPT ![a] = NewAssessment]
      /\ payload'[a] = NewAssessment
  BY <1>1, <1>2, <1>3 DEF Save, TypeInv, TypeOK
<1>5. /\ pc'[w] = "idle" /\ at'[w] = None /\ item'[w] = None /\ copy'[w] = NewAssessment
      /\ \A v \in Workers \ {w} : /\ pc'[v] = pc[v] /\ at'[v] = at[v]
                                  /\ item'[v] = item[v] /\ copy'[v] = copy[v]
  BY <1>1, FinishLocal
<1>6. InStep(w)'
  BY <1>5 DEF InStep, Resting, Creating, Deleting, Ingesting, Scanning, RepoPC, JobPC, BeforeScan,
     DuringScan
<1>7. RowInv(a)'
  BY <1>1, <1>3, <1>4 DEF RowInv, NewAssessment, LocalPaths
<1> QED
  BY <1>1, <1>2, <1>4, <1>5, <1>6, <1>7, NewAssessmentIds, SaveSerial

\* The row that is deleted was there, and is in nobody else's hands.
LEMMA DeleteRowSerial ==
    ASSUME TypeInv, TypeInv', SerialInv, NEW w \in Workers, DeleteRow(w)
    PROVE  SerialInv'
<1>1. /\ Goto(w, "delete_row", "cleanup") /\ Delete(at[w]) /\ gone' = gone \cup {at[w]}
      /\ UNCHANGED <<disk, used, copy>>
  BY DEF DeleteRow
<1>2. /\ pc[w] = "delete_row" /\ pc'[w] = "cleanup" /\ at'[w] = at[w] /\ item'[w] = item[w]
      /\ \A v \in Workers \ {w} : pc'[v] = pc[v] /\ at'[v] = at[v] /\ item'[v] = item[v]
  BY <1>1, GotoLocal
<1>3. PICK a \in Assessments : a = at[w]
  BY <1>2, BusyAlone
<1>4. a \in used /\ a \in stored /\ item[w] = None
  BY <1>2, <1>3, BusyAlone DEF InStep, Deleting, Resting
<1>5. /\ stored' = stored \ {a} /\ payload' = [payload EXCEPT ![a] = NewAssessment]
      /\ payload'[a] = NewAssessment
  BY <1>1, <1>3 DEF Delete, TypeInv, TypeOK
<1>6. InStep(w)'
  BY <1>1, <1>2, <1>3, <1>4, <1>5
     DEF InStep, Resting, Creating, Deleting, Ingesting, Scanning, RepoPC, JobPC, BeforeScan,
         DuringScan
<1>7. RowInv(a)'
  BY <1>5 DEF RowInv
<1>8. /\ gone' \subseteq gone \cup {a} \cup (Repos \cap Ids(copy[w]))
      /\ \A x \in Assessments \ {a} : x \in stored' <=> x \in stored
  BY <1>1, <1>3, <1>5
<1> QED
  BY <1>1, <1>2, <1>3, <1>5, <1>6, <1>7, <1>8, NewAssessmentIds, SaveSerial

\* The row that is saved has lost the one repository.
LEMMA SaveRemovalSerial ==
    ASSUME TypeInv, TypeInv', SerialInv, NEW w \in Workers, SaveRemoval(w)
    PROVE  SerialInv'
<1>1. PICK b, r : b = SetRepo(copy[w], item[w], "none") /\ r = item[w]
  OBVIOUS
<1>2. /\ Goto(w, "save_removal", "cleanup") /\ Save(at[w], b) /\ gone' = gone \cup {r}
      /\ UNCHANGED <<disk, used, copy>>
  BY <1>1 DEF SaveRemoval
<1>3. /\ pc[w] = "save_removal" /\ pc'[w] = "cleanup" /\ at'[w] = at[w] /\ item'[w] = item[w]
      /\ \A v \in Workers \ {w} : pc'[v] = pc[v] /\ at'[v] = at[v] /\ item'[v] = item[v]
  BY <1>2, GotoLocal
<1>4. PICK a \in Assessments : a = at[w]
  BY <1>3, BusyAlone
<1>5. r \in Repos /\ r # None
  BY <1>1, <1>3, NoneAssumption DEF TypeInv, WorkerShape, RepoPC
<1>6. /\ a \in used /\ a \in stored /\ RowInv(a) /\ copy[w] = payload[a] /\ r \in Ids(copy[w])
      /\ payload[a] \in Assessment
  BY <1>1, <1>3, <1>4, <1>5, BusyAlone DEF InStep, Deleting, Ingesting, Resting, RepoPC
<1>7. b \in Assessment /\ b.repo = [payload[a].repo EXCEPT ![r] = "none"] /\ b.job = payload[a].job
  <2>1. "none" \in RepositoryIngestStatus /\ b = SetRepo(payload[a], r, "none")
    BY <1>1, <1>6 DEF RepositoryIngestStatus
  <2> QED
    BY <1>5, <1>6, <2>1, SetRepoFields
<1>8. \A q \in Repos : b.repo[q] = IF q = r THEN "none" ELSE payload[a].repo[q]
  BY <1>6, <1>7 DEF Assessment
<1>9. Ids(b) \subseteq Ids(payload[a])
  BY <1>7, <1>8 DEF Ids
<1>10. stored' = stored /\ payload' = [payload EXCEPT ![a] = b] /\ payload'[a] = b
  BY <1>2, <1>4, <1>6 DEF Save, TypeInv, TypeOK
<1>11. InStep(w)'
  BY <1>1, <1>2, <1>3, <1>4, <1>5, <1>6, <1>8, <1>10
     DEF InStep, Resting, Creating, Deleting, Ingesting, Scanning, RepoPC, JobPC, BeforeScan,
         DuringScan
<1>12. RowInv(a)'
  <2>1. a \notin gone'
    BY <1>2, <1>5, <1>6, IdentifiersAssumption DEF RowInv
  <2>2. LocalPaths(b) \subseteq disk
    BY <1>6, <1>8 DEF RowInv, LocalPaths
  <2> QED
    BY <1>2, <1>6, <1>8, <1>10, <2>1, <2>2 DEF RowInv
<1> QED
  BY <1>2, <1>3, <1>4, <1>5, <1>6, <1>9, <1>10, <1>11, <1>12, SaveSerial

\* The row that is saved has the new repository, PENDING.
LEMMA SaveNewRepositorySerial ==
    ASSUME TypeInv, TypeInv', SerialInv, NEW w \in Workers, SaveNewRepository(w)
    PROVE  SerialInv'
<1>1. /\ Goto(w, "save_new_repo", "reload_repo") /\ Save(at[w], copy[w])
      /\ UNCHANGED <<disk, used, gone, copy>>
  BY DEF SaveNewRepository
<1>2. /\ pc[w] = "save_new_repo" /\ pc'[w] = "reload_repo" /\ at'[w] = at[w] /\ item'[w] = item[w]
      /\ \A v \in Workers \ {w} : pc'[v] = pc[v] /\ at'[v] = at[v] /\ item'[v] = item[v]
  BY <1>1, GotoLocal
<1>3. /\ at[w] \in Assessments /\ pc[w] \in RepoPC /\ item[w] \in Repos
      /\ payload[at[w]] \in Assessment /\ InStep(w)
  BY <1>2, BusyAlone DEF RepoPC, TypeInv, WorkerShape
<1>4. /\ RepoMove(payload[at[w]], copy[w], item[w], "none", "pending")
      /\ payload'[at[w]] = copy[w] /\ stored \subseteq stored'
  BY <1>1, <1>2, <1>3 DEF InStep, Ingesting, Save, TypeInv, TypeOK
<1>5. copy[w].repo[item[w]] = "pending"
  BY <1>3, <1>4 DEF RepoMove, Assessment
<1>6. InStep(w)'
  BY <1>1, <1>2, <1>3, <1>4, <1>5
     DEF InStep, Resting, Creating, Deleting, Ingesting, Scanning, RepoPC, JobPC, BeforeScan,
         DuringScan
<1> QED
  BY <1>1, <1>2, <1>3, <1>4, <1>6, SaveRepoSerial

\* The row that is saved has its repository CLONING.
LEMMA SaveCloningSerial ==
    ASSUME TypeInv, TypeInv', SerialInv, NEW w \in Workers, SaveCloning(w)
    PROVE  SerialInv'
<1>1. /\ Goto(w, "save_cloning", "begin_clone") /\ Save(at[w], copy[w])
      /\ UNCHANGED <<disk, used, gone, copy>>
  BY DEF SaveCloning
<1>2. /\ pc[w] = "save_cloning" /\ pc'[w] = "begin_clone" /\ at'[w] = at[w] /\ item'[w] = item[w]
      /\ \A v \in Workers \ {w} : pc'[v] = pc[v] /\ at'[v] = at[v] /\ item'[v] = item[v]
  BY <1>1, GotoLocal
<1>3. /\ at[w] \in Assessments /\ pc[w] \in RepoPC /\ item[w] \in Repos
      /\ payload[at[w]] \in Assessment /\ InStep(w)
  BY <1>2, BusyAlone DEF RepoPC, TypeInv, WorkerShape
<1>4. /\ RepoMove(payload[at[w]], copy[w], item[w], "pending", "cloning")
      /\ payload'[at[w]] = copy[w] /\ stored \subseteq stored'
  BY <1>1, <1>2, <1>3 DEF InStep, Ingesting, Save, TypeInv, TypeOK
<1>5. copy[w].repo[item[w]] = "cloning"
  BY <1>3, <1>4 DEF RepoMove, Assessment
<1>6. InStep(w)'
  BY <1>1, <1>2, <1>3, <1>4, <1>5
     DEF InStep, Resting, Creating, Deleting, Ingesting, Scanning, RepoPC, JobPC, BeforeScan,
         DuringScan
<1>7. /\ at'[w] \in {at[w], None} /\ copy'[w] \in {copy[w], NewAssessment}
      /\ "cloning" = "ready" => item[w] \in disk
      /\ \A v \in Workers \ {w} : /\ pc'[v] = pc[v] /\ at'[v] = at[v]
                                  /\ item'[v] = item[v] /\ copy'[v] = copy[v]
  BY <1>1, <1>2
<1> QED
  BY <1>1, <1>3, <1>4, <1>6, <1>7, SaveRepoSerial

\* A repository that is saved READY has its clone.
LEMMA SaveIngestionSerial ==
    ASSUME TypeInv, TypeInv', SerialInv, NEW w \in Workers, SaveIngestion(w)
    PROVE  SerialInv'
<1>1. /\ pc[w] = "save_ingestion" /\ Save(at[w], copy[w]) /\ UNCHANGED <<disk, used, gone>>
      /\ Finish(w)
  BY DEF SaveIngestion
<1>2. /\ pc'[w] = "idle" /\ at'[w] = None /\ item'[w] = None /\ copy'[w] = NewAssessment
      /\ \A v \in Workers \ {w} : /\ pc'[v] = pc[v] /\ at'[v] = at[v]
                                  /\ item'[v] = item[v] /\ copy'[v] = copy[v]
  BY <1>1, FinishLocal
<1>3. pc[w] \in RepoPC /\ InStep(w)
  BY <1>1, BusyAlone DEF RepoPC
<1>4. PICK s \in {"ready", "failed", "cloning"} :
          /\ RepoMove(payload[at[w]], copy[w], item[w], "cloning", s)
          /\ s = "ready" => item[w] \in disk
  BY <1>1, <1>3 DEF InStep, Ingesting
<1>5. InStep(w)'
  BY <1>2 DEF InStep, Resting, Creating, Deleting, Ingesting, Scanning, RepoPC, JobPC, BeforeScan,
     DuringScan
<1> QED
  BY <1>1, <1>2, <1>3, <1>4, <1>5, SaveRepoSerial

\* The row that is saved has the new job, PENDING.
LEMMA SaveNewJobSerial ==
    ASSUME TypeInv, TypeInv', SerialInv, NEW w \in Workers, SaveNewJob(w)
    PROVE  SerialInv'
<1>1. /\ Goto(w, "save_new_job", "reload_job") /\ Save(at[w], copy[w])
      /\ UNCHANGED <<disk, used, gone, copy>>
  BY DEF SaveNewJob
<1>2. /\ pc[w] = "save_new_job" /\ pc'[w] = "reload_job" /\ at'[w] = at[w] /\ item'[w] = item[w]
      /\ \A v \in Workers \ {w} : pc'[v] = pc[v] /\ at'[v] = at[v] /\ item'[v] = item[v]
  BY <1>1, GotoLocal
<1>3. /\ at[w] \in Assessments /\ pc[w] \in JobPC /\ item[w] \in Jobs
      /\ payload[at[w]] \in Assessment /\ copy[w] \in Assessment /\ InStep(w)
  BY <1>2, BusyAlone DEF JobPC, BeforeScan, TypeInv, WorkerShape
<1>4. /\ JobMove(payload[at[w]], copy[w], item[w], "none", "pending")
      /\ payload'[at[w]] = copy[w] /\ stored \subseteq stored'
  BY <1>1, <1>2, <1>3 DEF InStep, Scanning, Save, TypeInv, TypeOK
<1>5. copy[w].job[item[w]] = "pending"
  BY <1>3, <1>4 DEF JobMove, Assessment
<1>6. InStep(w)'
  BY <1>1, <1>2, <1>3, <1>4, <1>5 DEF InStep, Resting, Creating, Deleting, Ingesting, Scanning,
     RepoPC, JobPC, BeforeScan, DuringScan, TargetReady
<1>7. \A v \in Workers \ {w} : /\ pc'[v] = pc[v] /\ at'[v] = at[v]
                              /\ item'[v] = item[v] /\ copy'[v] = copy[v]
  BY <1>1, <1>2
<1> QED
  BY <1>1, <1>2, <1>3, <1>4, <1>6, <1>7, SaveJobSerial

\* The row that is saved has its job RUNNING.
LEMMA SaveRunningSerial ==
    ASSUME TypeInv, TypeInv', SerialInv, NEW w \in Workers, SaveRunning(w)
    PROVE  SerialInv'
<1>1. /\ Goto(w, "save_running", "execute") /\ Save(at[w], copy[w])
      /\ UNCHANGED <<disk, used, gone, copy>>
  BY DEF SaveRunning
<1>2. /\ pc[w] = "save_running" /\ pc'[w] = "execute" /\ at'[w] = at[w] /\ item'[w] = item[w]
      /\ \A v \in Workers \ {w} : pc'[v] = pc[v] /\ at'[v] = at[v] /\ item'[v] = item[v]
  BY <1>1, GotoLocal
<1>3. /\ at[w] \in Assessments /\ pc[w] \in JobPC /\ item[w] \in Jobs
      /\ payload[at[w]] \in Assessment /\ copy[w] \in Assessment /\ InStep(w)
  BY <1>2, BusyAlone DEF JobPC, DuringScan, TypeInv, WorkerShape
<1>4. /\ JobMove(payload[at[w]], copy[w], item[w], "pending", "running")
      /\ payload'[at[w]] = copy[w] /\ stored \subseteq stored'
  BY <1>1, <1>2, <1>3 DEF InStep, Scanning, Save, TypeInv, TypeOK
<1>5. copy[w].job[item[w]] = "running"
  BY <1>3, <1>4 DEF JobMove, Assessment
<1>6. InStep(w)'
  BY <1>1, <1>2, <1>3, <1>4, <1>5 DEF InStep, Resting, Creating, Deleting, Ingesting, Scanning,
     RepoPC, JobPC, BeforeScan, DuringScan, TargetReady
<1>7. \A v \in Workers \ {w} : /\ pc'[v] = pc[v] /\ at'[v] = at[v]
                              /\ item'[v] = item[v] /\ copy'[v] = copy[v]
  BY <1>1, <1>2
<1> QED
  BY <1>1, <1>2, <1>3, <1>4, <1>6, <1>7, SaveJobSerial

\* The row that is saved has the Trivy job, RUNNING at once.
LEMMA SaveTrivyJobSerial ==
    ASSUME TypeInv, TypeInv', SerialInv, NEW w \in Workers, SaveTrivyJob(w)
    PROVE  SerialInv'
<1>1. /\ Goto(w, "save_trivy_job", "execute") /\ Save(at[w], copy[w])
      /\ UNCHANGED <<disk, used, gone, copy>>
  BY DEF SaveTrivyJob
<1>2. /\ pc[w] = "save_trivy_job" /\ pc'[w] = "execute" /\ at'[w] = at[w] /\ item'[w] = item[w]
      /\ \A v \in Workers \ {w} : pc'[v] = pc[v] /\ at'[v] = at[v] /\ item'[v] = item[v]
  BY <1>1, GotoLocal
<1>3. /\ at[w] \in Assessments /\ pc[w] \in JobPC /\ item[w] \in Jobs
      /\ payload[at[w]] \in Assessment /\ copy[w] \in Assessment /\ InStep(w)
  BY <1>2, BusyAlone DEF JobPC, DuringScan, TypeInv, WorkerShape
<1>4. /\ JobMove(payload[at[w]], copy[w], item[w], "none", "running")
      /\ payload'[at[w]] = copy[w] /\ stored \subseteq stored'
  BY <1>1, <1>2, <1>3 DEF InStep, Scanning, Save, TypeInv, TypeOK
<1>5. copy[w].job[item[w]] = "running"
  BY <1>3, <1>4 DEF JobMove, Assessment
<1>6. InStep(w)'
  BY <1>1, <1>2, <1>3, <1>4, <1>5 DEF InStep, Resting, Creating, Deleting, Ingesting, Scanning,
     RepoPC, JobPC, BeforeScan, DuringScan, TargetReady
<1>7. \A v \in Workers \ {w} : /\ pc'[v] = pc[v] /\ at'[v] = at[v]
                              /\ item'[v] = item[v] /\ copy'[v] = copy[v]
  BY <1>1, <1>2
<1> QED
  BY <1>1, <1>2, <1>3, <1>4, <1>6, <1>7, SaveJobSerial

\* The row that is saved has its job over; no change was lost meanwhile.
LEMMA FinishScanSerial ==
    ASSUME TypeInv, TypeInv', SerialInv, NEW w \in Workers, NEW outcome \in Terminal,
           FinishScan(w, outcome)
    PROVE  SerialInv'
<1>1. PICK b : b = FinishJob(copy[w], item[w], outcome)
  OBVIOUS
<1>2. /\ Goto(w, "execute", "notify") /\ Save(at[w], b) /\ copy' = [copy EXCEPT ![w] = b]
      /\ UNCHANGED <<disk, used, gone>>
  BY <1>1 DEF FinishScan
<1>3. /\ pc[w] = "execute" /\ pc'[w] = "notify" /\ at'[w] = at[w] /\ item'[w] = item[w]
      /\ \A v \in Workers \ {w} : pc'[v] = pc[v] /\ at'[v] = at[v] /\ item'[v] = item[v]
  BY <1>2, GotoLocal
<1>4. /\ at[w] \in Assessments /\ pc[w] \in JobPC /\ item[w] \in Jobs
      /\ payload[at[w]] \in Assessment /\ copy[w] \in Assessment /\ InStep(w)
  BY <1>3, BusyAlone DEF JobPC, DuringScan, TypeInv, WorkerShape
<1>5. /\ copy[w] = payload[at[w]] /\ copy[w].job[item[w]] = "running" /\ at[w] \in stored
      /\ TargetReady(copy[w], item[w])
  BY <1>3, <1>4 DEF InStep, Scanning
<1>6. /\ b \in Assessment /\ b.job = [copy[w].job EXCEPT ![item[w]] = outcome]
      /\ b.repo = copy[w].repo /\ b.target = copy[w].target
  <2>1. b \in Assessment
    BY <1>1, <1>4, FinishJobFields
  <2>2. b.job = [copy[w].job EXCEPT ![item[w]] = outcome]
    BY <1>1, <1>4, FinishJobFields, ZenonT(60)
  <2>3. b.repo = copy[w].repo /\ b.target = copy[w].target
    BY <1>1, <1>4, FinishJobKeeps
  <2> QED
    BY <2>1, <2>2, <2>3
<1>7. JobMove(payload[at[w]], b, item[w], "running", outcome)
  BY <1>5, <1>6 DEF JobMove
<1>8. b.job[item[w]] = outcome /\ outcome # "none"
  BY <1>4, <1>6 DEF Assessment, Terminal
<1>9. item[w] \in Ids(b)
  BY <1>4, <1>8 DEF Ids
<1>10. payload'[at[w]] = b /\ stored \subseteq stored' /\ copy'[w] = b
  BY <1>2, <1>4 DEF Save, TypeInv, TypeOK
<1>11. InStep(w)'
  <2>1. TargetReady(b, item[w])
    BY <1>5, <1>6 DEF TargetReady
  <2>2. Resting(w)' /\ Creating(w)' /\ Deleting(w)' /\ Ingesting(w)'
    BY <1>2, <1>3, <1>4, <1>9, <1>10
       DEF InStep, Resting, Creating, Deleting, Ingesting, RepoPC
  <2>3. Scanning(w)'
    BY <1>3, <1>4, <1>5, <1>8, <1>10, <2>1
       DEF Scanning, JobPC, BeforeScan, DuringScan, TargetReady
  <2> QED
    BY <2>2, <2>3 DEF InStep
<1>12. \A v \in Workers \ {w} : /\ pc'[v] = pc[v] /\ at'[v] = at[v]
                               /\ item'[v] = item[v] /\ copy'[v] = copy[v]
  BY <1>2, <1>3 DEF TypeInv, TypeOK
<1> QED
  BY <1>2, <1>3, <1>4, <1>6, <1>7, <1>10, <1>11, <1>12, SaveJobSerial

-----------------------------------------------------------------------------
(* Steps that read, or touch the clones, the audit log or the receiver.    *)

\* Only clones that no row calls READY are removed.
LEMMA CleanupClonesSerial ==
    ASSUME TypeInv, TypeInv', SerialInv, NEW w \in Workers, CleanupClones(w)
    PROVE  SerialInv'
<1>1. /\ pc[w] = "cleanup" /\ Finish(w) /\ UNCHANGED <<stored, payload, used, gone>>
      /\ disk \ disk' \subseteq LocalPaths(copy[w])
      /\ item[w] # None => disk \ disk' \subseteq {item[w]}
  BY DEF CleanupClones, store
<1>2. LocalPaths(copy[w]) \subseteq Ids(copy[w])
  BY DEF LocalPaths, Ids
<1>3. RowInv(at[w]) /\ Deleting(w)
  BY <1>1, BusyAlone DEF InStep
<1>4. at[w] \in stored => LocalPaths(payload[at[w]]) \subseteq disk'
  BY <1>1, <1>3 DEF RowInv, Deleting, LocalPaths
<1> QED
  BY <1>1, <1>2, <1>4, EndSerial

\* The background task finds the repository it was started for.
LEMMA ReloadRepositorySerial ==
    ASSUME TypeInv, TypeInv', SerialInv, NEW w \in Workers, ReloadRepository(w)
    PROVE  SerialInv'
<1>1. pc[w] = "reload_repo" /\ UNCHANGED <<stored, payload, disk, used, gone>>
  BY DEF ReloadRepository, store
<1>2. /\ at[w] \in Assessments /\ payload[at[w]] \in Assessment /\ InStep(w) /\ RowInv(at[w])
      /\ item[w] \in Repos
  BY <1>1, BusyAlone DEF TypeInv, WorkerShape, RepoPC
<1>3. CASE Finish(w)
  BY <1>1, <1>2, <1>3, EndSerial DEF RowInv
<1>4. ASSUME NEW c, c = SetRepo(payload[at[w]], item[w], "cloning"),
             Goto(w, "reload_repo", "save_cloning"), copy' = [copy EXCEPT ![w] = c]
      PROVE  SerialInv'
  <2>1. RepoMove(payload[at[w]], c, item[w], "pending", "cloning")
    BY <1>1, <1>2, <1>4, SetRepoFields
       DEF RepoMove, RepositoryIngestStatus, InStep, Ingesting
  <2>2. Ids(c) \subseteq Ids(payload[at[w]]) \cup {item[w]} /\ item[w] \in Ids(c)
    BY <1>2, <2>1 DEF RepoMove, Ids, Assessment
  <2>3. /\ pc'[w] = "save_cloning" /\ at'[w] = at[w] /\ item'[w] = item[w] /\ copy'[w] = c
        /\ \A v \in Workers \ {w} : /\ pc'[v] = pc[v] /\ at'[v] = at[v]
                                    /\ item'[v] = item[v] /\ copy'[v] = copy[v]
    BY <1>4, GotoLocal DEF TypeInv, TypeOK
  <2>4. InStep(w)'
    BY <1>1, <1>2, <2>1, <2>2, <2>3 DEF InStep, Resting, Creating, Deleting, Ingesting, Scanning,
       RepoPC, JobPC, BeforeScan, DuringScan, RepoMove
  <2>5. item[w] \in Ids(copy[w])
    BY <1>2, NoneAssumption DEF InStep, Resting
  <2> QED
    BY <1>1, <2>2, <2>3, <2>4, <2>5, GoOnSerial
<1> QED
  BY <1>3, <1>4 DEF ReloadRepository

\* The end of a clone, or its refusal, changes the copy.
LEMMA OutcomeSerial ==
    ASSUME TypeInv, TypeInv', SerialInv, NEW w \in Workers, NEW outcome \in {"ready", "failed",
           "cloning"},
           NEW p \in {"begin_clone", "end_clone"}, Goto(w, p, "save_ingestion"),
           copy' = [copy EXCEPT ![w] = SetRepo(@, item[w], outcome)],
           UNCHANGED <<stored, payload, used, gone>>,
           disk' = disk \/ (outcome = "failed" /\ disk' = disk \ {item[w]}),
           outcome = "ready" => p = "end_clone"
    PROVE  SerialInv'
<1>1. /\ pc[w] = p /\ pc'[w] = "save_ingestion" /\ at'[w] = at[w] /\ item'[w] = item[w]
      /\ \A v \in Workers \ {w} : /\ pc'[v] = pc[v] /\ at'[v] = at[v]
                                  /\ item'[v] = item[v] /\ copy'[v] = copy[v]
  BY GotoLocal DEF TypeInv, TypeOK
<1>2. /\ at[w] \in Assessments /\ payload[at[w]] \in Assessment /\ InStep(w) /\ RowInv(at[w])
      /\ item[w] \in Repos /\ item[w] # None /\ copy[w] \in Assessment
  BY <1>1, BusyAlone, NoneAssumption DEF TypeInv, WorkerShape, RepoPC
<1>3. PICK a, c : a = at[w] /\ c = SetRepo(copy[w], item[w], outcome)
  OBVIOUS
<1>4. copy'[w] = c
  BY <1>3 DEF TypeInv, TypeOK
<1>5. /\ copy[w] = payload[a] /\ payload[a].repo[item[w]] = "cloning" /\ item[w] \in Ids(copy[w])
      /\ a \in stored /\ item[w] \notin gone /\ (outcome = "ready" => item[w] \in disk)
  BY <1>1, <1>2, <1>3 DEF InStep, Ingesting, Resting, RepoPC
<1>6. RepoMove(payload[a], c, item[w], "cloning", outcome)
  <2>1. outcome \in RepositoryIngestStatus
    BY DEF RepositoryIngestStatus
  <2> QED
    BY <1>2, <1>3, <1>5, <2>1, SetRepoFields DEF RepoMove
<1>7. Ids(c) \subseteq Ids(payload[a]) \cup {item[w]} /\ item[w] \in Ids(c)
  <2>1. payload[a] \in Assessment /\ outcome # "none"
    BY <1>2, <1>3
  <2> QED
    BY <1>2, <1>6, <2>1, RepoMoveIds
<1>8. outcome = "ready" => item[w] \in disk'
  BY <1>5
<1>9. InStep(w)'
  BY <1>1, <1>2, <1>3, <1>4, <1>5, <1>6, <1>7, <1>8 DEF InStep, Resting, Creating, Deleting,
     Ingesting, Scanning, RepoPC, JobPC, BeforeScan, DuringScan, RepoMove
<1>10. disk \ disk' \subseteq {item[w]}
  OBVIOUS
<1>11. Turn(w, a)
  BY <1>1, <1>3, <1>4, <1>5, <1>7, <1>10, BusyAlone DEF Turn
<1>12. RowInv(a)'
  BY <1>2, <1>3, <1>5, <1>10 DEF RowInv, LocalPaths
<1> QED
  BY <1>2, <1>3, <1>9, <1>11, <1>12, TurnKeeps

\* A clone that appears is one that its row calls CLONING.
LEMMA BeginCloneSerial ==
    ASSUME TypeInv, TypeInv', SerialInv, NEW w \in Workers, BeginClone(w)
    PROVE  SerialInv'
<1>1. /\ Goto(w, "begin_clone", "end_clone") /\ disk' = disk \cup {item[w]}
      /\ UNCHANGED <<stored, payload, used, gone, copy>>
  BY DEF BeginClone, store
<1>2. /\ pc[w] = "begin_clone" /\ pc'[w] = "end_clone" /\ at'[w] = at[w] /\ item'[w] = item[w]
      /\ \A v \in Workers \ {w} : pc'[v] = pc[v] /\ at'[v] = at[v] /\ item'[v] = item[v]
  BY <1>1, GotoLocal
<1>3. InStep(w)
  BY <1>2, BusyAlone
<1>4. InStep(w)'
  BY <1>1, <1>2, <1>3 DEF InStep, Resting, Creating, Deleting, Ingesting, Scanning, RepoPC, JobPC,
     BeforeScan, DuringScan
<1> QED
  BY <1>1, <1>2, <1>4, GoOnSerial

\* The job that is drawn is new, and its clone is READY.
LEMMA ReadForScanJobSerial ==
    ASSUME TypeInv, TypeInv', SerialInv, NEW w \in Workers, NEW j \in Jobs, NEW t \in Targets,
           NEW consent \in Consent, ReadForScanJob(w, j, t, consent)
    PROVE  SerialInv'
<1>1. PICK a, b, c : /\ a = at[w] /\ b = StartAnalysis(payload[a])
                     /\ c = AppendJob(b, j, "pending", t, consent)
  OBVIOUS
<1>2. PICK q \in {"record_consent", "save_new_job"} : pc' = [pc EXCEPT ![w] = q]
  BY DEF ReadForScanJob
<1>3. /\ pc[w] = "read_job" /\ a \in stored /\ (t \in Repos => payload[a].repo[t] = "ready")
      /\ j \notin used /\ used' = used \cup {j} /\ item' = [item EXCEPT ![w] = j]
      /\ copy' = [copy EXCEPT ![w] = c] /\ UNCHANGED <<stored, payload, disk, at, gone>>
  BY <1>1 DEF ReadForScanJob, Draw, store
<1>4. /\ a \in Assessments /\ payload[a] \in Assessment /\ InStep(w) /\ a \in used
  BY <1>1, <1>3, BusyAlone
<1>5. b \in Assessment /\ b.job = payload[a].job /\ b.repo = payload[a].repo
  BY <1>1, <1>4, StartAnalysisFields
<1>6. /\ c.job = [b.job EXCEPT ![j] = "pending"] /\ c.target = [b.target EXCEPT ![j] = t]
      /\ c.repo = b.repo
  <2>1. "pending" \in ScanStatus
    BY DEF ScanStatus
  <2> QED
    BY <1>1, <1>5, <2>1, AppendJobMove
<1>7. payload[a].job[j] = "none"
  BY <1>3, <1>4 DEF SerialInv, Known, Ids
<1>8. JobMove(payload[a], c, j, "none", "pending")
  BY <1>5, <1>6, <1>7 DEF JobMove
<1>9. TargetReady(c, j)
  BY <1>3, <1>5, <1>6 DEF TargetReady, Assessment
<1>10. Ids(c) \subseteq Ids(payload[a]) \cup {j} /\ j \in Ids(c)
  BY <1>4, <1>8, JobMoveIds
<1>11. /\ pc'[w] = q /\ at'[w] = a /\ item'[w] = j /\ copy'[w] = c
       /\ \A v \in Workers \ {w} : /\ pc'[v] = pc[v] /\ at'[v] = at[v]
                                   /\ item'[v] = item[v] /\ copy'[v] = copy[v]
  BY <1>1, <1>2, <1>3 DEF TypeInv, TypeOK
<1>12. InStep(w)'
  BY <1>3, <1>4, <1>8, <1>9, <1>10, <1>11 DEF InStep, Resting, Creating, Deleting, Ingesting,
     Scanning, RepoPC, JobPC, BeforeScan, DuringScan, JobMove, TargetReady
<1> QED
  BY <1>1, <1>3, <1>10, <1>11, <1>12, GoOnSerial

\* Recording consent changes no row.
LEMMA RecordConsentSerial ==
    ASSUME TypeInv, TypeInv', SerialInv, NEW w \in Workers, RecordConsent(w)
    PROVE  SerialInv'
<1>1. /\ Goto(w, "record_consent", "save_new_job")
      /\ UNCHANGED <<stored, payload, disk, used, gone, copy>>
  BY DEF RecordConsent, store
<1>2. /\ pc[w] = "record_consent" /\ pc'[w] = "save_new_job" /\ at'[w] = at[w] /\ item'[w] = item[w]
      /\ \A v \in Workers \ {w} : pc'[v] = pc[v] /\ at'[v] = at[v] /\ item'[v] = item[v]
  BY <1>1, GotoLocal
<1>3. InStep(w)
  BY <1>2, BusyAlone
<1>4. InStep(w)'
  BY <1>1, <1>2, <1>3 DEF InStep, Resting, Creating, Deleting, Ingesting, Scanning, RepoPC, JobPC,
     BeforeScan, DuringScan, JobMove, TargetReady
<1> QED
  BY <1>1, <1>2, <1>4, GoOnSerial

\* The job that is executed is the one that was created.
LEMMA ReloadJobSerial ==
    ASSUME TypeInv, TypeInv', SerialInv, NEW w \in Workers, ReloadJob(w)
    PROVE  SerialInv'
<1>1. pc[w] = "reload_job" /\ UNCHANGED <<stored, payload, disk, used, gone>>
  BY DEF ReloadJob, store
<1>2. /\ at[w] \in Assessments /\ payload[at[w]] \in Assessment /\ InStep(w) /\ RowInv(at[w])
      /\ item[w] \in Jobs
  BY <1>1, BusyAlone DEF TypeInv, WorkerShape, JobPC, BeforeScan
<1>3. CASE Finish(w)
  BY <1>1, <1>2, <1>3, EndSerial DEF RowInv
<1>4. ASSUME NEW c, c = SetJob(payload[at[w]], item[w], "running"),
             Goto(w, "reload_job", "save_running"), copy' = [copy EXCEPT ![w] = c]
      PROVE  SerialInv'
  <2>1. /\ copy[w] = payload[at[w]] /\ copy[w].job[item[w]] = "pending" /\ at[w] \in stored
        /\ TargetReady(copy[w], item[w])
    BY <1>1, <1>2 DEF InStep, Scanning, JobPC, BeforeScan
  <2>2. /\ c.job = [copy[w].job EXCEPT ![item[w]] = "running"] /\ c.repo = copy[w].repo
        /\ c.target = copy[w].target
    <3>1. "running" \in ScanStatus /\ c = SetJob(copy[w], item[w], "running")
      BY <1>4, <2>1 DEF ScanStatus
    <3> QED
      BY <1>2, <2>1, <3>1, SetJobFields
  <2>3. JobMove(payload[at[w]], c, item[w], "pending", "running") /\ TargetReady(c, item[w])
    BY <2>1, <2>2 DEF JobMove, TargetReady
  <2>4. Ids(c) \subseteq Ids(payload[at[w]]) \cup {item[w]} /\ item[w] \in Ids(c)
    BY <1>2, <2>3, JobMoveIds
  <2>5. /\ pc'[w] = "save_running" /\ at'[w] = at[w] /\ item'[w] = item[w] /\ copy'[w] = c
        /\ \A v \in Workers \ {w} : /\ pc'[v] = pc[v] /\ at'[v] = at[v]
                                    /\ item'[v] = item[v] /\ copy'[v] = copy[v]
    BY <1>4, GotoLocal DEF TypeInv, TypeOK
  <2>6. InStep(w)'
    BY <1>1, <1>2, <2>1, <2>3, <2>4, <2>5 DEF InStep, Resting, Creating, Deleting, Ingesting,
       Scanning, RepoPC, JobPC, BeforeScan, DuringScan, JobMove, TargetReady
  <2>7. item[w] \in Ids(copy[w])
    BY <1>2, NoneAssumption DEF InStep, Resting
  <2> QED
    BY <1>1, <2>4, <2>5, <2>6, <2>7, GoOnSerial
<1> QED
  BY <1>3, <1>4 DEF ReloadJob

\* Requests that end with nothing more to write.
LEMMA QuietEndSerial ==
    ASSUME TypeInv, TypeInv', SerialInv, NEW w \in Workers, pc[w] # "idle", Finish(w),
           UNCHANGED <<stored, payload, disk, used, gone>>
    PROVE  SerialInv'
<1>1. RowInv(at[w])
  BY BusyAlone
<1> QED
  BY <1>1, EndSerial DEF RowInv

\* At first there are no rows and no requests.
LEMMA InitSerial == Init => SerialInv
<1> SUFFICES ASSUME Init
             PROVE  SerialInv
  OBVIOUS
<1>1. \A w \in Workers : InStep(w)
  BY IdleInStep DEF Init
<1>2. \A a \in Assessments : Ids(payload[a]) = {}
  BY NewAssessmentIds DEF Init
<1>3. \A w \in Workers : Ids(copy[w]) = {} /\ at[w] = None
  BY NewAssessmentIds DEF Init
<1>4. Known /\ Apart /\ Alone
  BY <1>2, <1>3 DEF Known, Apart, Alone, Init
<1>5. \A a \in Assessments : RowInv(a)
  BY DEF Init, RowInv
<1> QED
  BY <1>1, <1>4, <1>5 DEF SerialInv

\* Every step keeps the invariant ...
LEMMA NextSerial ==
    ASSUME Serial, TypeInv, TypeInv', SerialInv, [Next]_vars
    PROVE  SerialInv'
<1>1. CASE UNCHANGED vars
  <2>1. /\ stored' = stored /\ payload' = payload /\ disk' = disk /\ used' = used /\ gone' = gone
        /\ pc' = pc /\ at' = at /\ item' = item /\ copy' = copy
    BY <1>1 DEF vars
  <2>2. Alone' /\ Known' /\ Apart'
    BY <2>1 DEF SerialInv, Alone, Known, Apart
  <2>3. \A a \in Assessments : RowInv(a)'
    BY <2>1 DEF SerialInv, RowInv
  <2>4. \A v \in Workers : Resting(v)' /\ Creating(v)' /\ Deleting(v)'
    BY <2>1 DEF SerialInv, InStep, Resting, Creating, Deleting
  <2>5. \A v \in Workers : Ingesting(v)'
    BY <2>1 DEF SerialInv, InStep, Ingesting
  <2>6. \A v \in Workers : Scanning(v)'
    BY <2>1 DEF SerialInv, InStep, Scanning
  <2> QED
    BY <2>2, <2>3, <2>4, <2>5, <2>6 DEF SerialInv, InStep
<1>2. ASSUME NEW w \in Workers, Request(w)
      PROVE  SerialInv'
  BY <1>2, EnforceAssessmentLimitSerial, ReadForDeletionSerial, EnforceScanJobLimitSerial,
     ReadForRemovalSerial, ReadForIngestionSerial, ReadForTrivyScanSerial DEF Request
<1>3. ASSUME NEW w \in Workers,
             \/ RejectScanJob(w) \/ Abort(w)
             \/ \E delivered \in BOOLEAN : NotifyWebhook(w, delivered)
      PROVE  SerialInv'
  BY <1>3, QuietEndSerial DEF RejectScanJob, Abort, NotifyWebhook, store
<1>4. ASSUME NEW w \in Workers, NEW outcome \in {"failed", "cloning"}, RefuseClone(w, outcome)
      PROVE  SerialInv'
  BY <1>4, OutcomeSerial DEF RefuseClone, store
<1>5. ASSUME NEW w \in Workers, NEW outcome \in {"ready", "failed", "cloning"}, EndClone(w, outcome)
      PROVE  SerialInv'
  BY <1>5, OutcomeSerial DEF EndClone, store
<1>6. ASSUME NEW w \in Workers, Step(w)
      PROVE  SerialInv'
  BY <1>3, <1>4, <1>5, <1>6, InsertAssessmentSerial, DeleteRowSerial, SaveRemovalSerial,
     CleanupClonesSerial, SaveNewRepositorySerial, ReloadRepositorySerial, SaveCloningSerial,
     BeginCloneSerial, SaveIngestionSerial, ReadForScanJobSerial, RecordConsentSerial,
     SaveNewJobSerial, ReloadJobSerial, SaveRunningSerial, FinishScanSerial, SaveTrivyJobSerial
     DEF Step
<1> QED
  BY <1>1, <1>2, <1>3, <1>6 DEF Next

\* ... so it holds in every state.
LEMMA SerialAlways ==
    ASSUME Serial
    PROVE  Spec => [](TypeInv /\ SerialInv)
<1>1. TypeInv /\ SerialInv /\ [Next]_vars => (TypeInv /\ SerialInv)'
  BY NextType, NextSerial
<1> QED
  BY <1>1, InitType, InitSerial, PTL DEF Spec

\* When the request of a scan returns, its result is in the store.
THEOREM ScanAlwaysVisibleOnReturn ==
    ASSUME Serial
    PROVE  Spec => []ScanVisibleOnReturn
<1>1. SerialInv => ScanVisibleOnReturn
  BY DEF SerialInv, InStep, Scanning, ScanVisibleOnReturn
<1> QED
  BY <1>1, SerialAlways, PTL

\* What was deleted stays deleted: no stale object brings it back.
THEOREM DeletedAlwaysStaysDeleted ==
    ASSUME Serial
    PROVE  Spec => []DeletedStaysDeleted
<1>1. TypeInv /\ SerialInv => DeletedStaysDeleted
  BY DEF TypeInv, TypeOK, SerialInv, RowInv, DeletedStaysDeleted
<1> QED
  BY <1>1, SerialAlways, PTL

\* A READY repository has its clone on disk, and an agent finds it there.
THEOREM ClonesAlwaysOnDisk ==
    ASSUME Serial
    PROVE  Spec => []ClonesOnDisk
<1>1. TypeInv /\ SerialInv => ClonesOnDisk
  <2> SUFFICES ASSUME TypeInv, SerialInv
               PROVE  ClonesOnDisk
    OBVIOUS
  <2>1. \A a \in stored : LocalPaths(payload[a]) \subseteq disk
    BY DEF TypeInv, TypeOK, SerialInv, RowInv
  <2>2. ASSUME NEW w \in Workers, pc[w] = "execute", copy[w].target[item[w]] \in Repos
        PROVE  copy[w].target[item[w]] \in disk
    <3>1. at[w] \in stored /\ copy[w] = payload[at[w]] /\ TargetReady(copy[w], item[w])
      BY <2>2 DEF SerialInv, InStep, Scanning, JobPC, DuringScan
    <3>2. copy[w].target[item[w]] \in LocalPaths(payload[at[w]])
      BY <2>2, <3>1 DEF TargetReady, LocalPaths
    <3> QED
      BY <2>1, <3>1, <3>2
  <2> QED
    BY <2>1, <2>2 DEF ClonesOnDisk
<1> QED
  BY <1>1, SerialAlways, PTL

-----------------------------------------------------------------------------
(* What a step does to the table.                                          *)

\* One row changes, by one entry, or is created or deleted.
CreatesRow(a) ==
    /\ a \notin stored \cup gone /\ stored' = stored \cup {a} /\ gone' = gone
    /\ payload[a] = NewAssessment /\ payload' = [payload EXCEPT ![a] = NewAssessment]

DeletesRow(a) ==
    /\ a \in stored /\ stored' = stored \ {a} /\ gone' = gone \cup {a}
    /\ payload' = [payload EXCEPT ![a] = NewAssessment]

MovesRepo(a, r, b, from, to) ==
    /\ a \in stored /\ stored' = stored /\ RepoMove(payload[a], b, r, from, to)
    /\ payload' = [payload EXCEPT ![a] = b]

MovesJob(a, j, b, from, to) ==
    /\ a \in stored /\ stored' = stored /\ gone' = gone /\ JobMove(payload[a], b, j, from, to)
    /\ payload' = [payload EXCEPT ![a] = b]

RepoStages == {<<"none", "pending">>, <<"pending", "cloning">>, <<"cloning", "ready">>,
               <<"cloning", "failed">>, <<"cloning", "cloning">>}

JobStages == {<<"none", "pending">>, <<"none", "running">>, <<"pending", "running">>,
              <<"running", "completed">>, <<"running", "failed">>}

RowStep(w) ==
    \/ UNCHANGED <<stored, payload, gone>>
    \/ \E a \in Assessments : CreatesRow(a)
    \/ /\ pc'[w] = "cleanup" /\ item'[w] = None /\ at[w] \in Assessments
       /\ copy'[w] = payload[at[w]] /\ DeletesRow(at[w])
    \/ \E a \in Assessments, r \in Repos, b \in Assessment :
          /\ pc'[w] = "cleanup" /\ item'[w] = r /\ copy'[w] = payload[a]
          /\ payload[a].repo[r] # "none" /\ gone' = gone \cup {r}
          /\ MovesRepo(a, r, b, payload[a].repo[r], "none")
    \/ \E a \in Assessments, r \in Repos, b \in Assessment, m \in RepoStages :
          r \notin gone /\ gone' = gone /\ MovesRepo(a, r, b, m[1], m[2])
    \/ /\ pc[w] \in JobPC
       /\ \E a \in Assessments, b \in Assessment, m \in JobStages :
             MovesJob(a, item[w], b, m[1], m[2])

\* Saving a copy in which one repository moved moves it in the row ...
LEMMA RepoSaved ==
    ASSUME TypeInv, SerialInv, NEW w \in Workers, pc[w] \in RepoPC, NEW from, NEW to,
           <<from, to>> \in RepoStages, RepoMove(payload[at[w]], copy[w], item[w], from, to),
           Save(at[w], copy[w]), gone' = gone
    PROVE  RowStep(w)
<1>1. pc[w] # "idle" /\ item[w] \in Repos
  BY DEF RepoPC, TypeInv, WorkerShape
<1>2. PICK a \in Assessments : a = at[w] /\ a \in stored /\ item[w] \notin gone
  BY <1>1, BusyAlone DEF InStep, Ingesting
<1>3. copy[w] \in Assessment
  BY <1>1, BusyAlone
<1>4. PICK m \in RepoStages : m[1] = from /\ m[2] = to
  OBVIOUS
<1>5. MovesRepo(a, item[w], copy[w], m[1], m[2])
  BY <1>2, <1>4 DEF MovesRepo, Save
<1> QED
  BY <1>1, <1>2, <1>3, <1>5 DEF RowStep

\* ... and so for a job.
LEMMA JobSaved ==
    ASSUME TypeInv, SerialInv, NEW w \in Workers, pc[w] \in JobPC, NEW b \in Assessment,
           NEW from, NEW to, <<from, to>> \in JobStages,
           JobMove(payload[at[w]], b, item[w], from, to), Save(at[w], b), gone' = gone
    PROVE  RowStep(w)
<1>1. pc[w] # "idle"
  BY DEF JobPC, BeforeScan, DuringScan
<1>2. PICK a \in Assessments : a = at[w] /\ a \in stored
  BY <1>1, BusyAlone DEF InStep, Scanning
<1>3. PICK m \in JobStages : m[1] = from /\ m[2] = to
  OBVIOUS
<1>4. MovesJob(a, item[w], b, m[1], m[2])
  BY <1>2, <1>3 DEF MovesJob, Save
<1> QED
  BY <1>2, <1>4 DEF RowStep

\* Every step changes one entry of one row, or creates or deletes a row.
LEMMA StepRow ==
    ASSUME TypeInv, SerialInv, NEW w \in Workers, Request(w) \/ Step(w) \/ Abort(w)
    PROVE  RowStep(w)
<1>1. CASE Request(w) \/ Abort(w)
  BY <1>1 DEF Request, Abort, RowStep, store, EnforceAssessmentLimit, ReadForDeletion,
     EnforceScanJobLimit, ReadForRemoval, ReadForIngestion, ReadForTrivyScan
<1>2. CASE InsertAssessment(w)
  <2>1. pc[w] = "insert" /\ Save(at[w], copy[w]) /\ gone' = gone
    BY <1>2 DEF InsertAssessment
  <2>2. /\ at[w] \in Assessments /\ at[w] \notin stored \cup gone /\ copy[w] = NewAssessment
        /\ payload[at[w]] = NewAssessment
    BY <2>1, BusyAlone DEF InStep, Creating, RowInv
  <2>3. CreatesRow(at[w])
    BY <2>1, <2>2 DEF Save, CreatesRow
  <2> QED
    BY <2>2, <2>3 DEF RowStep
<1>3. CASE DeleteRow(w)
  <2>1. /\ Goto(w, "delete_row", "cleanup") /\ Delete(at[w]) /\ gone' = gone \cup {at[w]}
        /\ copy' = copy
    BY <1>3 DEF DeleteRow
  <2>2. pc[w] = "delete_row" /\ pc'[w] = "cleanup" /\ item'[w] = item[w]
    BY <2>1, GotoLocal
  <2>3. /\ at[w] \in Assessments /\ at[w] \in stored /\ copy[w] = payload[at[w]] /\ item[w] = None
    BY <2>2, BusyAlone DEF InStep, Deleting, Resting
  <2>4. DeletesRow(at[w])
    BY <2>1, <2>3 DEF Delete, DeletesRow
  <2> QED
    BY <2>1, <2>2, <2>3, <2>4 DEF RowStep
<1>4. CASE SaveRemoval(w)
  <2>1. PICK b, r, a : b = SetRepo(copy[w], item[w], "none") /\ r = item[w] /\ a = at[w]
    OBVIOUS
  <2>2. /\ Goto(w, "save_removal", "cleanup") /\ Save(a, b) /\ gone' = gone \cup {r} /\ copy' = copy
    BY <1>4, <2>1 DEF SaveRemoval
  <2>3. pc[w] = "save_removal" /\ pc'[w] = "cleanup" /\ item'[w] = r
    BY <2>1, <2>2, GotoLocal
  <2>4. r \in Repos /\ r # None
    BY <2>1, <2>3, NoneAssumption DEF TypeInv, WorkerShape, RepoPC
  <2>5. /\ a \in Assessments /\ a \in stored /\ copy[w] = payload[a] /\ payload[a] \in Assessment
        /\ RowInv(a) /\ payload[a].repo[r] # "none"
    BY <2>1, <2>3, <2>4, BusyAlone DEF InStep, Deleting, Ingesting, Resting, RepoPC
  <2>6. "none" \in RepositoryIngestStatus /\ b = SetRepo(payload[a], r, "none")
    BY <2>1, <2>5 DEF RepositoryIngestStatus
  <2>7. /\ b \in Assessment /\ b.repo = [payload[a].repo EXCEPT ![r] = "none"]
        /\ b.job = payload[a].job
    BY <2>4, <2>5, <2>6, SetRepoFields
  <2>8. MovesRepo(a, r, b, payload[a].repo[r], "none")
    BY <2>2, <2>5, <2>7 DEF MovesRepo, RepoMove, Save
  <2> QED
    BY <2>2, <2>3, <2>4, <2>5, <2>7, <2>8 DEF RowStep
<1>5. CASE SaveNewRepository(w)
  <2>1. pc[w] = "save_new_repo" /\ Save(at[w], copy[w]) /\ gone' = gone
    BY <1>5 DEF SaveNewRepository, Goto
  <2>2. RepoMove(payload[at[w]], copy[w], item[w], "none", "pending")
    BY <2>1, BusyAlone DEF InStep, Ingesting
  <2> QED
    BY <2>1, <2>2, RepoSaved DEF RepoPC, RepoStages
<1>6. CASE SaveCloning(w)
  <2>1. pc[w] = "save_cloning" /\ Save(at[w], copy[w]) /\ gone' = gone
    BY <1>6 DEF SaveCloning, Goto
  <2>2. RepoMove(payload[at[w]], copy[w], item[w], "pending", "cloning")
    BY <2>1, BusyAlone DEF InStep, Ingesting
  <2> QED
    BY <2>1, <2>2, RepoSaved DEF RepoPC, RepoStages
<1>7. CASE SaveIngestion(w)
  <2>1. pc[w] = "save_ingestion" /\ Save(at[w], copy[w]) /\ gone' = gone
    BY <1>7 DEF SaveIngestion
  <2>2. PICK s \in {"ready", "failed", "cloning"} :
            RepoMove(payload[at[w]], copy[w], item[w], "cloning", s)
    BY <2>1, BusyAlone DEF InStep, Ingesting
  <2>3. <<"cloning", s>> \in RepoStages
    BY DEF RepoStages
  <2> QED
    BY <2>1, <2>2, <2>3, RepoSaved DEF RepoPC
<1>8. CASE SaveNewJob(w)
  <2>1. pc[w] = "save_new_job" /\ Save(at[w], copy[w]) /\ gone' = gone
    BY <1>8 DEF SaveNewJob, Goto
  <2>2. JobMove(payload[at[w]], copy[w], item[w], "none", "pending") /\ copy[w] \in Assessment
    BY <2>1, BusyAlone DEF InStep, Scanning
  <2> QED
    BY <2>1, <2>2, JobSaved DEF JobPC, BeforeScan, JobStages
<1>9. CASE SaveRunning(w)
  <2>1. pc[w] = "save_running" /\ Save(at[w], copy[w]) /\ gone' = gone
    BY <1>9 DEF SaveRunning, Goto
  <2>2. JobMove(payload[at[w]], copy[w], item[w], "pending", "running") /\ copy[w] \in Assessment
    BY <2>1, BusyAlone DEF InStep, Scanning
  <2> QED
    BY <2>1, <2>2, JobSaved DEF JobPC, DuringScan, JobStages
<1>10. CASE SaveTrivyJob(w)
  <2>1. pc[w] = "save_trivy_job" /\ Save(at[w], copy[w]) /\ gone' = gone
    BY <1>10 DEF SaveTrivyJob, Goto
  <2>2. JobMove(payload[at[w]], copy[w], item[w], "none", "running") /\ copy[w] \in Assessment
    BY <2>1, BusyAlone DEF InStep, Scanning
  <2> QED
    BY <2>1, <2>2, JobSaved DEF JobPC, DuringScan, JobStages
<1>11. ASSUME NEW outcome \in Terminal, FinishScan(w, outcome)
       PROVE  RowStep(w)
  <2>1. PICK b : b = FinishJob(copy[w], item[w], outcome)
    OBVIOUS
  <2>2. pc[w] = "execute" /\ Save(at[w], b) /\ gone' = gone
    BY <1>11, <2>1 DEF FinishScan, Goto
  <2>3. /\ copy[w] \in Assessment /\ item[w] \in Jobs /\ copy[w] = payload[at[w]]
        /\ copy[w].job[item[w]] = "running"
    BY <2>2, BusyAlone DEF InStep, Scanning, TypeInv, WorkerShape, JobPC, DuringScan
  <2>4. b \in Assessment
    BY <2>1, <2>3, FinishJobFields
  <2>5. b.job = [copy[w].job EXCEPT ![item[w]] = outcome]
    BY <2>1, <2>3, FinishJobFields
  <2>6. JobMove(payload[at[w]], b, item[w], "running", outcome)
    BY <2>1, <2>3, <2>5, FinishJobKeeps DEF JobMove
  <2>7. <<"running", outcome>> \in JobStages
    BY DEF JobStages, Terminal
  <2> QED
    BY <2>2, <2>4, <2>6, <2>7, JobSaved DEF JobPC, DuringScan
<1>12. ASSUME \/ CleanupClones(w) \/ ReloadRepository(w) \/ BeginClone(w) \/ RejectScanJob(w)
              \/ RecordConsent(w) \/ ReloadJob(w)
              \/ \E outcome \in {"failed", "cloning"} : RefuseClone(w, outcome)
              \/ \E outcome \in {"ready", "failed", "cloning"} : EndClone(w, outcome)
              \/ \E j \in Jobs, t \in Targets, consent \in Consent : ReadForScanJob(w, j, t, consent)
              \/ \E delivered \in BOOLEAN : NotifyWebhook(w, delivered)
       PROVE  RowStep(w)
  BY <1>12 DEF RowStep, store, CleanupClones, ReloadRepository, BeginClone, RejectScanJob,
     RecordConsent, ReloadJob, RefuseClone, EndClone, ReadForScanJob, NotifyWebhook
<1> QED
  BY <1>1, <1>2, <1>3, <1>4, <1>5, <1>6, <1>7, <1>8, <1>9, <1>10, <1>11, <1>12 DEF Step

-----------------------------------------------------------------------------
(* The ledger.                                                             *)

\* The ledger starts empty.
LEMMA InitLedger == Init => Ledger!Init
BY DEF Init, Ledger!Init, Ledger!NoJobs, Ledger!NoRepos, NewAssessment

\* What a step does to the table, the ledger allows.
LEMMA RowLedger ==
    ASSUME TypeInv, SerialInv, NEW w \in Workers, RowStep(w)
    PROVE  [Ledger!Next]_(Ledger!ledgerVars)
<1>1. PICK job, repo : /\ job = [a \in Assessments |-> payload[a].job]
                       /\ repo = [a \in Assessments |-> payload[a].repo]
  OBVIOUS
<1>2. PICK jobs, repos : /\ jobs = [a \in Assessments |-> payload'[a].job]
                         /\ repos = [a \in Assessments |-> payload'[a].repo]
  OBVIOUS
<1>3. payload \in [Assessments -> Assessment]
  BY DEF TypeInv, TypeOK
<1>4. CASE UNCHANGED <<stored, payload, gone>>
  BY <1>4 DEF Ledger!ledgerVars
<1>5. ASSUME NEW a \in Assessments, CreatesRow(a)
      PROVE  Ledger!Create(a)
  <2>1. payload' = payload
    BY <1>3, <1>5 DEF CreatesRow
  <2> QED
    BY <1>5, <2>1 DEF CreatesRow, Ledger!Create
<1>6. ASSUME NEW a \in Assessments, DeletesRow(a)
      PROVE  Ledger!DeleteAssessment(a)
  <2>1. /\ jobs = [job EXCEPT ![a] = [j \in Jobs |-> "none"]]
        /\ repos = [repo EXCEPT ![a] = [r \in Repos |-> "none"]]
    BY <1>1, <1>2, <1>3, <1>6 DEF DeletesRow, NewAssessment
  <2> QED
    BY <1>1, <1>2, <1>6, <2>1 DEF DeletesRow, Ledger!DeleteAssessment, Ledger!NoJobs, Ledger!NoRepos
<1>7. ASSUME NEW a \in Assessments, NEW r \in Repos, NEW b \in Assessment, NEW from, NEW to,
             MovesRepo(a, r, b, from, to)
      PROVE  /\ a \in stored /\ stored' = stored /\ jobs = job
             /\ repos = [repo EXCEPT ![a] = [@ EXCEPT ![r] = to]] /\ repo[a][r] = from
  BY <1>1, <1>2, <1>3, <1>7 DEF MovesRepo, RepoMove
<1>8. ASSUME NEW a \in Assessments, NEW j \in Jobs, NEW b \in Assessment, NEW from, NEW to,
             MovesJob(a, j, b, from, to)
      PROVE  Ledger!MoveJob(a, j, from, to)
  <2>1. /\ a \in stored /\ stored' = stored /\ gone' = gone /\ repos = repo
        /\ jobs = [job EXCEPT ![a] = [@ EXCEPT ![j] = to]] /\ job[a][j] = from
    BY <1>1, <1>2, <1>3, <1>8 DEF MovesJob, JobMove
  <2> QED
    BY <1>1, <1>2, <2>1 DEF Ledger!MoveJob
<1>9. ASSUME NEW a \in Assessments, NEW r \in Repos, NEW b \in Assessment,
             payload[a].repo[r] # "none", gone' = gone \cup {r},
             MovesRepo(a, r, b, payload[a].repo[r], "none")
      PROVE  Ledger!RemoveRepo(a, r)
  BY <1>1, <1>2, <1>7, <1>9 DEF Ledger!RemoveRepo
<1>10. ASSUME NEW a \in Assessments, NEW r \in Repos, NEW b \in Assessment, NEW m \in RepoStages,
              r \notin gone, gone' = gone, MovesRepo(a, r, b, m[1], m[2])
       PROVE  [Ledger!Next]_(Ledger!ledgerVars)
  <2>1. PICK from, to : from = m[1] /\ to = m[2]
    OBVIOUS
  <2>2. Ledger!MoveRepo(a, r, from, to)
    BY <1>1, <1>2, <1>7, <1>10, <2>1 DEF Ledger!MoveRepo
  <2>3. CASE m = <<"cloning", "cloning">>
    <3>1. /\ repos = [repo EXCEPT ![a] = [@ EXCEPT ![r] = to]] /\ repo[a][r] = to
          /\ jobs = job /\ stored' = stored
      BY <1>7, <1>10, <2>1, <2>3
    <3>2. repo[a] = payload[a].repo /\ payload[a].repo \in [Repos -> RepositoryIngestStatus]
      BY <1>1, <1>3 DEF Assessment
    <3>3. [repo[a] EXCEPT ![r] = to] = repo[a]
      BY <3>1, <3>2
    <3>4. repos = repo
      BY <1>1, <3>1, <3>3
    <3> QED
      BY <1>1, <1>2, <1>10, <3>1, <3>4 DEF Ledger!ledgerVars
  <2>4. CASE m # <<"cloning", "cloning">>
    <3>1. Ledger!AddRepo(a, r) \/ Ledger!StartClone(a, r) \/ Ledger!EndClone(a, r)
      BY <2>1, <2>2, <2>4 DEF RepoStages, Ledger!AddRepo, Ledger!StartClone, Ledger!EndClone
    <3> QED
      BY <3>1 DEF Ledger!Next
  <2> QED
    BY <2>3, <2>4
<1>11. ASSUME NEW a \in Assessments, NEW j \in Jobs, NEW b \in Assessment, NEW m \in JobStages,
              MovesJob(a, j, b, m[1], m[2])
       PROVE  Ledger!Next
  <2>1. PICK from, to : from = m[1] /\ to = m[2]
    OBVIOUS
  <2>2. Ledger!MoveJob(a, j, from, to)
    BY <1>8, <1>11, <2>1
  <2>3. Ledger!AddJob(a, j) \/ Ledger!StartJob(a, j) \/ Ledger!EndJob(a, j)
    BY <2>1, <2>2 DEF JobStages, Ledger!AddJob, Ledger!StartJob, Ledger!EndJob
  <2> QED
    BY <2>3 DEF Ledger!Next
<1>12. pc[w] \in JobPC => item[w] \in Jobs
  BY DEF TypeInv, WorkerShape
<1> QED
  BY <1>4, <1>5, <1>6, <1>9, <1>10, <1>11, <1>12 DEF RowStep, Ledger!Next

\* One request at a time per assessment, interleaved with those on other
\* assessments and dying anywhere, loses no change and invents none.
THEOREM ServiceImplementsLedger ==
    ASSUME Serial
    PROVE  Spec => ImplementsLedger
<1>1. TypeInv /\ SerialInv /\ [Next]_vars => [Ledger!Next]_(Ledger!ledgerVars)
  <2> SUFFICES ASSUME TypeInv, SerialInv, [Next]_vars
               PROVE  [Ledger!Next]_(Ledger!ledgerVars)
    OBVIOUS
  <2>1. CASE UNCHANGED vars
    BY <2>1 DEF vars, Ledger!ledgerVars
  <2>2. CASE Next
    BY <2>2, StepRow, RowLedger DEF Next
  <2> QED
    BY <2>1, <2>2
<1> QED
  BY <1>1, InitLedger, SerialAlways, PTL DEF Spec, ImplementsLedger, Ledger!Spec

-----------------------------------------------------------------------------
(* What a receiver was told.                                               *)

\* A job that was announced has left every request, so no save moves it.
LEMMA ToldKept ==
    ASSUME TypeInv, TypeInv', SerialInv, Ownership, Told, NEW w \in Workers, RowStep(w), Frame(w),
           notified' = notified
    PROVE  Told'
<1> SUFFICES ASSUME NEW m \in notified
             PROVE  /\ m[1] \in used'
                    /\ \A v \in Workers : pc'[v] \in JobPC => item'[v] # m[1]
                    /\ \A a \in Assessments : payload'[a].job[m[1]] \in {"none", m[2]}
  BY DEF Told
<1>1. /\ m[1] \in used /\ m[1] \in Jobs
      /\ \A v \in Workers : pc[v] \in JobPC => item[v] # m[1]
      /\ \A a \in Assessments : payload[a].job[m[1]] \in {"none", m[2]}
  BY DEF Told, TypeInv, TypeOK
<1>2. m[1] \in used'
  BY <1>1 DEF Frame
<1>3. \A v \in Workers : pc'[v] \in JobPC => item'[v] # m[1]
  BY <1>1 DEF Frame, ScanMove
<1>4. payload \in [Assessments -> Assessment] /\ NewAssessment.job[m[1]] = "none"
  BY <1>1, NewAssessmentIsExplained DEF TypeInv, TypeOK
<1>5. \A a \in Assessments : payload'[a].job[m[1]] \in {"none", payload[a].job[m[1]]}
  <2>1. CASE payload' = payload
    BY <2>1
  <2>2. ASSUME NEW a \in Assessments, payload' = [payload EXCEPT ![a] = NewAssessment]
        PROVE  \A x \in Assessments : payload'[x].job[m[1]] \in {"none", payload[x].job[m[1]]}
    BY <1>4, <2>2
  <2>3. ASSUME NEW a \in Assessments, NEW b, payload' = [payload EXCEPT ![a] = b],
               b.job[m[1]] = payload[a].job[m[1]]
        PROVE  \A x \in Assessments : payload'[x].job[m[1]] \in {"none", payload[x].job[m[1]]}
    BY <1>4, <2>3
  <2>4. ASSUME NEW a \in Assessments, NEW r, NEW b, NEW from, NEW to, MovesRepo(a, r, b, from, to)
        PROVE  \A x \in Assessments : payload'[x].job[m[1]] \in {"none", payload[x].job[m[1]]}
    BY <2>3, <2>4 DEF MovesRepo, RepoMove
  <2>5. ASSUME NEW a \in Assessments, NEW b \in Assessment, NEW from, NEW to, pc[w] \in JobPC,
               MovesJob(a, item[w], b, from, to)
        PROVE  \A x \in Assessments : payload'[x].job[m[1]] \in {"none", payload[x].job[m[1]]}
    <3>1. payload[a] \in Assessment /\ item[w] # m[1]
      BY <1>1, <1>4, <2>5
    <3>2. b.job[m[1]] = payload[a].job[m[1]]
      BY <1>1, <2>5, <3>1 DEF MovesJob, JobMove, Assessment
    <3> QED
      BY <2>3, <2>5, <3>2 DEF MovesJob
  <2> QED
    BY <2>1, <2>2, <2>4, <2>5 DEF RowStep, CreatesRow, DeletesRow
<1> QED
  BY <1>1, <1>2, <1>3, <1>5

\* What the webhook tells is what the row says, and the job is over.
LEMMA NotifyTold ==
    ASSUME TypeInv, TypeInv', SerialInv, Ownership, Told, NEW w \in Workers,
           NEW delivered \in BOOLEAN, NotifyWebhook(w, delivered)
    PROVE  Told'
<1>1. PICK i, s : i = item[w] /\ s = copy[w].job[item[w]]
  OBVIOUS
<1>2. /\ pc[w] = "notify" /\ notified' \subseteq notified \cup {<<i, s>>} /\ Finish(w)
      /\ UNCHANGED <<payload, used>>
  BY <1>1 DEF NotifyWebhook, store
<1>3. /\ at[w] \in Assessments /\ copy[w] = payload[at[w]] /\ i \in Jobs /\ i \in used
      /\ i \in Ids(copy[w]) /\ pc[w] \in JobPC /\ at[w] # None
  BY <1>1, <1>2, BusyAlone, NoneAssumption
     DEF InStep, Scanning, Resting, TypeInv, WorkerShape, JobPC, Ownership
<1>4. \A v \in Workers \ {w} : pc'[v] = pc[v] /\ item'[v] = item[v]
  BY <1>2, FinishLocal
<1>5. pc'[w] = "idle"
  BY <1>2, FinishLocal
<1>6. \A v \in Workers : pc'[v] \in JobPC => pc[v] \in JobPC /\ item'[v] = item[v] /\ v # w
  BY <1>4, <1>5 DEF JobPC, BeforeScan, DuringScan
<1>7. \A v \in Workers : pc'[v] \in JobPC => item'[v] # i
  BY <1>1, <1>3, <1>6 DEF Ownership
<1>8. \A a \in Assessments : payload[a].job[i] \in {"none", s}
  <2> SUFFICES ASSUME NEW a \in Assessments, payload[a].job[i] # "none"
               PROVE  payload[a].job[i] = s
    OBVIOUS
  <2>1. i \in Ids(payload[a])
    BY <1>3 DEF Ids
  <2>2. at[w] = a
    BY <1>3, <2>1 DEF SerialInv, Apart
  <2> QED
    BY <1>1, <1>3, <2>2
<1> QED
  BY <1>2, <1>3, <1>6, <1>7, <1>8 DEF Told

\* Requests and steps in the form that Frame needs, first those that begin ...
LEMMA BeginFrame ==
    ASSUME TypeInv, NEW w \in Workers, NEW p, NEW a, NEW i, NEW b, Begin(w, p, a, i, b),
           used \subseteq used', p \notin JobPC \/ (i \in Jobs \ used /\ i \in used')
    PROVE  Frame(w)
BY DEF Begin, Frame, ScanMove, TypeInv, TypeOK

\* ... then those that end ...
LEMMA FinishFrame ==
    ASSUME TypeInv, NEW w \in Workers, Finish(w), used' = used
    PROVE  Frame(w)
BY DEF Finish, Frame, ScanMove, TypeInv, TypeOK, JobPC, BeforeScan, DuringScan

\* ... and those that go on.
LEMMA GotoFrame ==
    ASSUME TypeInv, NEW w \in Workers, NEW p, NEW q, Goto(w, p, q), used' = used,
           \/ q \notin JobPC
           \/ p \in BeforeScan
           \/ p \in DuringScan /\ q \notin BeforeScan
    PROVE  Frame(w)
BY DEF Goto, Frame, ScanMove, TypeInv, TypeOK, JobPC, BeforeScan, DuringScan

\* Every step but the webhook's has that form and tells nobody anything.
LEMMA StepFrame ==
    ASSUME TypeInv, NEW w \in Workers, Request(w) \/ Step(w) \/ Abort(w)
    PROVE  \/ Frame(w) /\ notified' = notified
           \/ \E delivered \in BOOLEAN : NotifyWebhook(w, delivered)
<1> DEFINE Quiet == Frame(w) /\ notified' = notified
<1>1. CASE Request(w)
  <2>1. ASSUME NEW a \in Assessments, EnforceAssessmentLimit(w, a)
        PROVE  Quiet
    BY <2>1, BeginFrame DEF EnforceAssessmentLimit, Draw, JobPC, BeforeScan, DuringScan
  <2>2. ASSUME NEW a \in Assessments, ReadForDeletion(w, a)
        PROVE  Quiet
    BY <2>2, BeginFrame DEF ReadForDeletion, JobPC, BeforeScan, DuringScan
  <2>3. ASSUME NEW a \in Assessments, EnforceScanJobLimit(w, a)
        PROVE  Quiet
    BY <2>3, BeginFrame DEF EnforceScanJobLimit, JobPC, BeforeScan, DuringScan
  <2>4. ASSUME NEW a \in Assessments, NEW r \in Repos, ReadForRemoval(w, a, r)
        PROVE  Quiet
    BY <2>4, BeginFrame DEF ReadForRemoval, JobPC, BeforeScan, DuringScan
  <2>5. ASSUME NEW a \in Assessments, NEW r \in Repos, ReadForIngestion(w, a, r)
        PROVE  Quiet
    <3>1. PICK b : Begin(w, "save_new_repo", a, r, b)
      BY <2>5 DEF ReadForIngestion
    <3>2. used \subseteq used' /\ notified' = notified
      BY <2>5 DEF ReadForIngestion, Draw
    <3> QED
      BY <3>1, <3>2, BeginFrame DEF JobPC, BeforeScan, DuringScan
  <2>6. ASSUME NEW a \in Assessments, NEW j \in Jobs, ReadForTrivyScan(w, a, j)
        PROVE  Quiet
    <3>1. PICK b : Begin(w, "save_trivy_job", a, j, b)
      BY <2>6 DEF ReadForTrivyScan
    <3>2. used \subseteq used' /\ j \notin used /\ j \in used' /\ notified' = notified
      BY <2>6 DEF ReadForTrivyScan, Draw
    <3> QED
      BY <3>1, <3>2, BeginFrame
  <2> QED
    BY <1>1, <2>1, <2>2, <2>3, <2>4, <2>5, <2>6 DEF Request
<1>2. CASE Abort(w) \/ RejectScanJob(w) \/ InsertAssessment(w) \/ CleanupClones(w) \/ SaveIngestion(w)
  BY <1>2, FinishFrame DEF Abort, RejectScanJob, InsertAssessment, CleanupClones, SaveIngestion
<1>3. CASE \/ DeleteRow(w) \/ SaveRemoval(w) \/ SaveNewRepository(w) \/ SaveCloning(w)
           \/ BeginClone(w)
           \/ \E outcome \in {"failed", "cloning"} : RefuseClone(w, outcome)
           \/ \E outcome \in {"ready", "failed", "cloning"} : EndClone(w, outcome)
  <2>1. /\ used' = used /\ notified' = notified
        /\ \E p, q \in PC : Goto(w, p, q) /\ q \notin JobPC
    BY <1>3 DEF DeleteRow, SaveRemoval, SaveNewRepository, SaveCloning, RefuseClone, BeginClone,
       EndClone, PC, JobPC, BeforeScan, DuringScan
  <2> QED
    BY <2>1, GotoFrame
<1>4. CASE ReloadRepository(w)
  <2>1. /\ used' = used /\ notified' = notified
        /\ Finish(w) \/ Goto(w, "reload_repo", "save_cloning")
    BY <1>4 DEF ReloadRepository
  <2> QED
    BY <2>1, GotoFrame, FinishFrame DEF JobPC, BeforeScan, DuringScan
<1>5. ASSUME NEW j \in Jobs, NEW t \in Targets, NEW consent \in Consent,
             ReadForScanJob(w, j, t, consent)
      PROVE  Quiet
  <2>1. /\ used \subseteq used' /\ j \notin used /\ j \in used' /\ notified' = notified
        /\ item' = [item EXCEPT ![w] = j]
        /\ \A v \in Workers \ {w} : pc'[v] = pc[v]
    BY <1>5 DEF ReadForScanJob, Draw, TypeInv, TypeOK
  <2> QED
    BY <2>1 DEF Frame, ScanMove, TypeInv, TypeOK
<1>6. CASE RecordConsent(w) \/ SaveNewJob(w)
  <2>1. /\ used' = used /\ notified' = notified
        /\ \E p \in BeforeScan, q \in PC : Goto(w, p, q)
    BY <1>6 DEF RecordConsent, SaveNewJob, PC, BeforeScan
  <2> QED
    BY <2>1, GotoFrame
<1>7. CASE ReloadJob(w)
  <2>1. /\ used' = used /\ notified' = notified
        /\ Finish(w) \/ Goto(w, "reload_job", "save_running")
    BY <1>7 DEF ReloadJob
  <2> QED
    BY <2>1, GotoFrame, FinishFrame DEF BeforeScan
<1>8. CASE SaveRunning(w) \/ SaveTrivyJob(w) \/ \E outcome \in Terminal : FinishScan(w, outcome)
  <2>1. /\ used' = used /\ notified' = notified
        /\ \E p \in DuringScan, q \in PC \ BeforeScan : Goto(w, p, q)
    BY <1>8 DEF SaveRunning, SaveTrivyJob, FinishScan, PC, BeforeScan, DuringScan
  <2> QED
    BY <2>1, GotoFrame
<1> QED
  BY <1>1, <1>2, <1>3, <1>4, <1>5, <1>6, <1>7, <1>8 DEF Step

\* Told is an invariant of requests that keep to their own assessment.
LEMMA NextTold ==
    ASSUME TypeInv, TypeInv', SerialInv, ExplainedInv, Told, [Next]_vars
    PROVE  Told'
<1>1. CASE UNCHANGED vars
  BY <1>1 DEF vars, Told
<1>2. ASSUME NEW w \in Workers, Request(w) \/ Step(w) \/ Abort(w)
      PROVE  Told'
  <2>1. Ownership /\ RowStep(w)
    BY <1>2, StepRow DEF ExplainedInv
  <2>2. CASE Frame(w) /\ notified' = notified
    BY <2>1, <2>2, ToldKept
  <2>3. CASE \E delivered \in BOOLEAN : NotifyWebhook(w, delivered)
    BY <2>1, <2>3, NotifyTold
  <2> QED
    BY <1>2, <2>2, <2>3, StepFrame
<1> QED
  BY <1>1, <1>2 DEF Next

\* What the webhook told the receiver is what a later reader of the job finds.
THEOREM WebhooksAlwaysMatchRecord ==
    ASSUME Serial
    PROVE  Spec => []WebhookMatchesRecord
<1>1. Init => Told
  BY DEF Init, Told
<1>2. TypeInv /\ SerialInv /\ ExplainedInv /\ Told /\ [Next]_vars => Told'
  BY NextTold, NextType
<1>3. TypeInv /\ Told => WebhookMatchesRecord
  BY DEF TypeInv, TypeOK, Told, WebhookMatchesRecord
<1> QED
  BY <1>1, <1>2, <1>3, SerialAlways, AlwaysExplained, PTL DEF Spec

-----------------------------------------------------------------------------
(* Whose the clones are.                                                   *)

\* A row that is READY stays so, or is removed by a request that cleans up.
LEMMA KeptStays ==
    ASSUME TypeInv, NEW w \in Workers, RowStep(w), NEW r \in Repos, Kept(r)
    PROVE  Kept(r)' \/ ClaimedBy(w, r)'
<1>1. PICK x \in stored : payload[x].repo[r] = "ready"
  BY DEF Kept
<1>2. x \in Assessments /\ payload \in [Assessments -> Assessment]
  BY DEF TypeInv, TypeOK
<1>3. CASE UNCHANGED <<stored, payload, gone>>
  BY <1>1, <1>3 DEF Kept
<1>4. ASSUME NEW a \in Assessments, CreatesRow(a)
      PROVE  Kept(r)'
  <2>1. x # a /\ x \in stored' /\ payload'[x] = payload[x]
    BY <1>1, <1>2, <1>4 DEF CreatesRow
  <2> QED
    BY <1>1, <2>1 DEF Kept
<1>5. CASE /\ pc'[w] = "cleanup" /\ item'[w] = None /\ at[w] \in Assessments
           /\ copy'[w] = payload[at[w]] /\ DeletesRow(at[w])
  <2>1. CASE x = at[w]
    BY <1>1, <1>5, <2>1 DEF ClaimedBy, LocalPaths
  <2>2. CASE x # at[w]
    <3>1. x \in stored' /\ payload'[x] = payload[x]
      BY <1>1, <1>2, <1>5, <2>2 DEF DeletesRow
    <3> QED
      BY <1>1, <3>1 DEF Kept
  <2> QED
    BY <2>1, <2>2
<1>6. ASSUME NEW a \in Assessments, NEW q \in Repos, NEW b \in Assessment, NEW from, NEW to,
             MovesRepo(a, q, b, from, to), x # a \/ r # q
      PROVE  Kept(r)'
  <2>1. x \in stored' /\ payload'[x] = IF x = a THEN b ELSE payload[x]
    BY <1>1, <1>2, <1>6 DEF MovesRepo
  <2>2. b.repo = [payload[a].repo EXCEPT ![q] = to] /\ payload[a].repo \in [Repos -> RepositoryIngestStatus]
    BY <1>2, <1>6 DEF MovesRepo, RepoMove, Assessment
  <2>3. x = a => b.repo[r] = "ready"
    BY <1>1, <1>6, <2>2
  <2>4. payload'[x].repo[r] = "ready"
    BY <1>1, <2>1, <2>3
  <2> QED
    BY <2>1, <2>4 DEF Kept
<1>7. ASSUME NEW a \in Assessments, NEW q \in Repos, NEW b \in Assessment,
             pc'[w] = "cleanup", item'[w] = q, copy'[w] = payload[a],
             MovesRepo(a, q, b, payload[a].repo[q], "none")
      PROVE  Kept(r)' \/ ClaimedBy(w, r)'
  <2>1. CASE x = a /\ r = q
    BY <1>1, <1>7, <2>1 DEF ClaimedBy, LocalPaths
  <2>2. CASE x # a \/ r # q
    BY <1>6, <1>7, <2>2
  <2> QED
    BY <2>1, <2>2
<1>8. ASSUME NEW a \in Assessments, NEW q \in Repos, NEW b \in Assessment, NEW m \in RepoStages,
             MovesRepo(a, q, b, m[1], m[2])
      PROVE  Kept(r)'
  <2>1. m[1] # "ready"
    BY DEF RepoStages
  <2>2. x # a \/ r # q
    BY <1>1, <1>8, <2>1 DEF MovesRepo, RepoMove
  <2> QED
    BY <1>6, <1>8, <2>2
<1>9. ASSUME NEW a \in Assessments, NEW j, NEW b \in Assessment, NEW from, NEW to,
             MovesJob(a, j, b, from, to)
      PROVE  Kept(r)'
  <2>1. x \in stored' /\ payload'[x] = (IF x = a THEN b ELSE payload[x]) /\ b.repo = payload[a].repo
    BY <1>1, <1>2, <1>9 DEF MovesJob, JobMove
  <2>2. payload'[x].repo[r] = "ready"
    BY <1>1, <2>1
  <2> QED
    BY <2>1, <2>2 DEF Kept
<1> QED
  BY <1>3, <1>4, <1>5, <1>7, <1>8, <1>9 DEF RowStep

\* A worker's claim ends only with its directory, or in a row.
LEMMA ClaimStays ==
    ASSUME ~Faults, TypeInv, SerialInv, NEW w \in Workers, Request(w) \/ Step(w) \/ Abort(w),
           NEW r \in disk', ClaimedBy(w, r)
    PROVE  Kept(r)' \/ ClaimedBy(w, r)'
<1>1. CASE pc[w] = "end_clone" /\ item[w] = r
  <2>1. PICK outcome \in {"ready", "failed", "cloning"} : EndClone(w, outcome)
    BY <1>1 DEF Request, Step, Abort, EnforceAssessmentLimit, ReadForDeletion,
       EnforceScanJobLimit, ReadForRemoval, ReadForIngestion, ReadForTrivyScan, Begin, Goto,
       InsertAssessment, DeleteRow, SaveRemoval, CleanupClones, SaveNewRepository,
       ReloadRepository, SaveCloning, RefuseClone, BeginClone, SaveIngestion, ReadForScanJob,
       RejectScanJob, RecordConsent, SaveNewJob, ReloadJob, SaveRunning, FinishScan,
       NotifyWebhook, SaveTrivyJob
  <2>2. outcome = "ready"
    BY <1>1, <2>1 DEF EndClone
  <2>3. PICK c : c = SetRepo(copy[w], r, "ready")
    OBVIOUS
  <2>4. Goto(w, "end_clone", "save_ingestion") /\ copy' = [copy EXCEPT ![w] = c]
    BY <1>1, <2>1, <2>2, <2>3 DEF EndClone
  <2>5. pc'[w] = "save_ingestion" /\ item'[w] = r /\ copy'[w] = c
    BY <1>1, <2>4, GotoLocal DEF TypeInv, TypeOK
  <2>6. r \in Repos /\ copy[w] \in Assessment /\ copy[w].repo \in [Repos -> RepositoryIngestStatus]
    BY <1>1 DEF TypeInv, TypeOK, WorkerShape, RepoPC, Assessment
  <2>7. "ready" \in RepositoryIngestStatus
    BY DEF RepositoryIngestStatus
  <2>8. c.repo = [copy[w].repo EXCEPT ![r] = "ready"]
    BY <2>3, <2>6, <2>7, SetRepoFields
  <2> QED
    BY <2>5, <2>6, <2>8 DEF ClaimedBy
<1>2. CASE pc[w] = "save_ingestion" /\ item[w] = r /\ copy[w].repo[r] = "ready"
  <2>1. SaveIngestion(w)
    BY <1>2 DEF Request, Step, Abort, EnforceAssessmentLimit, ReadForDeletion,
       EnforceScanJobLimit, ReadForRemoval, ReadForIngestion, ReadForTrivyScan, Begin, Goto,
       InsertAssessment, DeleteRow, SaveRemoval, CleanupClones, SaveNewRepository,
       ReloadRepository, SaveCloning, RefuseClone, BeginClone, EndClone, ReadForScanJob,
       RejectScanJob, RecordConsent, SaveNewJob, ReloadJob, SaveRunning, FinishScan,
       NotifyWebhook, SaveTrivyJob
  <2>2. Save(at[w], copy[w]) /\ at[w] \in Assessments
    BY <1>2, <2>1 DEF SaveIngestion, TypeInv, WorkerShape
  <2>3. at[w] \in stored' /\ payload'[at[w]] = copy[w]
    BY <2>2 DEF Save, TypeInv, TypeOK
  <2> QED
    BY <1>2, <2>3 DEF Kept
<1>3. CASE pc[w] = "cleanup" /\ r \in LocalPaths(copy[w]) /\ item[w] \in {None, r}
  <2>1. CleanupClones(w)
    BY <1>3 DEF Request, Step, Abort, EnforceAssessmentLimit, ReadForDeletion,
       EnforceScanJobLimit, ReadForRemoval, ReadForIngestion, ReadForTrivyScan, Begin, Goto,
       InsertAssessment, DeleteRow, SaveRemoval, SaveIngestion, SaveNewRepository,
       ReloadRepository, SaveCloning, RefuseClone, BeginClone, EndClone, ReadForScanJob,
       RejectScanJob, RecordConsent, SaveNewJob, ReloadJob, SaveRunning, FinishScan,
       NotifyWebhook, SaveTrivyJob
  <2>2. r \notin disk'
    BY <1>3, <2>1 DEF CleanupClones
  <2> QED
    BY <2>2
<1> QED
  BY <1>1, <1>2, <1>3 DEF ClaimedBy

\* Only git creates a directory, and the worker that runs it answers for it.
LEMMA NewClone ==
    ASSUME TypeInv, NEW w \in Workers, Request(w) \/ Step(w) \/ Abort(w), NEW r \in disk' \ disk
    PROVE  ClaimedBy(w, r)'
<1>1. BeginClone(w)
  BY DEF Request, Step, Abort, EnforceAssessmentLimit, ReadForDeletion,
     EnforceScanJobLimit, ReadForRemoval, ReadForIngestion, ReadForTrivyScan,
     InsertAssessment, DeleteRow, SaveRemoval, CleanupClones, SaveNewRepository,
     ReloadRepository, SaveCloning, RefuseClone, EndClone, SaveIngestion, ReadForScanJob,
     RejectScanJob, RecordConsent, SaveNewJob, ReloadJob, SaveRunning, FinishScan,
     NotifyWebhook, SaveTrivyJob
<1>2. Goto(w, "begin_clone", "end_clone") /\ disk' = disk \cup {item[w]}
  BY <1>1 DEF BeginClone
<1> QED
  BY <1>2, GotoLocal DEF ClaimedBy

\* A worker's step leaves the others where they are.
LEMMA OthersWait ==
    ASSUME TypeInv, NEW w \in Workers, Request(w) \/ Step(w) \/ Abort(w),
           NEW v \in Workers \ {w}
    PROVE  pc'[v] = pc[v] /\ item'[v] = item[v] /\ copy'[v] = copy[v]
<1>1. pc'[v] = pc[v] /\ item'[v] = item[v]
  <2>1. ASSUME NEW delivered \in BOOLEAN, NotifyWebhook(w, delivered)
        PROVE  pc'[v] = pc[v] /\ item'[v] = item[v]
    BY <2>1, FinishLocal DEF NotifyWebhook
  <2> QED
    BY <2>1, StepFrame DEF Frame
<1>2. copy'[v] = copy[v]
  <2>1. \/ copy' = copy
        \/ \E b : copy' = [copy EXCEPT ![w] = b]
    BY DEF Request, Step, Abort, EnforceAssessmentLimit, ReadForDeletion, Begin, Finish,
       EnforceScanJobLimit, ReadForRemoval, ReadForIngestion, ReadForTrivyScan,
       InsertAssessment, DeleteRow, SaveRemoval, CleanupClones, SaveNewRepository,
       ReloadRepository, SaveCloning, RefuseClone, BeginClone, EndClone, SaveIngestion,
       ReadForScanJob, RejectScanJob, RecordConsent, SaveNewJob, ReloadJob, SaveRunning,
       FinishScan, NotifyWebhook, SaveTrivyJob
  <2> QED
    BY <2>1 DEF TypeInv, TypeOK
<1> QED
  BY <1>1, <1>2

\* Claimed is an invariant when no request dies.
LEMMA NextClaimed ==
    ASSUME ~Faults, TypeInv, TypeInv', SerialInv, Claimed, [Next]_vars
    PROVE  Claimed'
<1>1. CASE UNCHANGED vars
  BY <1>1 DEF vars, Claimed, Kept, ClaimedBy
<1>2. ASSUME NEW w \in Workers, Request(w) \/ Step(w) \/ Abort(w)
      PROVE  Claimed'
  <2> SUFFICES ASSUME NEW r \in disk'
               PROVE  Kept(r)' \/ \E v \in Workers : ClaimedBy(v, r)'
    BY DEF Claimed
  <2>1. r \in Repos /\ RowStep(w)
    BY <1>2, StepRow DEF TypeInv, TypeOK
  <2>2. CASE r \notin disk
    BY <1>2, <2>2, NewClone
  <2>3. CASE Kept(r)
    BY <2>1, <2>3, KeptStays
  <2>4. CASE ClaimedBy(w, r)
    BY <1>2, <2>4, ClaimStays
  <2>5. ASSUME NEW v \in Workers \ {w}, ClaimedBy(v, r)
        PROVE  ClaimedBy(v, r)'
    BY <1>2, <2>5, OthersWait DEF ClaimedBy
  <2> QED
    BY <2>2, <2>3, <2>4, <2>5 DEF Claimed
<1> QED
  BY <1>1, <1>2 DEF Next

\* While no request dies, no directory is left that nothing refers to.
THEOREM NoCloneIsOrphaned ==
    ASSUME Serial, ~Faults
    PROVE  Spec => []NoOrphanClone
<1>1. Init => Claimed
  BY DEF Init, Claimed
<1>2. TypeInv /\ SerialInv /\ Claimed /\ [Next]_vars => Claimed'
  BY NextClaimed, NextType
<1>3. TypeInv /\ SerialInv /\ Claimed => NoOrphanClone
  <2> SUFFICES ASSUME TypeInv, SerialInv, NEW r \in disk,
                      Kept(r) \/ \E w \in Workers : ClaimedBy(w, r)
               PROVE  \/ \E a \in stored : payload[a].repo[r] \in {"ready", "cloning"}
                      \/ \E w \in Workers : pc[w] = "cleanup" /\ r \in LocalPaths(copy[w])
    BY DEF Claimed, NoOrphanClone
  <2>1. ASSUME NEW w \in Workers, pc[w] \in {"end_clone", "save_ingestion"}, item[w] = r
        PROVE  at[w] \in stored /\ payload[at[w]].repo[r] = "cloning"
    BY <2>1, BusyAlone DEF InStep, Ingesting, RepoPC, RepoMove
  <2> QED
    BY <2>1 DEF Kept, ClaimedBy
<1> QED
  BY <1>1, <1>2, <1>3, SerialAlways, PTL DEF Spec

=============================================================================
