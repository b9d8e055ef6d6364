---------------------------- MODULE SourceAgents ----------------------------
(* The agents that read a directory (infrastructure/scanners): red team,     *)
(* blue team and cloud security look for patterns file by file; white box,   *)
(* dependency security, secret detection and Trivy start a tool and read its *)
(* report.  Meanwhile a request may delete the clone they read, file after   *)
(* file.  What a file holds is the set of marks a pattern would match in it; *)
(* "no_user" and "no_limits" are the marks of a text that lacks something.   *)
(* The key of a file is its path up to the first colon, "" if it starts with *)
(* one: files of a directory with a colon in its name, or on one Windows     *)
(* drive, share theirs.                                                      *)
EXTENDS AgentRun, FiniteSets, Functions, BagsExt, SequencesExt

CONSTANTS
    Files,                \* names of files
    Trees,                \* what a target can hold
    Sources,              \* addresses in log lines, and "unknown"
    MaxLogFiles,          \* _MAX_LOG_FILES
    MaxLines,             \* _MAX_LINES_PER_FILE
    BruteForceThreshold,  \* _BRUTE_FORCE_THRESHOLD
    ScannerThreshold      \* _SCANNER_PATH_THRESHOLD

ASSUME LimitsAssumption ==
    {MaxLogFiles, MaxLines, BruteForceThreshold, ScannerThreshold} \subseteq Nat \ {0}

(* The two things a line of a log is looked through for.                     *)
LineMarks == {"attack", "command"}

LogLine == [failed : BOOLEAN, probe : BOOLEAN, marks : SUBSET LineMarks, source : Sources]

(* Paths are no addresses.  A target that is no directory is one file, if it *)
(* is there at all; a directory holds a file, since one that holds none is   *)
(* not told from one that has gone.                                          *)
ASSUME TreesAssumption ==
    /\ IsFiniteSet(Files)
    /\ Files \cap (Sources \cup {"target", "unknown"}) = {}
    /\ \A t \in Trees :
           /\ \A f \in Files : t.lines[f] \in Seq(LogLine)
           /\ t.isDir \in BOOLEAN
           /\ IF t.isDir THEN \E f \in Files : t.kind[f] # "none"
              ELSE \A f, g \in Files : t.kind[f] # "none" /\ t.kind[g] # "none" => f = g

VARIABLES
    tree,      \* of each file its kind, key, marks and log lines; the readable
               \* files; whether the target is a directory
    onDisk,    \* the files that still exist
    check,     \* the number of the check under way
    todo,      \* what its walk, or its tool, has yet to take
    hit,       \* has_logging, has_validation
    logs,      \* the log files discovered
    ingested,  \* how many of them have been taken, and those that could be read
    counted,   \* brute_force_counter, scanner_counter and event_findings
    ran        \* the runs of the tool: on what, how it ended, what it listed

walk   == <<check, todo, hit>>
events == <<logs, ingested, counted>>
source == <<tree, onDisk, walk, events, ran>>

Present == {f \in Files : tree.kind[f] # "none"}
IsDir   == tree.isDir /\ onDisk # {}

Nothing == [failed |-> EmptyBag, probes |-> EmptyBag, found |-> {}]

InitSource ==
    /\ tree \in Trees
    /\ onDisk = Present
    /\ check = 1
    /\ todo = {}
    /\ hit = FALSE
    /\ logs = <<>>
    /\ ingested = <<0, {}>>
    /\ counted = Nothing
    /\ ran = {}

(* The clone of the repository is being removed.                             *)
RemoveFile(f) ==
    /\ f \in onDisk
    /\ onDisk' = onDisk \ {f}
    /\ UNCHANGED <<run, tree, walk, events, ran>>

(***************************************************************************)
(* Checks for patterns                                                     *)
(***************************************************************************)

Check(globs, how, marks) == [globs |-> globs, how |-> how, marks |-> marks]

(* Every mark of every file; the marks no file has; the first file with a    *)
(* mark; nothing, since the loop itself raises: generators have no "|"       *)
(* (cloud_security_agent.py:90); the log files.                              *)
Each(globs, marks)  == Check(globs, "each", marks)
Lacks(globs, marks) == Check(globs, "lacks", marks)
First(globs, marks) == Check(globs, "first", marks)
Broken(globs, marks) == Check(globs, "broken", marks)
Discover(globs)     == Check(globs, "logs", {})

AnalyzeAttackVectors            == Each({"py"}, {"eval", "exec", "pickle"})
CheckAuthBypassVectors          == Each({"py"}, {"credential", "weak_auth"})
CheckInjectionVectors           == Each({"py"}, {"sql"})
CheckPrivilegeEscalationVectors == Each({"py"}, {"privilege"})
CheckLateralMovementIndicators  == Each({"py"}, {"internal_host"})

RedChecks ==
    << AnalyzeAttackVectors, CheckAuthBypassVectors, CheckInjectionVectors,
       CheckPrivilegeEscalationVectors, CheckLateralMovementIndicators >>

(* Of the globs for log files, those for auth and audit logs are as the one  *)
(* for access logs: they overlap with the first.                             *)
CheckLoggingInstrumentation == Lacks({"py"}, {"logging"})
CheckErrorHandling          == First({"py"}, {"bare_except", "sensitive"})
CheckInputValidation        == Lacks({"py"}, {"validation"})
LogFileGlobs                == <<{"log", "access_log"}, {"old_log"}, {"access_log"}, {"jsonl"}>>

BlueChecks ==
    << CheckLoggingInstrumentation, CheckErrorHandling, CheckInputValidation >>
        \o [i \in DOMAIN LogFileGlobs |-> Discover(LogFileGlobs[i])]

CheckTerraformConfigs      == Each({"tf"}, {"public_database", "open_ingress"})
CheckCloudformationConfigs == Broken({"yaml", "json"}, {"public_bucket"})
CheckDockerConfigs         == Each({"docker"}, {"no_user", "latest"})
CheckK8sConfigs            == Each({"yaml"}, {"privileged", "no_limits"})

CloudChecks ==
    << CheckTerraformConfigs, CheckCloudformationConfigs, CheckDockerConfigs, CheckK8sConfigs >>

Checks ==
    CASE agent = "red_team" -> RedChecks
      [] agent = "blue_team" -> BlueChecks
      [] agent = "cloud_security" -> CloudChecks
      [] OTHER -> <<>>

Current == Checks[check]
How(how) == check <= Len(Checks) /\ Current.how = how

(* A check that has ended; the discovery ends for all globs at its cap.      *)
NextCheck(full) ==
    /\ check' = IF full THEN Len(Checks) + 1 ELSE check + 1
    /\ todo' = {}
    /\ hit' = FALSE

Begin ==
    /\ agent \in PatternAgents
    /\ Continue("start", "check", {}, {})
    /\ UNCHANGED source

(* The target is not a directory, or no longer; or the check is the one that *)
(* raises.  A log file may be the target itself.                             *)
SkipCheck ==
    /\ check <= Len(Checks)
    /\ ~IsDir \/ How("broken")
    /\ Continue("check", "check", {}, {})
    /\ NextCheck(FALSE)
    /\ logs' = IF How("logs") /\ ~tree.isDir /\ logs = <<>> THEN SetToSeq(onDisk) ELSE logs
    /\ UNCHANGED <<tree, onDisk, ingested, counted, ran>>

StartWalk ==
    /\ check <= Len(Checks)
    /\ IsDir /\ ~How("broken")
    /\ Continue("check", "walk", {}, {})
    /\ todo' = {f \in onDisk : tree.kind[f] \in Current.globs}
    /\ UNCHANGED <<tree, onDisk, check, hit, events, ran>>

(* What a check sees in a file: nothing if it has gone or cannot be read.    *)
Seen(f) == IF f \in onDisk \cap tree.readable THEN Current.marks \cap tree.marks[f] ELSE {}

(* A file of a check that reports every mark.                                *)
ReadFile(f) ==
    /\ f \in todo
    /\ How("each")
    /\ Continue("walk", "walk", {<<m, f>> : m \in Seen(f)}, {})
    /\ todo' = todo \ {f}
    /\ UNCHANGED <<tree, onDisk, check, hit, events, ran>>

(* A file of a check that stops at the first one with a mark; a bare except  *)
(* is looked for before data in a message.                                   *)
ReadUntilFound(f) ==
    LET seen  == Seen(f)
        first == IF "bare_except" \in seen THEN {"bare_except"} ELSE seen
    IN  /\ f \in todo
        /\ How("lacks") \/ How("first")
        /\ Continue("walk", "walk", IF How("first") THEN {<<m, f>> : m \in first} ELSE {}, {})
        /\ todo' = IF seen = {} THEN todo \ {f} ELSE {}
        /\ hit' = (seen # {})
        /\ UNCHANGED <<tree, onDisk, check, events, ran>>

\* Mutant: a file that several globs match is discovered several times.
DiscoverTwice(f) ==
    /\ f \in todo
    /\ How("logs")
    /\ Continue("walk", "walk", {}, {})
    /\ logs' = IF f \in onDisk THEN Append(logs, f) ELSE logs
    /\ todo' = IF Len(logs') >= MaxLogFiles THEN {} ELSE todo \ {f}
    /\ UNCHANGED <<tree, onDisk, check, hit, ingested, counted, ran>>

(* A log file, unless another glob has matched it already.                   *)
DiscoverLog(f) ==
    /\ f \in todo
    /\ How("logs")
    /\ Continue("walk", "walk", {}, {})
    /\ logs' = IF f \in onDisk /\ f \notin Range(logs) THEN Append(logs, f) ELSE logs
    /\ todo' = IF Len(logs') >= MaxLogFiles THEN {} ELSE todo \ {f}
    /\ UNCHANGED <<tree, onDisk, check, hit, ingested, counted, ran>>

EndWalk ==
    /\ todo = {}
    /\ Continue("walk", "check",
                IF How("lacks") /\ ~hit THEN {<<m, "target">> : m \in Current.marks} ELSE {}, {})
    /\ NextCheck(How("logs") /\ Len(logs) >= MaxLogFiles)
    /\ UNCHANGED <<tree, onDisk, events, ran>>

(* A directory has gone before the walk lists it: FileNotFoundError, which   *)
(* each check swallows together with its verdict, and the discovery of logs  *)
(* does not catch.                                                           *)
WalkRaises ==
    /\ ~(todo \subseteq onDisk)
    /\ IF How("logs")
       THEN /\ at = "walk" /\ at' = "raised" /\ findings' = {}
            /\ UNCHANGED <<agent, authorized, sent, walk>>
       ELSE Continue("walk", "check", {}, {}) /\ NextCheck(FALSE)
    /\ UNCHANGED <<tree, onDisk, events, ran>>

(***************************************************************************)
(* What red and blue team make of it                                       *)
(***************************************************************************)

StepOf ==
    [credential |-> "harvest", weak_auth |-> "bypass", sql |-> "inject", eval |-> "execute",
     exec |-> "execute", pickle |-> "execute", privilege |-> "escalate", internal_host |-> "pivot"]

Keys == {tree.key[f] : f \in Files}

(* What is reported of the files with a key.                                 *)
Titles(reported, k) ==
    {m \in DOMAIN StepOf : \E f \in Files : tree.key[f] = k /\ <<m, f>> \in reported}

\* Mutant: findings are counted, not the steps they stand for.
ChainedByCount(reported) ==
    {k \in Keys \ {""} : Cardinality(Titles(reported, k)) >= 2}

(* _chain_attack_paths: the keys with two different steps; an empty one is   *)
(* left out.                                                                 *)
Chained(reported) ==
    {k \in Keys \ {""} : Cardinality({StepOf[m] : m \in Titles(reported, k)}) >= 2}

EndChecks ==
    /\ check > Len(Checks)
    /\ Continue("check", IF agent = "blue_team" /\ logs # <<>> THEN "logs" ELSE "return",
                IF agent = "red_team" THEN {<<"chain", k>> : k \in Chained(findings)} ELSE {}, {})
    /\ UNCHANGED source

(* One line of a log: failed logins count by file and address, probes of     *)
(* well-known paths by address, or by file where the line has none.          *)
Count(f, c, line) ==
    [failed |-> IF line.failed THEN BagAdd(c.failed, <<f, line.source>>) ELSE c.failed,
     probes |-> IF line.probe
                THEN BagAdd(c.probes, IF line.source = "unknown" THEN f ELSE line.source)
                ELSE c.probes,
     found |-> c.found \cup {<<m, f>> : m \in line.marks}]

(* The lines of a file that are looked at, and what they add to the counts.  *)
Lines(f) == [i \in 1 .. Min({Len(tree.lines[f]), MaxLines}) |-> tree.lines[f][i]]

Ingest(f, c) ==
    LET after[i \in 0 .. Len(Lines(f))] ==
            IF i = 0 THEN c ELSE Count(f, after[i - 1], Lines(f)[i])
    IN  after[Len(Lines(f))]

\* Mutant: a file that cannot be read is tried again.
ReadLogUntilRead ==
    LET f  == logs[ingested[1] + 1]
        ok == f \in onDisk \cap tree.readable
    IN  /\ ingested[1] < Len(logs)
        /\ Continue("logs", "logs", {}, {})
        /\ counted' = IF ok THEN Ingest(f, counted) ELSE counted
        /\ ingested' = IF ok THEN <<ingested[1] + 1, ingested[2] \cup {f}>> ELSE ingested
        /\ UNCHANGED <<tree, onDisk, walk, logs, ran>>

(* The next log file; one that cannot be read is passed over.                *)
ReadLog ==
    LET f  == logs[ingested[1] + 1]
        ok == f \in onDisk \cap tree.readable
    IN  /\ ingested[1] < Len(logs)
        /\ Continue("logs", "logs", {}, {})
        /\ counted' = IF ok THEN Ingest(f, counted) ELSE counted
        /\ ingested' = <<ingested[1] + 1, IF ok THEN ingested[2] \cup {f} ELSE ingested[2]>>
        /\ UNCHANGED <<tree, onDisk, walk, logs, ran>>

AtLeast(bag, n) == {k \in DOMAIN bag : bag[k] >= n}

(* The incident summary and the events, or the word that there were none.    *)
JudgeLogs ==
    LET suspicious == counted.found
                        \cup {<<"brute_force", k>> : k \in AtLeast(counted.failed, BruteForceThreshold)}
                        \cup {<<"scanning", k>> : k \in AtLeast(counted.probes, ScannerThreshold)}
    IN  /\ ingested[1] = Len(logs)
        /\ Continue("logs", "return",
                    IF suspicious = {} THEN {<<"quiet_logs", "target">>}
                    ELSE suspicious \cup {<<"incident", "target">>}, {})
        /\ UNCHANGED source

(***************************************************************************)
(* Tools                                                                   *)
(***************************************************************************)

(* How a run of a tool can end: with a report; with one whose entries cannot *)
(* all be read; with a file that is no JSON; without a file; killed at its   *)
(* timeout; not started, as it is not installed.  Bandit is started through  *)
(* the interpreter, which always starts.                                     *)
Outcomes ==
    {"report", "bad_entry", "garbage", "no_output", "timeout"}
        \cup (IF agent = "white_box" THEN {} ELSE {"not_installed"})

(* What execute says of an outcome.  Safety may leave no JSON when it has    *)
(* found nothing (dependency_security_agent.py:114-116).                     *)
Told(outcome) ==
    CASE outcome \in {"report", "no_output"} -> {}
      [] outcome = "timeout" -> {"timeout"}
      [] outcome = "garbage" -> IF agent = "dependency_security" THEN {} ELSE {"error"}
      [] outcome = "bad_entry" -> {"error"}
      [] outcome = "not_installed" -> IF agent = "trivy" THEN {"not_installed"} ELSE {"error"}

(* What the tool finds: in one dependency file, or in the whole target.      *)
Issues(t) ==
    IF t = "target" THEN UNION {{<<m, f>> : m \in tree.marks[f]} : f \in onDisk}
    ELSE {<<m, t>> : m \in IF t \in onDisk THEN tree.marks[t] ELSE {}}

DependencyFiles ==
    IF tree.isDir THEN {f \in onDisk : tree.kind[f] \in {"requirements", "setup"}} ELSE onDisk

(* The target is looked at, and with Safety its dependency files are listed, *)
(* which raises when a directory goes meanwhile.                             *)
StartTool ==
    /\ agent \in ToolAgents
    /\ \/ /\ agent \in {"white_box", "trivy"} \/ (agent = "secret_detection" /\ onDisk # {})
          /\ Continue("start", "tool", {}, {})
          /\ todo' = {"target"}
       \/ /\ agent = "secret_detection" /\ onDisk = {}
          /\ Continue("start", "done", {<<"not_found", "target">>}, {})
          /\ UNCHANGED todo
       \/ /\ agent = "dependency_security" /\ DependencyFiles # {}
          /\ Continue("start", "tool", {}, {})
          /\ todo' = DependencyFiles
       \/ /\ agent = "dependency_security" /\ DependencyFiles = {}
          /\ Continue("start", "done", {<<"no_files", "target">>}, {})
          /\ UNCHANGED todo
       \/ /\ agent = "dependency_security" /\ onDisk # Present
          /\ Continue("start", "done", {<<"error", "target">>}, {})
          /\ UNCHANGED todo
    /\ UNCHANGED <<tree, onDisk, check, hit, events, ran>>

\* Mutant: what was parsed before the entry that cannot be read is dropped.
RunToolAllOrNothing(t) ==
    \E outcome \in Outcomes, listed \in SUBSET Issues(t) :
        /\ t \in todo
        /\ outcome = "report" => listed = Issues(t)
        /\ outcome \notin {"report", "bad_entry"} => listed = {}
        /\ Continue("tool", "tool", {<<w, t>> : w \in Told(outcome)}
                       \cup (IF outcome = "report" THEN listed ELSE {}), {})
        /\ todo' = todo \ {t}
        /\ ran' = ran \cup {[on |-> t, outcome |-> outcome, listed |-> listed]}
        /\ UNCHANGED <<tree, onDisk, check, hit, events>>

(* The tool runs; the entries read before one that cannot be read stay.      *)
RunTool(t) ==
    \E outcome \in Outcomes, listed \in SUBSET Issues(t) :
        /\ t \in todo
        /\ outcome = "report" => listed = Issues(t)
        /\ outcome \notin {"report", "bad_entry"} => listed = {}
        /\ Continue("tool", "tool", {<<w, t>> : w \in Told(outcome)} \cup listed, {})
        /\ todo' = todo \ {t}
        /\ ran' = ran \cup {[on |-> t, outcome |-> outcome, listed |-> listed]}
        /\ UNCHANGED <<tree, onDisk, check, hit, events>>

EndTool ==
    /\ todo = {}
    /\ Continue("tool", "return", {}, {})
    /\ UNCHANGED source

StepSource ==
    \/ Begin \/ SkipCheck \/ StartWalk \/ EndWalk \/ WalkRaises \/ EndChecks
    \/ ReadLog \/ JudgeLogs \/ StartTool \/ EndTool
    \/ \E f \in Files : ReadFile(f) \/ ReadUntilFound(f) \/ DiscoverLog(f)
    \/ \E t \in Files \cup {"target"} : RunTool(t)

-----------------------------------------------------------------------------
(* Properties                                                              *)

Intact == onDisk = Present
PatternMarks == UNION {Checks[i].marks : i \in DOMAIN Checks}
HasPattern(f, c) == f \in tree.readable /\ tree.kind[f] \in c.globs /\ c.marks \cap tree.marks[f] # {}

(* The steps in some files, and the Python files of a key that can be read.  *)
HasTwoSteps(files) ==
    \E f, g \in files : \E m \in tree.marks[f] \cap DOMAIN StepOf, n \in tree.marks[g] \cap DOMAIN StepOf :
        StepOf[m] # StepOf[n]
PythonOf(k) == {f \in Files \cap tree.readable : tree.kind[f] = "py" /\ tree.key[f] = k}

\* In whatever order walks and removals happen, the red, blue and cloud agents
\* say of a file only what it holds, and of a chain only under a key whose files
\* hold two different steps of an attack path.  If nothing was removed from a
\* directory, they say all of it, except that CloudFormation templates are never
\* looked at (cloud_security_agent.py:90), that files that cannot be read are
\* passed over, and that no chain is told of files without a key; so "completed"
\* then means that no readable file matched.  A chain is meant for weaknesses "in
\* the same file" (src/README.md:344-345), but files may share a key.
ReportMatchesTree ==
    agent \in PatternAgents /\ at = "done" /\ check > Len(Checks) =>
        /\ \A f \in Present : {m \in PatternMarks : <<m, f>> \in findings} \subseteq tree.marks[f]
        /\ \A k \in Keys : <<"chain", k>> \in findings => k # "" /\ HasTwoSteps(PythonOf(k))
        /\ Intact /\ tree.isDir /\ agent = "red_team" =>
               \A k \in Keys \ {""} : HasTwoSteps(PythonOf(k)) => <<"chain", k>> \in findings
        /\ Intact /\ tree.isDir =>
               \A i \in DOMAIN Checks :
                   LET c    == Checks[i]
                       with == {f \in Present : HasPattern(f, c)}
                   IN  /\ c.how = "each" =>
                              \A f \in with : \A m \in c.marks \cap tree.marks[f] : <<m, f>> \in findings
                       /\ c.how = "first" =>
                              (with # {} <=> \E f \in with, m \in c.marks : <<m, f>> \in findings)
                       /\ c.how = "lacks" =>
                              (with = {} <=> \A m \in c.marks : <<m, "target">> \in findings)

LogKinds == {"log", "access_log", "old_log", "jsonl"}
LogFiles == IF tree.isDir THEN {f \in Present : tree.kind[f] \in LogKinds} ELSE Present

(* The lines of some files, each named by its file and number, and of these  *)
(* the failed logins and the probes from an address.                         *)
LinesIn(read) == {l \in read \X (1 .. MaxLines) : l[2] \in DOMAIN Lines(l[1])}
LineAt(l)     == Lines(l[1])[l[2]]

FailedFrom(f, s)    == Cardinality({l \in LinesIn({f}) : LineAt(l).failed /\ LineAt(l).source = s})
ProbesFrom(read, s) == Cardinality({l \in LinesIn(read) : LineAt(l).probe /\ LineAt(l).source = s})

BruteForce(f) == {s \in Sources : FailedFrom(f, s) >= BruteForceThreshold}
Scanners(read) ==
    {s \in Sources \ {"unknown"} : ProbesFrom(read, s) >= ScannerThreshold}
        \cup {f \in read : ProbesFrom({f}, "unknown") >= ScannerThreshold}
Suspicious(read) ==
    \/ Scanners(read) # {}
    \/ \E f \in read : BruteForce(f) # {}
    \/ \E l \in LinesIn(read) : LineAt(l).marks # {}

\* The blue team's word on the logs is what the log files it could read hold,
\* each counted once however many globs match it: brute force is as many failed
\* logins from one address in one file as the threshold, scanning as many probes
\* from one address in all files, and silence none of these.  Up to the cap no
\* log file of an intact directory is left out.  This is not what the README says,
\* "5+ failed-auth log lines from the same source IP" (src/README.md:380): failed
\* logins spread over several logs, rotated ones, are not added up.
LogVerdict ==
    agent = "blue_team" /\ at = "done" /\ logs # <<>> =>
        LET read == ingested[2] IN
        /\ \A f \in Files, s \in Sources :
               <<"brute_force", <<f, s>>>> \in findings <=> f \in read /\ s \in BruteForce(f)
        /\ \A k \in Files \cup Sources : <<"scanning", k>> \in findings <=> k \in Scanners(read)
        /\ <<"quiet_logs", "target">> \in findings <=> ~Suspicious(read)
        /\ <<"incident", "target">> \in findings <=> Suspicious(read)
        /\ Intact => /\ Len(logs) = Min({MaxLogFiles, Cardinality(LogFiles)})
                     /\ Range(logs) \subseteq LogFiles
                     /\ read = Range(logs) \cap tree.readable

\* What the agents that look for patterns say.
SourceVerdicts == ReportMatchesTree /\ LogVerdict

\* The endings of which execute says nothing.
Untold(outcome) ==
    \/ outcome = "no_output"
    \/ outcome = "garbage" /\ agent = "dependency_security"

\* A tool that is killed at its timeout, is not installed or leaves a report that
\* cannot be read takes nothing away from what other runs, or the entries before
\* the bad one, have reported, and it is told, with the exceptions of Untold; no
\* dependency file that stays on disk is passed over.
ToolTroubleIsTold ==
    agent \in ToolAgents /\ at = "done" =>
        /\ \A r \in ran :
               /\ r.listed \subseteq findings
               /\ r.outcome = "report" \/ Untold(r.outcome)
                      \/ \E w \in {"timeout", "error", "not_installed"} : <<w, r.on>> \in findings
        /\ agent = "dependency_security" /\ ran # {} =>
               onDisk \cap (IF tree.isDir THEN {f \in Files : tree.kind[f] \in {"requirements", "setup"}}
                            ELSE Files) \subseteq {r.on : r \in ran}
=============================================================================
