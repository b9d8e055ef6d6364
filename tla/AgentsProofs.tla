--------------------------- MODULE AgentsProofs ----------------------------
(* Proofs about the agents, for any directory, site and API, any sizes and   *)
(* any order of events: no agent probes its target without the client's      *)
(* confirmation, the verdicts on an API are what was seen of it, the crawl   *)
(* is breadth-first, trouble is told, and what is said of files and logs is   *)
(* what they hold.                                                           *)
EXTENDS Agents, FiniteSetTheorems, TLAPS

(* The places of execute that only a confirmed test reaches.                *)
Confirmed ==
    {"crawl", "pages", "reflection", "errors", "spec", "hidden", "burst", "baseline", "tokens"}

(* ProbesNeedConsent is not inductive: where execute is must tell that the  *)
(* confirmation was asked for.                                              *)
ConsentInv ==
    /\ at \in Confirmed => authorized
    /\ sent \cap Intrusive # {} => authorized

\* At first no agent has run.
LEMMA ConsentInit == Init => ConsentInv
BY DEF Init, InitRun, ConsentInv, Confirmed, Intrusive

\* A step of execute keeps the invariant if it enters a confirmed place from one,
\* or with the confirmation, and sends intrusive requests only from one.
LEMMA ContinueKeeps ==
    ASSUME ConsentInv,
           NEW from, NEW to, NEW found, NEW kinds,
           Continue(from, to, found, kinds),
           to \in Confirmed => from \in Confirmed \/ authorized,
           kinds \cap Intrusive # {} => from \in Confirmed
    PROVE  ConsentInv'
<1>1. authorized' = authorized /\ at = from /\ at' = to /\ sent' = sent \cup kinds
    BY DEF Continue
<1>2. at' \in Confirmed => authorized'
    BY <1>1 DEF ConsentInv
<1>3. sent' \cap Intrusive # {} => authorized'
    BY <1>1 DEF ConsentInv
<1>4. QED
    BY <1>2, <1>3 DEF ConsentInv, Confirmed, Intrusive

\* A step that leaves what every agent has alone keeps the invariant.
LEMMA IdleKeeps ==
    ASSUME ConsentInv, UNCHANGED run PROVE ConsentInv'
BY DEF ConsentInv, run, Confirmed, Intrusive

\* The agents that read a directory, and the tools, send nothing and never reach
\* a confirmed place.
LEMMA SourceKeeps ==
    ASSUME ConsentInv, StepSource PROVE ConsentInv'
<1> USE DEF Confirmed, Intrusive
<1>1. CASE Begin
    BY <1>1, ContinueKeeps DEF Begin
<1>2. CASE SkipCheck
    BY <1>2, ContinueKeeps DEF SkipCheck
<1>3. CASE StartWalk
    BY <1>3, ContinueKeeps DEF StartWalk
<1>4. CASE EndWalk
  <2> DEFINE found == IF How("lacks") /\ ~hit THEN {<<m, "target">> : m \in Current.marks} ELSE {}
  <2>1. Continue("walk", "check", found, {})
    BY <1>4 DEF EndWalk
  <2> HIDE DEF found
  <2>2. QED
    BY <2>1, ContinueKeeps
<1>5. CASE WalkRaises
  <2>1. CASE How("logs")
    BY <1>5, <2>1 DEF WalkRaises, ConsentInv
  <2>2. CASE ~How("logs")
    BY <1>5, <2>2, ContinueKeeps DEF WalkRaises
  <2>3. QED
    BY <2>1, <2>2
<1>6. CASE EndChecks
  <2> DEFINE to == IF agent = "blue_team" /\ logs # <<>> THEN "logs" ELSE "return"
             found == IF agent = "red_team" THEN {<<"chain", k>> : k \in Chained(findings)} ELSE {}
  <2>1. Continue("check", to, found, {})
    BY <1>6 DEF EndChecks
  <2>2. to \notin Confirmed
    OBVIOUS
  <2> HIDE DEF to, found
  <2>3. QED
    BY <2>1, <2>2, ContinueKeeps
<1>7. CASE ReadLog
    BY <1>7, ContinueKeeps DEF ReadLog
<1>8. CASE JudgeLogs
  <2>1. PICK found : Continue("logs", "return", found, {})
    BY <1>8 DEF JudgeLogs
  <2>2. QED
    BY <2>1, ContinueKeeps
<1>9. CASE StartTool
  <2>1. PICK to, found : Continue("start", to, found, {}) /\ to \in {"tool", "done"}
    BY <1>9 DEF StartTool
  <2>2. QED
    BY <2>1, ContinueKeeps
<1>10. CASE EndTool
    BY <1>10, ContinueKeeps DEF EndTool
<1>11. ASSUME NEW f \in Files, ReadFile(f) PROVE ConsentInv'
  <2>1. PICK found : Continue("walk", "walk", found, {})
    BY <1>11 DEF ReadFile
  <2>2. QED
    BY <2>1, ContinueKeeps
<1>12. ASSUME NEW f \in Files, ReadUntilFound(f) PROVE ConsentInv'
  <2>1. PICK found : Continue("walk", "walk", found, {})
    BY <1>12 DEF ReadUntilFound
  <2>2. QED
    BY <2>1, ContinueKeeps
<1>13. ASSUME NEW f \in Files, DiscoverLog(f) PROVE ConsentInv'
    BY <1>13, ContinueKeeps DEF DiscoverLog
<1>14. ASSUME NEW t \in Files \cup {"target"}, RunTool(t) PROVE ConsentInv'
  <2>1. PICK found : Continue("tool", "tool", found, {})
    BY <1>14 DEF RunTool
  <2>2. QED
    BY <2>1, ContinueKeeps
<1>15. QED
    BY <1>1, <1>2, <1>3, <1>4, <1>5, <1>6, <1>7, <1>8, <1>9, <1>10, <1>11, <1>12, <1>13, <1>14
    DEF StepSource

\* The black-box agent crawls only after DeepAssessment found the confirmation.
LEMMA WebKeeps ==
    ASSUME ConsentInv, StepWeb PROVE ConsentInv'
<1> USE DEF Confirmed, Intrusive
<1>1. CASE ValidateTarget
    BY <1>1, ContinueKeeps DEF ValidateTarget
<1>2. CASE ScanPorts
  <2>1. PICK to, found : Continue("ports", to, found, {"connect"}) /\ to \in {"front", "deep"}
    BY <1>2 DEF ScanPorts
  <2>2. QED
    BY <2>1, ContinueKeeps
<1>3. CASE CheckWebServer
    BY <1>3, ContinueKeeps DEF CheckWebServer
<1>4. CASE DeepAssessment
  <2>1. CASE site.isUrl /\ authorized
    BY <1>4, <2>1, ContinueKeeps DEF DeepAssessment
  <2>2. CASE ~(site.isUrl /\ authorized)
    <3>1. PICK found : Continue("deep", "return", found, {})
      BY <1>4, <2>2 DEF DeepAssessment
    <3>2. QED
      BY <3>1, ContinueKeeps
  <2>3. QED
    BY <2>1, <2>2
<1>5. CASE SkipVisited
    BY <1>5, ContinueKeeps DEF SkipVisited
<1>6. CASE FetchFails
    BY <1>6, ContinueKeeps DEF FetchFails
<1>7. CASE FetchPage
    BY <1>7, ContinueKeeps DEF FetchPage
<1>8. CASE FetchUnparsable
    BY <1>8, ContinueKeeps DEF FetchUnparsable
<1>9. CASE EndCrawl
  <2>1. PICK found : Continue("crawl", "pages", found, {})
    BY <1>9 DEF EndCrawl
  <2>2. QED
    BY <2>1, ContinueKeeps
<1>10. CASE CheckForms
  <2>1. PICK to, found : Continue("pages", to, found, {})
    BY <1>10 DEF CheckForms
  <2>2. QED
    BY <2>1, ContinueKeeps
<1>11. CASE CheckReflection
  <2>1. PICK found : Continue("reflection", "errors", found, {"probe"})
    BY <1>11 DEF CheckReflection, Probe
  <2>2. QED
    BY <2>1, ContinueKeeps
<1>12. CASE CheckErrors
  <2>1. PICK found : Continue("errors", "pages", found, {"probe"})
    BY <1>12 DEF CheckErrors, Probe
  <2>2. QED
    BY <2>1, ContinueKeeps
<1>13. CASE EndPages
    BY <1>13, ContinueKeeps DEF EndPages
<1>14. QED
    BY <1>1, <1>2, <1>3, <1>4, <1>5, <1>6, <1>7, <1>8, <1>9, <1>10, <1>11, <1>12, <1>13
    DEF StepWeb

\* The API agent probes only after DecideActive, or DecideServer, found it.
LEMMA ApiKeeps ==
    ASSUME ConsentInv, StepApi PROVE ConsentInv'
<1> USE DEF Confirmed, Intrusive
<1>1. CASE GetPlain
  <2>1. PICK found : Continue("start", "headers", found, {"get"})
    BY <1>1 DEF GetPlain
  <2>2. QED
    BY <2>1, ContinueKeeps
<1>2. CASE GetHeaders
  <2>1. PICK found : Continue("headers", "claims", found, {"get"})
    BY <1>2 DEF GetHeaders
  <2>2. QED
    BY <2>1, ContinueKeeps
<1>3. CASE InspectClaims
  <2>1. PICK to, found : Continue("claims", to, found, {}) /\ to \in {"cors", "return"}
    BY <1>3 DEF InspectClaims, GiveUp
  <2>2. QED
    BY <2>1, ContinueKeeps
<1>4. CASE GetFromOrigin
  <2>1. PICK found : Continue("cors", "active", found, {"get"})
    BY <1>4 DEF GetFromOrigin
  <2>2. QED
    BY <2>1, ContinueKeeps
<1>5. CASE DecideActive
    BY <1>5, ContinueKeeps DEF DecideActive, GiveUp
<1>6. CASE FetchSpec
  <2>1. PICK to, found : Continue("spec", to, found, {"spec"})
    BY <1>6 DEF FetchSpec, GiveUp
  <2>2. QED
    BY <2>1, ContinueKeeps
<1>7. CASE NoSpec
    BY <1>7, ContinueKeeps DEF NoSpec
<1>8. CASE SkipDocumented
    BY <1>8, ContinueKeeps DEF SkipDocumented
<1>9. CASE ProbeHidden
  <2>1. PICK found : Continue("hidden", "hidden", found, {"hidden"})
    BY <1>9 DEF ProbeHidden
  <2>2. QED
    BY <2>1, ContinueKeeps
<1>10. CASE EndHidden
  <2>1. PICK to : Continue("hidden", to, {}, {})
    BY <1>10 DEF EndHidden
  <2>2. QED
    BY <2>1, ContinueKeeps
<1>11. CASE Burst
    BY <1>11, ContinueKeeps DEF Burst
<1>12. CASE JudgeBurst
  <2>1. PICK found : Continue("burst", "baseline", found, {})
    BY <1>12 DEF JudgeBurst
  <2>2. QED
    BY <2>1, ContinueKeeps
<1>13. CASE GetBaseline
  <2>1. PICK to : Continue("baseline", to, {}, {"baseline"})
    BY <1>13 DEF GetBaseline
  <2>2. QED
    BY <2>1, ContinueKeeps
<1>14. CASE ProbeToken
  <2>1. PICK found : Continue("tokens", "tokens", found, {"token"})
    BY <1>14 DEF ProbeToken
  <2>2. QED
    BY <2>1, ContinueKeeps
<1>15. CASE EndTokens
    BY <1>15, ContinueKeeps DEF EndTokens
<1>16. CASE OpenSpec
  <2>1. PICK to, found : Continue("start", to, found, {}) /\ to \in {"return", "paths"}
    BY <1>16 DEF OpenSpec, GiveUp
  <2>2. QED
    BY <2>1, ContinueKeeps
<1>17. CASE CheckPath
  <2>1. PICK to, found : Continue("paths", to, found, {}) /\ to \in {"return", "paths"}
    BY <1>17 DEF CheckPath, GiveUp
  <2>2. QED
    BY <2>1, ContinueKeeps
<1>18. CASE DecideServer
  <2>1. PICK to, found : Continue("paths", to, found, {}) /\ (authorized \/ to = "return")
    BY <1>18 DEF DecideServer, GiveUp
  <2>2. QED
    BY <2>1, ContinueKeeps
<1>19. QED
    BY <1>1, <1>2, <1>3, <1>4, <1>5, <1>6, <1>7, <1>8, <1>9, <1>10, <1>11, <1>12, <1>13, <1>14,
       <1>15, <1>16, <1>17, <1>18
    DEF StepApi

\* Every step keeps what an agent knows of the consent.
LEMMA ConsentStep == ConsentInv /\ [Next]_vars => ConsentInv'
<1> SUFFICES ASSUME ConsentInv, [Next]_vars PROVE ConsentInv'
    OBVIOUS
<1>1. CASE Step
  <2>1. CASE StepSource
    BY <2>1, SourceKeeps
  <2>2. CASE StepWeb
    BY <2>2, WebKeeps
  <2>3. CASE StepApi
    BY <2>3, ApiKeeps
  <2>4. CASE NoTarget
    BY <2>4, ContinueKeeps DEF NoTarget, Confirmed
  <2>5. CASE Return
    <3>1. PICK found : Continue("return", "done", found, {})
      BY <2>5 DEF Return
    <3>2. QED
      BY <3>1, ContinueKeeps DEF Confirmed
  <2>6. QED
    BY <1>1, <2>1, <2>2, <2>3, <2>4, <2>5 DEF Step
<1>2. CASE Around
    BY <1>2, IdleKeeps DEF Around, RemoveFile, WindowReset
<1>3. CASE UNCHANGED vars
    BY <1>3, IdleKeeps DEF vars
<1>4. QED
    BY <1>1, <1>2, <1>3 DEF Next

\* No agent crawls, changes parameters, probes endpoints, sends a burst or crafts
\* tokens unless the client has confirmed that the target may be tested
\* (core/agent.py:18-19): for every target and every order of answers, failures and
\* removals.
THEOREM ProbesAlwaysNeedConsent == Spec => []ProbesNeedConsent
<1>1. ConsentInv => ProbesNeedConsent
    BY DEF ConsentInv, ProbesNeedConsent
<1>2. QED
    BY <1>1, ConsentInit, ConsentStep, PTL DEF Spec

(***************************************************************************)
(* What is known of an execution of the API agent                          *)
(***************************************************************************)

(* The stages, in the order in which a URL goes through them; a file goes    *)
(* from "start" to "paths" and "hidden".                                     *)
Plain     == {"start", "headers", "claims", "cors", "active"}
ToHidden  == Plain \cup {"spec", "paths"}
ToBurst   == ToHidden \cup {"hidden"}
ToTokens  == ToBurst \cup {"burst", "baseline"}
Over      == {"return", "done"}
UrlStages == {"headers", "claims", "cors", "active", "spec", "burst", "baseline", "tokens"}

Failure == Reports("error", "target")

(* Where execute is, the loop under way, and the server's limit.             *)
ApiPlaced ==
    /\ api \in Apis
    /\ at \in ToTokens \cup {"tokens", "no_target"} \cup Over
    /\ at \in UrlStages => api.isUrl
    /\ at = "paths" => ~api.isUrl /\ api.file = "spec"
    /\ index \in Nat \ {0}
    /\ at \in Plain => index = 1
    /\ budget \in Nat /\ budget <= api.limit

(* Nothing is said or known of a stage before it is reached.                 *)
NotYet ==
    /\ at \in ToHidden => /\ "hidden" \notin sent /\ documented = {}
                          /\ \A c \in Range(Candidates) : ~Reports("hidden", c)
    /\ at \in ToBurst => burst = [answers |-> 0, limited |-> FALSE] /\ ~reset
    /\ at \in ToBurst \cup {"burst"} => ~Reports("no_rate_limit", "target")
    /\ at \in ToTokens => \A t \in Range(Tokens) : ~Reports("weak_token", t)
    /\ at = "start" => \A i \in DOMAIN api.paths : ~Reports("unprotected", i)
    /\ at \in ToHidden => ~Reports("spec", "target")

(* What the specification is compared with, and why there may be none.       *)
Unpublished ==
    api.isUrl /\ ("spec" \in failures \/ api.limited
                    \/ \A i \in DOMAIN api.specs : api.specs[i] # "spec")

(* The probes of hidden endpoints have begun, and how they may have ended.   *)
Probing ==
    \/ at \in {"hidden", "burst", "baseline", "tokens"}
    \/ \E c \in Range(Candidates) : Reports("hidden", c)
Probed ==
    \/ at \in {"burst", "baseline", "tokens"}
    \/ at \in Over /\ authorized /\ HasServer /\ ~Failure

SpecSought ==
    /\ documented \in {{}, api.listed}
    /\ Probing \/ Probed =>
          documented = IF ~api.isUrl \/ Reports("spec", "target") THEN api.listed ELSE {}
    /\ at = "spec" =>
          /\ \A i \in DOMAIN api.specs :
                i < index /\ api.specs[i] = "spec" => "spec" \in failures \/ api.limited
          /\ index > 1 => "spec" \in sent
    /\ at = "hidden" \/ (\E c \in Range(Candidates) : Reports("hidden", c)) =>
          documented = api.listed \/ Unpublished

(* The candidates that were asked for.                                       *)
Discovered(c) ==
    Quiet("hidden") /\ api.live[c] \in Exists /\ c \notin documented => Reports("hidden", c)

HiddenProbed ==
    /\ \A c \in Range(Candidates) :
          Reports("hidden", c) => api.live[c] \in Exists /\ c \notin documented
    /\ at = "hidden" => \A i \in DOMAIN Candidates : i < index => Discovered(Candidates[i])
    /\ Probed => \A i \in DOMAIN Candidates : Discovered(Candidates[i])

(* The requests of the burst, while it runs and when it has ended.           *)
BurstCut == burst.answers < ProbeCount /\ "burst" \in failures

BurstSent ==
    /\ at = "burst" =>
          /\ burst.answers \in 0 .. ProbeCount
          /\ index <= ProbeCount => burst.answers = index - 1 /\ ~burst.limited
          /\ index > ProbeCount => burst.limited \/ burst.answers = ProbeCount \/ BurstCut
          /\ burst.limited => api.limited
          /\ api.limited /\ ~burst.limited => reset \/ budget + burst.answers <= api.limit
          /\ index > 1 => "burst" \in sent
    /\ at \in {"baseline", "tokens"} \/ (at \in Over /\ api.isUrl /\ authorized /\ ~Failure) =>
          IF api.limited
          THEN Reports("no_rate_limit", "target") => api.limit >= ProbeCount \/ reset \/ BurstCut
          ELSE Reports("no_rate_limit", "target") \/ (burst.answers = 0 /\ "burst" \in failures)

(* The crafted tokens that were sent.                                        *)
Accepted(t) ==
    t \in api.accepts /\ api.usual = "denied" /\ Quiet("baseline") /\ Quiet("tokens") =>
        Reports("weak_token", t)

TokensSent ==
    /\ \A t \in Range(Tokens) : Reports("weak_token", t) =>
          \/ t \in api.accepts /\ api.usual # "ok"
          \/ api.usual = "ok" /\ baseline \in {"limited", "error"}
    /\ at = "tokens" =>
          /\ baseline \in {api.usual, "error", "limited"}
          /\ Quiet("baseline") => baseline = api.usual
          /\ \A i \in DOMAIN Tokens : i < index => Accepted(Tokens[i])
    /\ at \in Over /\ api.isUrl /\ authorized /\ ~Failure =>
          \A i \in DOMAIN Tokens : Accepted(Tokens[i])

(* The paths of a file.                                                      *)
PathsChecked ==
    /\ at = "paths" =>
          \A i \in DOMAIN api.paths :
              i < index /\ api.paths[i] = "open" <=> Reports("unprotected", i)
    /\ at \in Over \cup {"hidden"} /\ ~api.isUrl /\ api.file = "spec" /\ ~Failure =>
          \A i \in DOMAIN api.paths : api.paths[i] = "open" <=> Reports("unprotected", i)

(* What was tried of a URL, and that the rest is told to be skipped.         *)
StagesTried ==
    /\ api.isUrl /\ at \notin {"start", "no_target"} => "get" \in sent
    /\ api.isUrl /\ at \in {"hidden", "burst", "baseline", "tokens"} => "spec" \in sent
    /\ at \in {"baseline", "tokens"} => "burst" \in sent
    /\ at = "hidden" => "hidden" \in sent \/ \A i \in DOMAIN Candidates :
                                                  i < index => Candidates[i] \in documented
    /\ Probed => "hidden" \in sent \/ \A i \in DOMAIN Candidates : Candidates[i] \in documented
    /\ at = "tokens" => "baseline" \in sent /\ (index > 1 => "token" \in sent)
    /\ at \in Over /\ api.isUrl /\ authorized /\ ~Failure =>
          {"spec", "burst", "baseline"} \subseteq sent /\ ("token" \in sent \/ baseline = "fail")
    /\ /\ at \in Over /\ ~authorized /\ ~Failure
       /\ api.isUrl \/ (api.file = "spec" /\ api.serves \in {"url", "malformed"})
       => Reports("skipped", "target")

ApiInv ==
    agent = "api_security" =>
        /\ ApiPlaced /\ NotYet /\ SpecSought /\ HiddenProbed
        /\ BurstSent /\ TokensSent /\ PathsChecked /\ StagesTried

(* Of the kinds of finding that the invariant speaks of, a step adds only    *)
(* these.                                                                    *)
Sayings == {"error", "spec", "hidden", "no_rate_limit", "weak_token", "unprotected", "skipped"}

SaysOnly(kinds) ==
    /\ findings \subseteq findings'
    /\ \A what \in Sayings \ kinds : \A where : Reports(what, where)' => Reports(what, where)

\* The lists that the agent goes through.
LEMMA Lists ==
    /\ Len(Candidates) \in Nat /\ DOMAIN Candidates = 1 .. Len(Candidates)
    /\ Range(Candidates) = {Candidates[i] : i \in DOMAIN Candidates}
    /\ Len(Tokens) \in Nat \ {0} /\ DOMAIN Tokens = 1 .. Len(Tokens)
    /\ Range(Tokens) = {Tokens[i] : i \in DOMAIN Tokens}
    /\ \A x \in Apis :
          /\ Len(x.specs) \in Nat /\ DOMAIN x.specs = 1 .. Len(x.specs)
          /\ x.isUrl => Len(x.specs) > 0
          /\ Len(x.paths) \in Nat /\ DOMAIN x.paths = 1 .. Len(x.paths)
<1>1. /\ Candidates \in Seq(Range(Candidates)) /\ Tokens \in Seq(Range(Tokens)) /\ Tokens # <<>>
      /\ \A x \in Apis : /\ x.specs \in Seq({"none", "other", "no_object", "spec"})
                         /\ x.isUrl => x.specs # <<>>
                         /\ x.paths \in Seq({"open", "secured", "no_object"})
    BY ApisAssumption
<1>2. \A x \in Apis : /\ Len(x.specs) \in Nat /\ DOMAIN x.specs = 1 .. Len(x.specs)
                      /\ x.isUrl => Len(x.specs) > 0
                      /\ Len(x.paths) \in Nat /\ DOMAIN x.paths = 1 .. Len(x.paths)
    BY <1>1
<1>3. /\ Len(Candidates) \in Nat /\ DOMAIN Candidates = 1 .. Len(Candidates)
      /\ Len(Tokens) \in Nat \ {0} /\ DOMAIN Tokens = 1 .. Len(Tokens)
    BY <1>1
<1> QED
    BY <1>2, <1>3 DEF Range

\* The usual answers, the limit, and the length of the burst.
LEMMA Usual ==
    ASSUME ApiPlaced
    PROVE  /\ api.usual # "limited"
           /\ \A i \in DOMAIN Candidates : api.live[Candidates[i]] # "limited"
           /\ api.limit \in Nat /\ ProbeCount \in Nat /\ ProbeCount > 0
<1>1. \A i \in DOMAIN Candidates : Candidates[i] \in Range(Candidates)
    BY DEF Range
<1>2. /\ {api.usual} \cup {api.live[c] : c \in Range(Candidates)}
            \subseteq {"ok", "redirect", "denied", "missing"}
      /\ api.limit \in Nat
  <2>1. api \in Apis
    BY DEF ApiPlaced
  <2> QED
    BY <2>1, ApisAssumption
<1>3. api.usual # "limited"
  BY <1>2
<1>4. \A i \in DOMAIN Candidates : api.live[Candidates[i]] # "limited"
  <2> SUFFICES ASSUME NEW i \in DOMAIN Candidates
               PROVE  api.live[Candidates[i]] # "limited"
    OBVIOUS
  <2>1. api.live[Candidates[i]] \in {api.live[c] : c \in Range(Candidates)}
    BY <1>1
  <2> QED
    BY <1>2, <2>1
<1> QED
    BY <1>2, <1>3, <1>4, ProbeAssumption

\* A request: what it does to the server, and what an answer that is not the
\* usual one means.
LEMMA Served ==
    ASSUME ApiPlaced, NEW usual, usual # "limited", NEW reply, Get(usual, reply)
    PROVE  /\ UNCHANGED <<api, reset>> /\ failures \subseteq failures'
           /\ at \notin Active => failures' = failures
           /\ budget' \in Nat /\ budget' <= budget /\ budget' <= api.limit
           /\ reply \in {usual, "limited", "error", "fail"}
           /\ reply = "limited" => api.limited
           /\ reply # usual /\ at \in Active => api.limited \/ at \in failures'
           /\ reply = "fail" /\ at \in Active => at \in failures'
           /\ api.limited /\ reply \notin {"limited", "fail"} => budget' = budget - 1
BY Usual DEF ApiPlaced, Get, Answer, Answers

\* The plain request.
LEMMA GetPlainApi ==
    ASSUME ConsentInv, ApiInv, GetPlain PROVE ApiInv'
<1> SUFFICES ASSUME agent = "api_security" PROVE ApiInv'
    BY DEF GetPlain, Continue, GiveUp, run, ApiInv
<1>1. ApiPlaced /\ NotYet /\ SpecSought /\ HiddenProbed /\ BurstSent /\ TokensSent /\ PathsChecked
      /\ StagesTried
    BY DEF ApiInv
<1>2. PICK reply : Get(api.usual, reply)
    BY DEF GetPlain
<1>3. /\ at = "start" /\ at' = "headers" /\ sent' = sent \cup {"get"} /\ api.isUrl
      /\ UNCHANGED <<agent, authorized, index, documented, burst, baseline>>
      /\ SaysOnly({})
    BY DEF GetPlain, Continue, SaysOnly, Sayings, Reports
<1>4. /\ UNCHANGED <<api, reset, failures>>
      /\ budget' \in Nat /\ budget' <= api.limit
    BY <1>1, <1>2, <1>3, Served, Usual DEF Active
<1>5. ApiPlaced'
    BY <1>1, <1>2, <1>3, <1>4, Lists
    DEF ApiPlaced, ToTokens, ToBurst, ToHidden, Plain, Over, UrlStages, SaysOnly, Sayings, Reports
<1>6. NotYet'
    BY <1>1, <1>2, <1>3, <1>4, Lists
    DEF NotYet, ToTokens, ToBurst, ToHidden, Plain, ApiPlaced, SaysOnly, Sayings, Reports
<1>7. SpecSought'
    BY <1>1, <1>2, <1>3, <1>4, Lists
    DEF SpecSought, Probing, Probed, HasServer, Failure, Over, NotYet, ToHidden, Plain,
        Unpublished, ApiPlaced, SaysOnly, Sayings, Reports
<1>8. HiddenProbed'
    BY <1>1, <1>2, <1>3, <1>4, Lists
    DEF HiddenProbed, Probed, HasServer, Failure, Discovered, Quiet, Over, ApiPlaced, SaysOnly,
        Sayings, Reports
<1>9. BurstSent'
    BY <1>1, <1>2, <1>3, <1>4, Lists, Usual
    DEF BurstSent, BurstCut, Failure, Over, ApiPlaced, SaysOnly, Sayings, Reports
<1>10. TokensSent'
    BY <1>1, <1>2, <1>3, <1>4, Lists
    DEF TokensSent, Accepted, Quiet, Failure, Over, ApiPlaced, SaysOnly, Sayings, Reports
<1>11. PathsChecked'
    BY <1>1, <1>2, <1>3, <1>4, Lists
    DEF PathsChecked, Failure, Over, ApiPlaced, SaysOnly, Sayings, Reports
<1>12. StagesTried'
    BY <1>1, <1>2, <1>3, <1>4, Lists
    DEF StagesTried, Probed, HasServer, Failure, Over, ApiPlaced, SaysOnly, Sayings, Reports
<1> QED
    BY <1>5, <1>6, <1>7, <1>8, <1>9, <1>10, <1>11, <1>12 DEF ApiInv

\* The request for the headers.
LEMMA GetHeadersApi ==
    ASSUME ConsentInv, ApiInv, GetHeaders PROVE ApiInv'
<1> SUFFICES ASSUME agent = "api_security" PROVE ApiInv'
    BY DEF GetHeaders, Continue, GiveUp, run, ApiInv
<1>1. ApiPlaced /\ NotYet /\ SpecSought /\ HiddenProbed /\ BurstSent /\ TokensSent /\ PathsChecked
      /\ StagesTried
    BY DEF ApiInv
<1>2. PICK reply : Get(api.usual, reply)
    BY DEF GetHeaders
<1>3. /\ at = "headers" /\ at' = "claims" /\ sent' = sent \cup {"get"}
      /\ UNCHANGED <<agent, authorized, index, documented, burst, baseline>>
      /\ SaysOnly({})
    BY DEF GetHeaders, Continue, SaysOnly, Sayings, Reports
<1>4. /\ UNCHANGED <<api, reset, failures>>
      /\ budget' \in Nat /\ budget' <= api.limit
    BY <1>1, <1>2, <1>3, Served, Usual DEF Active
<1>5. ApiPlaced'
    BY <1>1, <1>2, <1>3, <1>4, Lists
    DEF ApiPlaced, ToTokens, ToBurst, ToHidden, Plain, Over, UrlStages, SaysOnly, Sayings, Reports
<1>6. NotYet'
    BY <1>1, <1>2, <1>3, <1>4, Lists
    DEF NotYet, ToTokens, ToBurst, ToHidden, Plain, ApiPlaced, SaysOnly, Sayings, Reports
<1>7. SpecSought'
    BY <1>1, <1>2, <1>3, <1>4, Lists
    DEF SpecSought, Probing, Probed, HasServer, Failure, Over, NotYet, ToHidden, Plain,
        Unpublished, ApiPlaced, SaysOnly, Sayings, Reports
<1>8. HiddenProbed'
    BY <1>1, <1>2, <1>3, <1>4, Lists
    DEF HiddenProbed, Probed, HasServer, Failure, Discovered, Quiet, Over, ApiPlaced, SaysOnly,
        Sayings, Reports
<1>9. BurstSent'
    BY <1>1, <1>2, <1>3, <1>4, Lists, Usual
    DEF BurstSent, BurstCut, Failure, Over, ApiPlaced, SaysOnly, Sayings, Reports
<1>10. TokensSent'
    BY <1>1, <1>2, <1>3, <1>4, Lists
    DEF TokensSent, Accepted, Quiet, Failure, Over, ApiPlaced, SaysOnly, Sayings, Reports
<1>11. PathsChecked'
    BY <1>1, <1>2, <1>3, <1>4, Lists
    DEF PathsChecked, Failure, Over, ApiPlaced, SaysOnly, Sayings, Reports
<1>12. StagesTried'
    BY <1>1, <1>2, <1>3, <1>4, Lists
    DEF StagesTried, Probed, HasServer, Failure, Over, ApiPlaced, SaysOnly, Sayings, Reports
<1> QED
    BY <1>5, <1>6, <1>7, <1>8, <1>9, <1>10, <1>11, <1>12 DEF ApiInv

\* The token in the page.  One that raises leaves the test with an error.
LEMMA InspectClaimsApi ==
    ASSUME ConsentInv, ApiInv, InspectClaims PROVE ApiInv'
<1> SUFFICES ASSUME agent = "api_security" PROVE ApiInv'
    BY DEF InspectClaims, Continue, GiveUp, run, ApiInv
<1>1. ApiPlaced /\ NotYet /\ SpecSought /\ HiddenProbed /\ BurstSent /\ TokensSent /\ PathsChecked
      /\ StagesTried
    BY DEF ApiInv
<1>2. /\ at = "claims" /\ sent' = sent
      /\ UNCHANGED <<agent, authorized, server, index, documented, burst, baseline>>
    BY DEF InspectClaims, GiveUp, Continue
<1>3. \/ at' = "cors" /\ SaysOnly({})
      \/ at' = "return" /\ SaysOnly({"error"}) /\ Failure'
    BY <1>1, ApisAssumption
    DEF InspectClaims, GiveUp, Continue, SaysOnly, Sayings, Reports, Failure, ApiPlaced
<1>4. UNCHANGED <<api, reset, failures, budget>>
    BY <1>2 DEF server
<1>5. ApiPlaced'
    BY <1>1, <1>2, <1>3, <1>4, Lists
    DEF ApiPlaced, ToTokens, ToBurst, ToHidden, Plain, Over, UrlStages, SaysOnly, Sayings, Reports
<1>6. NotYet'
    BY <1>1, <1>2, <1>3, <1>4, Lists
    DEF NotYet, ToTokens, ToBurst, ToHidden, Plain, ApiPlaced, SaysOnly, Sayings, Reports
<1>7. SpecSought'
    BY <1>1, <1>2, <1>3, <1>4, Lists
    DEF SpecSought, Probing, Probed, HasServer, Failure, Over, NotYet, ToHidden, Plain,
        Unpublished, ApiPlaced, SaysOnly, Sayings, Reports
<1>8. HiddenProbed'
    BY <1>1, <1>2, <1>3, <1>4, Lists
    DEF HiddenProbed, Probed, HasServer, Failure, Discovered, Quiet, Over, ApiPlaced, NotYet,
        ToHidden, Plain, SaysOnly,
       Sayings, Reports
<1>9. BurstSent'
    BY <1>1, <1>2, <1>3, <1>4, Lists, Usual
    DEF BurstSent, BurstCut, Failure, Over, ApiPlaced, SaysOnly, Sayings, Reports
<1>10. TokensSent'
    BY <1>1, <1>2, <1>3, <1>4, Lists
    DEF TokensSent, Accepted, Quiet, Failure, Over, ApiPlaced, SaysOnly, Sayings, Reports
<1>11. PathsChecked'
    BY <1>1, <1>2, <1>3, <1>4, Lists
    DEF PathsChecked, Failure, Over, ApiPlaced, SaysOnly, Sayings, Reports
<1>12. StagesTried'
    BY <1>1, <1>2, <1>3, <1>4, Lists
    DEF StagesTried, Probed, HasServer, Failure, Over, ApiPlaced, SaysOnly, Sayings, Reports
<1> QED
    BY <1>5, <1>6, <1>7, <1>8, <1>9, <1>10, <1>11, <1>12 DEF ApiInv

\* The request from another origin.
LEMMA GetFromOriginApi ==
    ASSUME ConsentInv, ApiInv, GetFromOrigin PROVE ApiInv'
<1> SUFFICES ASSUME agent = "api_security" PROVE ApiInv'
    BY DEF GetFromOrigin, Continue, GiveUp, run, ApiInv
<1>1. ApiPlaced /\ NotYet /\ SpecSought /\ HiddenProbed /\ BurstSent /\ TokensSent /\ PathsChecked
      /\ StagesTried
    BY DEF ApiInv
<1>2. PICK reply : Get(api.usual, reply)
    BY DEF GetFromOrigin
<1>3. /\ at = "cors" /\ at' = "active" /\ sent' = sent \cup {"get"}
      /\ UNCHANGED <<agent, authorized, index, documented, burst, baseline>>
      /\ SaysOnly({})
    BY DEF GetFromOrigin, Continue, SaysOnly, Sayings, Reports, memory
<1>4. /\ UNCHANGED <<api, reset, failures>>
      /\ budget' \in Nat /\ budget' <= api.limit
    BY <1>1, <1>2, <1>3, Served, Usual DEF Active
<1>5. ApiPlaced'
    BY <1>1, <1>2, <1>3, <1>4, Lists
    DEF ApiPlaced, ToTokens, ToBurst, ToHidden, Plain, Over, UrlStages, SaysOnly, Sayings, Reports
<1>6. NotYet'
    BY <1>1, <1>2, <1>3, <1>4, Lists
    DEF NotYet, ToTokens, ToBurst, ToHidden, Plain, ApiPlaced, SaysOnly, Sayings, Reports
<1>7. SpecSought'
    BY <1>1, <1>2, <1>3, <1>4, Lists
    DEF SpecSought, Probing, Probed, HasServer, Failure, Over, NotYet, ToHidden, Plain,
        Unpublished, ApiPlaced, SaysOnly, Sayings, Reports
<1>8. HiddenProbed'
    BY <1>1, <1>2, <1>3, <1>4, Lists
    DEF HiddenProbed, Probed, HasServer, Failure, Discovered, Quiet, Over, ApiPlaced, SaysOnly,
        Sayings, Reports
<1>9. BurstSent'
    BY <1>1, <1>2, <1>3, <1>4, Lists, Usual
    DEF BurstSent, BurstCut, Failure, Over, ApiPlaced, SaysOnly, Sayings, Reports
<1>10. TokensSent'
    BY <1>1, <1>2, <1>3, <1>4, Lists
    DEF TokensSent, Accepted, Quiet, Failure, Over, ApiPlaced, SaysOnly, Sayings, Reports
<1>11. PathsChecked'
    BY <1>1, <1>2, <1>3, <1>4, Lists
    DEF PathsChecked, Failure, Over, ApiPlaced, SaysOnly, Sayings, Reports
<1>12. StagesTried'
    BY <1>1, <1>2, <1>3, <1>4, Lists
    DEF StagesTried, Probed, HasServer, Failure, Over, ApiPlaced, SaysOnly, Sayings, Reports
<1> QED
    BY <1>5, <1>6, <1>7, <1>8, <1>9, <1>10, <1>11, <1>12 DEF ApiInv

\* The active tests, or the word that they are skipped.
LEMMA DecideActiveApi ==
    ASSUME ConsentInv, ApiInv, DecideActive PROVE ApiInv'
<1> SUFFICES ASSUME agent = "api_security" PROVE ApiInv'
    BY DEF DecideActive, Continue, GiveUp, run, ApiInv
<1>1. ApiPlaced /\ NotYet /\ SpecSought /\ HiddenProbed /\ BurstSent /\ TokensSent /\ PathsChecked
      /\ StagesTried
    BY DEF ApiInv
<1>2. /\ at = "active" /\ sent' = sent
      /\ UNCHANGED <<agent, authorized, index, api, reset, failures, budget, documented, burst,
             baseline>>
    BY DEF DecideActive, GiveUp, Continue, probing, server, memory
<1>3. \/ authorized /\ at' = "spec" /\ SaysOnly({})
      \/ at' = "return" /\ SaysOnly({"error"}) /\ Failure'
      \/ ~authorized /\ at' = "return" /\ SaysOnly({"skipped"}) /\ Reports("skipped", "target")'
    BY DEF DecideActive, GiveUp, Continue, SaysOnly, Sayings, Reports, Skipped, Failure
<1>4. ApiPlaced'
    BY <1>1, <1>2, <1>3, Lists
    DEF ApiPlaced, ToTokens, ToBurst, ToHidden, Plain, Over, UrlStages, SaysOnly, Sayings, Reports
<1>5. NotYet'
    BY <1>1, <1>2, <1>3, Lists
    DEF NotYet, ToTokens, ToBurst, ToHidden, Plain, ApiPlaced, SaysOnly, Sayings, Reports
<1>6. SpecSought'
  <2>1. \A c \in Range(Candidates) : ~Reports("hidden", c)'
    BY <1>1, <1>2, <1>3 DEF NotYet, ToHidden, Plain, SaysOnly, Sayings
  <2>2. index' = 1 /\ \A i \in DOMAIN api'.specs : ~(i < index')
    BY <1>1, <1>2, Lists DEF ApiPlaced, Plain
  <2> QED
    BY <1>1, <1>2, <1>3, <2>1, <2>2 DEF SpecSought, Probing, Probed, Failure, Over
<1>7. HiddenProbed'
    BY <1>1, <1>2, <1>3, Lists
    DEF HiddenProbed, Probed, HasServer, Failure, Discovered, Quiet, Over, ApiPlaced, NotYet,
        ToHidden, Plain, SaysOnly,
       Sayings, Reports
<1>8. BurstSent'
    BY <1>1, <1>2, <1>3, Lists, Usual
    DEF BurstSent, BurstCut, Failure, Over, ApiPlaced, SaysOnly, Sayings, Reports
<1>9. TokensSent'
    BY <1>1, <1>2, <1>3, Lists
    DEF TokensSent, Accepted, Quiet, Failure, Over, ApiPlaced, SaysOnly, Sayings, Reports
<1>10. PathsChecked'
    BY <1>1, <1>2, <1>3, Lists
    DEF PathsChecked, Failure, Over, ApiPlaced, UrlStages, SaysOnly, Sayings, Reports
<1>11. StagesTried'
    BY <1>1, <1>2, <1>3, Lists
    DEF StagesTried, Probed, HasServer, Failure, Over, ApiPlaced, SaysOnly, Sayings, Reports
<1> QED
    BY <1>4, <1>5, <1>6, <1>7, <1>8, <1>9, <1>10, <1>11 DEF ApiInv

\* One well-known path of the specification.
LEMMA FetchSpecApi ==
    ASSUME ConsentInv, ApiInv, FetchSpec PROVE ApiInv'
<1> SUFFICES ASSUME agent = "api_security" PROVE ApiInv'
    BY DEF FetchSpec, Continue, GiveUp, run, ApiInv
<1>1. ApiPlaced /\ NotYet /\ SpecSought /\ HiddenProbed /\ BurstSent /\ TokensSent /\ PathsChecked
      /\ StagesTried
    BY DEF ApiInv
<1>2. PICK usual, reply :
        /\ usual = (IF api.specs[index] = "none" THEN "missing" ELSE "ok")
        /\ Get(usual, reply)
        /\ \/ /\ reply = "ok" /\ api.specs[index] = "spec"
              /\ at' = "hidden" /\ documented' = api.listed /\ index' = 1
              /\ Reports("spec", "target")'
           \/ /\ ~(reply = "ok" /\ api.specs[index] = "spec") /\ UNCHANGED documented
              /\ Reports("spec", "target")' = Reports("spec", "target")
              /\ \/ at' = "spec" /\ index' = index + 1
                 \/ at' = "return" /\ index' = index /\ Failure'
    BY DEF FetchSpec, Continue, GiveUp, Failure, Reports
<1>3. /\ at = "spec" /\ sent' = sent \cup {"spec"} /\ index <= Len(api.specs)
      /\ UNCHANGED <<agent, authorized, burst, baseline>>
      /\ SaysOnly({"error", "spec"})
    BY DEF FetchSpec, Continue, GiveUp, SaysOnly, Sayings, Reports
<1>4. Get(usual, reply) /\ usual # "limited" /\ (api.specs[index] = "spec" => usual = "ok")
    BY <1>2
<1>5. /\ UNCHANGED <<api, reset>> /\ failures \subseteq failures'
      /\ budget' \in Nat /\ budget' <= api.limit
      /\ reply # usual => api.limited \/ "spec" \in failures'
    BY <1>1, <1>3, <1>4, Served DEF Active
<1>6. ApiPlaced'
    BY <1>1, <1>2, <1>3, <1>4, <1>5, Lists
    DEF ApiPlaced, ToTokens, ToBurst, ToHidden, Plain, Over, UrlStages, SaysOnly, Sayings, Reports
<1>7. NotYet'
    BY <1>1, <1>2, <1>3, <1>4, <1>5, Lists
    DEF NotYet, ToTokens, ToBurst, ToHidden, Plain, ApiPlaced, SaysOnly, Sayings, Reports
<1>8. SpecSought'
  <2>1. (at = "hidden")' => documented' = api.listed
    BY <1>2
  <2>2. \A c \in Range(Candidates) : ~Reports("hidden", c)'
    BY <1>1, <1>3 DEF NotYet, ToHidden, SaysOnly, Sayings
  <2>3. documented' \in {{}, api.listed}
    BY <1>1, <1>2, <1>3 DEF NotYet, ToHidden
  <2>4. ASSUME at' = "spec", NEW i \in DOMAIN api.specs, i < index', api.specs[i] = "spec"
        PROVE  "spec" \in failures' \/ api.limited
    <3>1. index' = index + 1 /\ i \in Nat /\ index \in Nat
      BY <1>1, <1>2, <2>4, Lists DEF ApiPlaced
    <3>2. CASE i < index
      BY <1>1, <1>3, <1>5, <2>4, <3>2 DEF SpecSought
    <3>3. CASE i = index
      BY <1>2, <1>4, <1>5, <2>4, <3>3
    <3> QED
      BY <2>4, <3>1, <3>2, <3>3
  <2> QED
    BY <1>2, <1>3, <1>5, <2>1, <2>2, <2>3, <2>4 DEF SpecSought, Probing, Probed, Failure, Over
<1>9. HiddenProbed'
    BY <1>1, <1>2, <1>3, <1>4, <1>5, Lists
    DEF HiddenProbed, Probed, HasServer, Failure, Discovered, Quiet, Over, ApiPlaced, NotYet,
        ToHidden, SaysOnly, Sayings,
       Reports
<1>10. BurstSent'
    BY <1>1, <1>2, <1>3, <1>4, <1>5, Lists, Usual
    DEF BurstSent, BurstCut, Failure, Over, ApiPlaced, SaysOnly, Sayings, Reports
<1>11. TokensSent'
    BY <1>1, <1>2, <1>3, <1>4, <1>5, Lists
    DEF TokensSent, Accepted, Quiet, Failure, Over, ApiPlaced, SaysOnly, Sayings, Reports
<1>12. PathsChecked'
    BY <1>1, <1>2, <1>3, <1>4, <1>5, Lists
    DEF PathsChecked, Failure, Over, ApiPlaced, UrlStages, SaysOnly, Sayings, Reports
<1>13. StagesTried'
    BY <1>1, <1>2, <1>3, <1>4, <1>5, Lists
    DEF StagesTried, Probed, HasServer, Failure, Over, ApiPlaced, SaysOnly, Sayings, Reports
<1> QED
    BY <1>6, <1>7, <1>8, <1>9, <1>10, <1>11, <1>12, <1>13 DEF ApiInv

\* No path had a specification.
LEMMA NoSpecApi ==
    ASSUME ConsentInv, ApiInv, NoSpec PROVE ApiInv'
<1> SUFFICES ASSUME agent = "api_security" PROVE ApiInv'
    BY DEF NoSpec, Continue, GiveUp, run, ApiInv
<1>1. ApiPlaced /\ NotYet /\ SpecSought /\ HiddenProbed /\ BurstSent /\ TokensSent /\ PathsChecked
      /\ StagesTried
    BY DEF ApiInv
<1>2. /\ at = "spec" /\ at' = "hidden" /\ sent' = sent /\ index > Len(api.specs) /\ index' = 1
      /\ UNCHANGED <<agent, authorized, api, reset, failures, budget, documented, burst, baseline>>
      /\ SaysOnly({})
    BY DEF NoSpec, Continue, SaysOnly, Sayings, Reports, server, memory
<1>3. ApiPlaced'
    BY <1>1, <1>2, Lists
    DEF ApiPlaced, ToTokens, ToBurst, ToHidden, Plain, Over, UrlStages, SaysOnly, Sayings, Reports
<1>4. NotYet'
    BY <1>1, <1>2, Lists
    DEF NotYet, ToTokens, ToBurst, ToHidden, Plain, ApiPlaced, SaysOnly, Sayings, Reports
<1>5. SpecSought'
  <2>1. \A c \in Range(Candidates) : ~Reports("hidden", c)'
    BY <1>1, <1>2 DEF NotYet, ToHidden, SaysOnly, Sayings
  <2>2. \A i \in DOMAIN api.specs : api.specs[i] = "spec" => "spec" \in failures \/ api.limited
    BY <1>1, <1>2, Lists DEF SpecSought, ApiPlaced
  <2>3. Unpublished'
    BY <1>1, <1>2, <2>2 DEF Unpublished, ApiPlaced, UrlStages
  <2> QED
    BY <1>1, <1>2, <2>1, <2>3
    DEF SpecSought, Probing, Probed, Over, NotYet, ToHidden, Plain, ApiPlaced, UrlStages, SaysOnly,
       Sayings
<1>6. HiddenProbed'
    BY <1>1, <1>2, Lists
    DEF HiddenProbed, Probed, HasServer, Failure, Discovered, Quiet, Over, ApiPlaced, SaysOnly,
        Sayings, Reports
<1>7. BurstSent'
    BY <1>1, <1>2, Lists, Usual
    DEF BurstSent, BurstCut, Failure, Over, ApiPlaced, SaysOnly, Sayings, Reports
<1>8. TokensSent'
    BY <1>1, <1>2, Lists
    DEF TokensSent, Accepted, Quiet, Failure, Over, ApiPlaced, SaysOnly, Sayings, Reports
<1>9. PathsChecked'
    BY <1>1, <1>2, Lists
    DEF PathsChecked, Failure, Over, ApiPlaced, UrlStages, SaysOnly, Sayings, Reports
<1>10. StagesTried'
    BY <1>1, <1>2, Lists
    DEF StagesTried, Probed, HasServer, Failure, Over, ApiPlaced, SpecSought, UrlStages, SaysOnly,
        Sayings, Reports
<1> QED
    BY <1>3, <1>4, <1>5, <1>6, <1>7, <1>8, <1>9, <1>10 DEF ApiInv

\* A candidate that is documented.
LEMMA SkipDocumentedApi ==
    ASSUME ConsentInv, ApiInv, SkipDocumented PROVE ApiInv'
<1> SUFFICES ASSUME agent = "api_security" PROVE ApiInv'
    BY DEF SkipDocumented, Continue, GiveUp, run, ApiInv
<1>1. ApiPlaced /\ NotYet /\ SpecSought /\ HiddenProbed /\ BurstSent /\ TokensSent /\ PathsChecked
      /\ StagesTried
    BY DEF ApiInv
<1>2. /\ at = "hidden" /\ at' = "hidden" /\ sent' = sent /\ index' = index + 1
      /\ index <= Len(Candidates) /\ Candidates[index] \in documented
      /\ UNCHANGED <<agent, authorized, api, reset, failures, budget, documented, burst, baseline>>
      /\ SaysOnly({})
    BY DEF SkipDocumented, Continue, SaysOnly, Sayings, Reports, server, memory, Candidate
<1>3. ApiPlaced'
    BY <1>1, <1>2, Lists
    DEF ApiPlaced, ToTokens, ToBurst, ToHidden, Plain, Over, UrlStages, SaysOnly, Sayings, Reports
<1>4. NotYet'
    BY <1>1, <1>2, Lists
    DEF NotYet, ToTokens, ToBurst, ToHidden, Plain, ApiPlaced, SaysOnly, Sayings, Reports
<1>5. SpecSought'
    BY <1>1, <1>2, Lists DEF SpecSought, Probing, Probed, HasServer, Failure, Over, Unpublished,
       ApiPlaced, SaysOnly, Sayings, Reports
<1>6. HiddenProbed'
    BY <1>1, <1>2, Lists
    DEF HiddenProbed, Probed, HasServer, Failure, Discovered, Quiet, Over, ApiPlaced, SaysOnly,
        Sayings, Reports
<1>7. BurstSent'
    BY <1>1, <1>2, Lists, Usual
    DEF BurstSent, BurstCut, Failure, Over, ApiPlaced, SaysOnly, Sayings, Reports
<1>8. TokensSent'
    BY <1>1, <1>2, Lists
    DEF TokensSent, Accepted, Quiet, Failure, Over, ApiPlaced, SaysOnly, Sayings, Reports
<1>9. PathsChecked'
    BY <1>1, <1>2, Lists DEF PathsChecked, Failure, Over, ApiPlaced, SaysOnly, Sayings, Reports
<1>10. StagesTried'
    BY <1>1, <1>2, Lists DEF StagesTried, Probed, HasServer, Failure, Over, ApiPlaced, SaysOnly,
       Sayings, Reports
<1> QED
    BY <1>3, <1>4, <1>5, <1>6, <1>7, <1>8, <1>9, <1>10 DEF ApiInv

\* A candidate that is asked for.
LEMMA ProbeHiddenApi ==
    ASSUME ConsentInv, ApiInv, ProbeHidden PROVE ApiInv'
<1> SUFFICES ASSUME agent = "api_security" PROVE ApiInv'
    BY DEF ProbeHidden, Continue, GiveUp, run, ApiInv
<1>1. ApiPlaced /\ NotYet /\ SpecSought /\ HiddenProbed /\ BurstSent /\ TokensSent /\ PathsChecked
      /\ StagesTried
    BY DEF ApiInv
<1>2. PICK reply :
        /\ Get(api.live[Candidates[index]], reply)
        /\ \/ reply \in Exists /\ findings' = findings \cup {<<"hidden", Candidates[index]>>}
           \/ reply \notin Exists /\ findings' = findings
    BY DEF ProbeHidden, Candidate, Continue
<1>3. /\ at = "hidden" /\ at' = "hidden" /\ sent' = sent \cup {"hidden"} /\ index' = index + 1
      /\ index <= Len(Candidates) /\ Candidates[index] \notin documented
      /\ UNCHANGED <<agent, authorized, documented, burst, baseline>>
    BY DEF ProbeHidden, Continue, memory, Candidate
<1>4. SaysOnly({"hidden"})
    BY <1>2 DEF SaysOnly, Sayings, Reports
<1>5. /\ \A c : Reports("hidden", c)' =>
             Reports("hidden", c) \/ (c = Candidates[index] /\ reply \in Exists)
      /\ reply \in Exists => <<"hidden", Candidates[index]>> \in findings'
    BY <1>2 DEF Reports
<1>6. Get(api.live[Candidates[index]], reply) /\ api.live[Candidates[index]] # "limited"
    BY <1>1, <1>2, <1>3, Usual, Lists DEF ApiPlaced
<1>7. /\ UNCHANGED <<api, reset>> /\ failures \subseteq failures'
      /\ budget' \in Nat /\ budget' <= api.limit
      /\ reply # api.live[Candidates[index]] => api.limited \/ "hidden" \in failures'
      /\ reply \in Exists => reply = api.live[Candidates[index]]
    BY <1>1, <1>3, <1>6, Served DEF Active, Exists
<1>8. ApiPlaced'
    BY <1>1, <1>2, <1>3, <1>4, <1>5, <1>6, <1>7, Lists
    DEF ApiPlaced, ToTokens, ToBurst, ToHidden, Plain, Over, UrlStages, SaysOnly, Sayings, Reports
<1>9. NotYet'
    BY <1>1, <1>2, <1>3, <1>4, <1>5, <1>6, <1>7, Lists
    DEF NotYet, ToTokens, ToBurst, ToHidden, Plain, ApiPlaced, SaysOnly, Sayings, Reports
<1>10. SpecSought'
    BY <1>1, <1>2, <1>3, <1>4, <1>5, <1>6, <1>7, Lists
    DEF SpecSought, Probing, Probed, HasServer, Failure, Over, Unpublished, ApiPlaced, SaysOnly,
        Sayings, Reports
<1>11. HiddenProbed'
    BY <1>1, <1>2, <1>3, <1>4, <1>5, <1>6, <1>7, Lists
    DEF HiddenProbed, Probed, HasServer, Failure, Discovered, Quiet, Over, ApiPlaced, SaysOnly,
        Sayings, Reports
<1>12. BurstSent'
    BY <1>1, <1>2, <1>3, <1>4, <1>5, <1>6, <1>7, Lists, Usual
    DEF BurstSent, BurstCut, Failure, Over, ApiPlaced, SaysOnly, Sayings, Reports
<1>13. TokensSent'
    BY <1>1, <1>2, <1>3, <1>4, <1>5, <1>6, <1>7, Lists
    DEF TokensSent, Accepted, Quiet, Failure, Over, ApiPlaced, SaysOnly, Sayings, Reports
<1>14. PathsChecked'
    BY <1>1, <1>2, <1>3, <1>4, <1>5, <1>6, <1>7, Lists
    DEF PathsChecked, Failure, Over, ApiPlaced, SaysOnly, Sayings, Reports
<1>15. StagesTried'
    BY <1>1, <1>2, <1>3, <1>4, <1>5, <1>6, <1>7, Lists
    DEF StagesTried, Probed, HasServer, Failure, Over, ApiPlaced, SaysOnly, Sayings, Reports
<1> QED
    BY <1>8, <1>9, <1>10, <1>11, <1>12, <1>13, <1>14, <1>15 DEF ApiInv

\* After the last candidate the burst begins; a file is done.
LEMMA EndHiddenApi ==
    ASSUME ConsentInv, ApiInv, EndHidden PROVE ApiInv'
<1> SUFFICES ASSUME agent = "api_security" PROVE ApiInv'
    BY DEF EndHidden, Continue, GiveUp, run, ApiInv
<1>1. ApiPlaced /\ NotYet /\ SpecSought /\ HiddenProbed /\ BurstSent /\ TokensSent /\ PathsChecked
      /\ StagesTried
    BY DEF ApiInv
<1>2. /\ at = "hidden" /\ sent' = sent /\ index > Len(Candidates) /\ index' = 1
      /\ at' = (IF api.isUrl THEN "burst" ELSE "return")
      /\ UNCHANGED <<agent, authorized, api, reset, failures, budget, documented, burst, baseline>>
      /\ SaysOnly({})
    BY DEF EndHidden, Continue, SaysOnly, Sayings, Reports, server, memory
<1>3. authorized
    BY <1>2 DEF ConsentInv, Confirmed
<1>4. ApiPlaced'
    BY <1>1, <1>2, <1>3, Lists
    DEF ApiPlaced, ToTokens, ToBurst, ToHidden, Plain, Over, UrlStages, SaysOnly, Sayings, Reports
<1>5. NotYet'
    BY <1>1, <1>2, <1>3, Lists
    DEF NotYet, ToTokens, ToBurst, ToHidden, Plain, ApiPlaced, SaysOnly, Sayings, Reports
<1>6. SpecSought'
    BY <1>1, <1>2, <1>3, Lists
       DEF SpecSought, Probing, Probed, HasServer, Failure, Over, Unpublished, ApiPlaced,
           SaysOnly, Sayings, Reports
<1>7. HiddenProbed'
    BY <1>1, <1>2, <1>3, Lists
    DEF HiddenProbed, Probed, HasServer, Failure, Discovered, Quiet, Over, ApiPlaced, SaysOnly,
        Sayings, Reports
<1>8. BurstSent'
    BY <1>1, <1>2, Usual DEF BurstSent, Over, ApiPlaced, NotYet, ToBurst
<1>9. TokensSent'
    BY <1>1, <1>2, <1>3, Lists
    DEF TokensSent, Accepted, Quiet, Failure, Over, ApiPlaced, SaysOnly, Sayings, Reports
<1>10. PathsChecked'
    BY <1>1, <1>2, <1>3, Lists
    DEF PathsChecked, Failure, Over, ApiPlaced, SaysOnly, Sayings, Reports
<1>11. StagesTried'
    BY <1>1, <1>2, <1>3, Lists
    DEF StagesTried, Probed, HasServer, Failure, Over, ApiPlaced, SaysOnly, Sayings, Reports
<1> QED
    BY <1>4, <1>5, <1>6, <1>7, <1>8, <1>9, <1>10, <1>11 DEF ApiInv

\* A request of the burst.
LEMMA BurstApi ==
    ASSUME ConsentInv, ApiInv, Burst PROVE ApiInv'
<1> SUFFICES ASSUME agent = "api_security" PROVE ApiInv'
    BY DEF Burst, Continue, GiveUp, run, ApiInv
<1>1. ApiPlaced /\ NotYet /\ SpecSought /\ HiddenProbed /\ BurstSent /\ TokensSent /\ PathsChecked
      /\ StagesTried
    BY DEF ApiInv
<1>2. PICK reply :
        /\ Get(api.usual, reply)
        /\ burst' = IF reply = "fail" THEN burst
                    ELSE [answers |-> burst.answers + 1, limited |-> reply = "limited"]
        /\ index' = IF reply \in {"fail", "limited"} THEN ProbeCount + 1 ELSE index + 1
    BY DEF Burst
<1>3. /\ at = "burst" /\ at' = "burst" /\ sent' = sent \cup {"burst"} /\ index <= ProbeCount
      /\ UNCHANGED <<agent, authorized, documented, baseline>>
      /\ SaysOnly({})
    BY DEF Burst, Continue, SaysOnly, Sayings, Reports
<1>4. Get(api.usual, reply) /\ api.usual # "limited"
    BY <1>1, <1>2, Usual
<1>5. /\ UNCHANGED <<api, reset>> /\ failures \subseteq failures'
      /\ budget' \in Nat /\ budget' <= budget /\ budget' <= api.limit
      /\ reply = "limited" => api.limited
      /\ reply = "fail" => "burst" \in failures'
      /\ api.limited /\ reply \notin {"limited", "fail"} => budget' = budget - 1
    BY <1>1, <1>3, <1>4, Served DEF Active
<1>6. \/ /\ reply = "fail" /\ burst' = burst /\ index' = ProbeCount + 1
      \/ /\ reply = "limited" /\ index' = ProbeCount + 1
         /\ burst'.answers = burst.answers + 1 /\ burst'.limited
      \/ /\ reply \notin {"fail", "limited"} /\ index' = index + 1
         /\ burst'.answers = burst.answers + 1 /\ ~burst'.limited
    BY <1>2
<1>7. ApiPlaced'
    BY <1>1, <1>3, <1>5, <1>6, Usual DEF ApiPlaced, ToTokens, ToBurst, ToHidden, Plain, UrlStages
<1>8. NotYet'
    BY <1>1, <1>2, <1>3, <1>4, <1>5, <1>6, Lists
    DEF NotYet, ToTokens, ToBurst, ToHidden, Plain, ApiPlaced, SaysOnly, Sayings, Reports
<1>9. SpecSought'
    BY <1>1, <1>2, <1>3, <1>4, <1>5, <1>6, Lists
    DEF SpecSought, Probing, Probed, HasServer, Failure, Over, Unpublished, ApiPlaced, SaysOnly,
        Sayings, Reports
<1>10. HiddenProbed'
    BY <1>1, <1>2, <1>3, <1>4, <1>5, <1>6, Lists
    DEF HiddenProbed, Probed, HasServer, Failure, Discovered, Quiet, Over, ApiPlaced, SaysOnly,
        Sayings, Reports
<1>11. BurstSent'
  <2>1. burst'.answers \in 0 .. ProbeCount
    BY <1>1, <1>3, <1>6, Usual DEF BurstSent, ApiPlaced
  <2>2. index' <= ProbeCount => burst'.answers = index' - 1 /\ ~burst'.limited
    BY <1>1, <1>3, <1>6, Usual DEF BurstSent, ApiPlaced
  <2>3. index' > ProbeCount => burst'.limited \/ burst'.answers = ProbeCount \/ BurstCut'
    BY <1>1, <1>3, <1>5, <1>6, Usual DEF BurstSent, BurstCut, ApiPlaced
  <2>4. burst'.limited => api.limited
    BY <1>1, <1>3, <1>5, <1>6 DEF BurstSent
  <2>5. api.limited /\ ~burst'.limited => reset \/ budget' + burst'.answers <= api.limit
    BY <1>1, <1>3, <1>5, <1>6, Usual DEF BurstSent, ApiPlaced
  <2> QED
    BY <1>3, <1>5, <2>1, <2>2, <2>3, <2>4, <2>5 DEF BurstSent, Over
<1>12. TokensSent'
    BY <1>1, <1>2, <1>3, <1>4, <1>5, <1>6, Lists
    DEF TokensSent, Accepted, Quiet, Failure, Over, ApiPlaced, SaysOnly, Sayings, Reports
<1>13. PathsChecked'
    BY <1>1, <1>2, <1>3, <1>4, <1>5, <1>6, Lists
    DEF PathsChecked, Failure, Over, ApiPlaced, SaysOnly, Sayings, Reports
<1>14. StagesTried'
    BY <1>1, <1>2, <1>3, <1>4, <1>5, <1>6, Lists
    DEF StagesTried, Probed, HasServer, Failure, Over, ApiPlaced, SaysOnly, Sayings, Reports
<1> QED
    BY <1>7, <1>8, <1>9, <1>10, <1>11, <1>12, <1>13, <1>14 DEF ApiInv

\* The verdict on the rate limit.
LEMMA JudgeBurstApi ==
    ASSUME ConsentInv, ApiInv, JudgeBurst PROVE ApiInv'
<1> SUFFICES ASSUME agent = "api_security" PROVE ApiInv'
    BY DEF JudgeBurst, Continue, GiveUp, run, ApiInv
<1>1. ApiPlaced /\ NotYet /\ SpecSought /\ HiddenProbed /\ BurstSent /\ TokensSent /\ PathsChecked
      /\ StagesTried
    BY DEF ApiInv
<1>2. /\ at = "burst" /\ at' = "baseline" /\ sent' = sent /\ index > ProbeCount
      /\ UNCHANGED <<agent, authorized, index, api, reset, failures, budget, documented, burst,
             baseline>>
      /\ SaysOnly({"no_rate_limit"})
    BY DEF JudgeBurst, Continue, SaysOnly, Sayings, Reports, probing, server, memory
<1>3. Reports("no_rate_limit", "target")' <=>
        Reports("no_rate_limit", "target") \/ (burst.answers > 0 /\ ~burst.limited)
    BY DEF JudgeBurst, Continue, Reports
<1>4. ApiPlaced'
    BY <1>1, <1>2, <1>3, Lists, Usual
    DEF ApiPlaced, ToTokens, ToBurst, ToHidden, Plain, Over, UrlStages, SaysOnly, Sayings, Reports
<1>5. NotYet'
    BY <1>1, <1>2, <1>3, Lists, Usual
    DEF NotYet, ToTokens, ToBurst, ToHidden, Plain, ApiPlaced, SaysOnly, Sayings, Reports
<1>6. SpecSought'
    BY <1>1, <1>2, <1>3, Lists, Usual
    DEF SpecSought, Probing, Probed, HasServer, Failure, Over, Unpublished, ApiPlaced, SaysOnly,
        Sayings, Reports
<1>7. HiddenProbed'
    BY <1>1, <1>2, <1>3, Lists, Usual
    DEF HiddenProbed, Probed, HasServer, Failure, Discovered, Quiet, Over, ApiPlaced, SaysOnly,
        Sayings, Reports
<1>8. BurstSent'
    BY <1>1, <1>2, <1>3, Usual DEF BurstSent, BurstCut, Over, ApiPlaced, NotYet
<1>9. TokensSent'
    BY <1>1, <1>2, <1>3, Lists, Usual
    DEF TokensSent, Accepted, Quiet, Failure, Over, ApiPlaced, SaysOnly, Sayings, Reports
<1>10. PathsChecked'
    BY <1>1, <1>2, <1>3, Lists, Usual
    DEF PathsChecked, Failure, Over, ApiPlaced, SaysOnly, Sayings, Reports
<1>11. StagesTried'
    BY <1>1, <1>2, <1>3, Lists, Usual
    DEF StagesTried, Probed, HasServer, Failure, Over, ApiPlaced, BurstSent, UrlStages, SaysOnly,
        Sayings, Reports
<1> QED
    BY <1>4, <1>5, <1>6, <1>7, <1>8, <1>9, <1>10, <1>11 DEF ApiInv

\* The request without a token.
LEMMA GetBaselineApi ==
    ASSUME ConsentInv, ApiInv, GetBaseline PROVE ApiInv'
<1> SUFFICES ASSUME agent = "api_security" PROVE ApiInv'
    BY DEF GetBaseline, Continue, GiveUp, run, ApiInv
<1>1. ApiPlaced /\ NotYet /\ SpecSought /\ HiddenProbed /\ BurstSent /\ TokensSent /\ PathsChecked
      /\ StagesTried
    BY DEF ApiInv
<1>2. PICK reply : /\ Get(api.usual, reply) /\ baseline' = reply
                   /\ at' = (IF reply = "fail" THEN "return" ELSE "tokens")
    BY DEF GetBaseline, Continue
<1>3. /\ at = "baseline" /\ sent' = sent \cup {"baseline"} /\ index' = 1
      /\ UNCHANGED <<agent, authorized, documented, burst>>
      /\ SaysOnly({})
    BY DEF GetBaseline, Continue, SaysOnly, Sayings, Reports
<1>4. Get(api.usual, reply) /\ api.usual # "limited"
    BY <1>1, <1>2, Usual
<1>5. /\ UNCHANGED <<api, reset>> /\ failures \subseteq failures'
      /\ budget' \in Nat /\ budget' <= api.limit
      /\ reply \in {api.usual, "limited", "error", "fail"}
      /\ reply # api.usual => api.limited \/ "baseline" \in failures'
      /\ reply = "fail" => "baseline" \in failures'
    BY <1>1, <1>3, <1>4, Served DEF Active
<1>6. authorized
    BY <1>3 DEF ConsentInv, Confirmed
<1>7. ApiPlaced'
    BY <1>1, <1>2, <1>3, <1>4, <1>5, <1>6, Lists
    DEF ApiPlaced, ToTokens, ToBurst, ToHidden, Plain, Over, UrlStages, SaysOnly, Sayings, Reports
<1>8. NotYet'
    BY <1>1, <1>2, <1>3, <1>4, <1>5, <1>6, Lists
    DEF NotYet, ToTokens, ToBurst, ToHidden, Plain, ApiPlaced, SaysOnly, Sayings, Reports
<1>9. SpecSought'
    BY <1>1, <1>2, <1>3, <1>4, <1>5, <1>6, Lists
    DEF SpecSought, Probing, Probed, HasServer, Failure, Over, Unpublished, ApiPlaced, SaysOnly,
        Sayings, Reports
<1>10. HiddenProbed'
    BY <1>1, <1>2, <1>3, <1>4, <1>5, <1>6, Lists
    DEF HiddenProbed, Probed, HasServer, Failure, Discovered, Quiet, Over, ApiPlaced, SaysOnly,
        Sayings, Reports
<1>11. BurstSent'
    BY <1>1, <1>2, <1>3, <1>4, <1>5, <1>6, Lists, Usual
    DEF BurstSent, BurstCut, Failure, Over, ApiPlaced, SaysOnly, Sayings, Reports
<1>12. TokensSent'
    BY <1>1, <1>2, <1>3, <1>4, <1>5, <1>6, Lists
    DEF TokensSent, Accepted, Quiet, Failure, Over, ApiPlaced, NotYet, ToTokens, SaysOnly,
       Sayings, Reports
<1>13. PathsChecked'
    BY <1>1, <1>2, <1>3, <1>4, <1>5, <1>6, Lists
    DEF PathsChecked, Failure, Over, ApiPlaced, UrlStages, SaysOnly, Sayings, Reports
<1>14. StagesTried'
    BY <1>1, <1>2, <1>3, <1>4, <1>5, <1>6, Lists
    DEF StagesTried, Probed, HasServer, Failure, Over, ApiPlaced, SaysOnly, Sayings, Reports
<1> QED
    BY <1>7, <1>8, <1>9, <1>10, <1>11, <1>12, <1>13, <1>14 DEF ApiInv

\* A crafted token.
LEMMA ProbeTokenApi ==
    ASSUME ConsentInv, ApiInv, ProbeToken PROVE ApiInv'
<1> SUFFICES ASSUME agent = "api_security" PROVE ApiInv'
    BY DEF ProbeToken, Continue, GiveUp, run, ApiInv
<1>1. ApiPlaced /\ NotYet /\ SpecSought /\ HiddenProbed /\ BurstSent /\ TokensSent /\ PathsChecked
      /\ StagesTried
    BY DEF ApiInv
<1>2. PICK usual, reply :
        /\ usual = (IF Tokens[index] \in api.accepts THEN "ok" ELSE api.usual)
        /\ Get(usual, reply)
        /\ \/ /\ reply = "ok" /\ baseline \in Refused
              /\ findings' = findings \cup {<<"weak_token", Tokens[index]>>}
           \/ ~(reply = "ok" /\ baseline \in Refused) /\ findings' = findings
    BY DEF ProbeToken, Token, WithToken, Continue
<1>3. /\ at = "tokens" /\ at' = "tokens" /\ sent' = sent \cup {"token"} /\ index' = index + 1
      /\ index <= Len(Tokens) /\ UNCHANGED <<agent, authorized, documented, burst, baseline>>
    BY DEF ProbeToken, Continue, memory
<1>4. SaysOnly({"weak_token"})
    BY <1>2 DEF SaysOnly, Sayings, Reports
<1>5. /\ \A t : Reports("weak_token", t)' =>
            Reports("weak_token", t) \/ (t = Tokens[index] /\ reply = "ok" /\ baseline \in Refused)
      /\ reply = "ok" /\ baseline \in Refused => <<"weak_token", Tokens[index]>> \in findings'
    BY <1>2 DEF Reports
<1>6. /\ Get(usual, reply) /\ usual # "limited"
      /\ usual = (IF Tokens[index] \in api.accepts THEN "ok" ELSE api.usual)
    BY <1>1, <1>2, Usual
<1>7. /\ UNCHANGED <<api, reset>> /\ failures \subseteq failures'
      /\ budget' \in Nat /\ budget' <= api.limit
      /\ reply # usual => api.limited \/ "tokens" \in failures'
      /\ reply = "ok" => reply = usual
    BY <1>1, <1>3, <1>6, Served DEF Active
<1>8. ApiPlaced'
    BY <1>1, <1>2, <1>3, <1>4, <1>5, <1>6, <1>7, Lists
    DEF ApiPlaced, ToTokens, ToBurst, ToHidden, Plain, Over, UrlStages, SaysOnly, Sayings, Reports
<1>9. NotYet'
    BY <1>1, <1>2, <1>3, <1>4, <1>5, <1>6, <1>7, Lists
    DEF NotYet, ToTokens, ToBurst, ToHidden, Plain, ApiPlaced, SaysOnly, Sayings, Reports
<1>10. SpecSought'
    BY <1>1, <1>2, <1>3, <1>4, <1>5, <1>6, <1>7, Lists
    DEF SpecSought, Probing, Probed, HasServer, Failure, Over, Unpublished, ApiPlaced, SaysOnly,
        Sayings, Reports
<1>11. HiddenProbed'
    BY <1>1, <1>2, <1>3, <1>4, <1>5, <1>6, <1>7, Lists
    DEF HiddenProbed, Probed, HasServer, Failure, Discovered, Quiet, Over, ApiPlaced, SaysOnly,
        Sayings, Reports
<1>12. BurstSent'
    BY <1>1, <1>2, <1>3, <1>4, <1>5, <1>6, <1>7, Lists, Usual
    DEF BurstSent, BurstCut, Failure, Over, ApiPlaced, SaysOnly, Sayings, Reports
<1>13. TokensSent'
  <2>1. ASSUME NEW t \in Range(Tokens), Reports("weak_token", t)'
        PROVE  \/ t \in api.accepts /\ api.usual # "ok"
               \/ api.usual = "ok" /\ baseline \in {"limited", "error"}
    <3>1. CASE Reports("weak_token", t)
      BY <1>1, <3>1 DEF TokensSent
    <3>2. CASE t = Tokens[index] /\ reply = "ok" /\ baseline \in Refused
      BY <1>1, <1>3, <1>6, <1>7, <3>2 DEF TokensSent, Refused
    <3> QED
      BY <1>5, <2>1, <3>1, <3>2
  <2>2. ASSUME NEW i \in DOMAIN Tokens, i < index'
        PROVE  Accepted(Tokens[i])'
    <3>1. CASE i < index
      BY <1>1, <1>3, <1>4, <1>7, <3>1 DEF TokensSent, Accepted, Quiet, SaysOnly, Reports
    <3>2. CASE i = index
      BY <1>1, <1>3, <1>5, <1>6, <1>7, <3>2 DEF TokensSent, Accepted, Quiet, Refused, Reports
    <3> QED
      BY <1>1, <1>3, <2>2, <3>1, <3>2, Lists DEF ApiPlaced
  <2>3. Quiet("baseline")' => Quiet("baseline")
    BY <1>7 DEF Quiet
  <2> QED
    BY <1>1, <1>3, <1>7, <2>1, <2>2, <2>3 DEF TokensSent, Over
<1>14. PathsChecked'
    BY <1>1, <1>2, <1>3, <1>4, <1>5, <1>6, <1>7, Lists
    DEF PathsChecked, Failure, Over, ApiPlaced, SaysOnly, Sayings, Reports
<1>15. StagesTried'
    BY <1>1, <1>2, <1>3, <1>4, <1>5, <1>6, <1>7, Lists
    DEF StagesTried, Probed, HasServer, Failure, Over, ApiPlaced, SaysOnly, Sayings, Reports
<1> QED
    BY <1>8, <1>9, <1>10, <1>11, <1>12, <1>13, <1>14, <1>15 DEF ApiInv

\* After the last token.
LEMMA EndTokensApi ==
    ASSUME ConsentInv, ApiInv, EndTokens PROVE ApiInv'
<1> SUFFICES ASSUME agent = "api_security" PROVE ApiInv'
    BY DEF EndTokens, Continue, GiveUp, run, ApiInv
<1>1. ApiPlaced /\ NotYet /\ SpecSought /\ HiddenProbed /\ BurstSent /\ TokensSent /\ PathsChecked
      /\ StagesTried
    BY DEF ApiInv
<1>2. /\ at = "tokens" /\ at' = "return" /\ sent' = sent /\ index > Len(Tokens)
      /\ UNCHANGED <<agent, authorized, index, api, reset, failures, budget, documented, burst,
             baseline>>
      /\ SaysOnly({})
    BY DEF EndTokens, Continue, SaysOnly, Sayings, Reports, probing, server, memory
<1>3. ApiPlaced'
    BY <1>1, <1>2, Lists
    DEF ApiPlaced, ToTokens, ToBurst, ToHidden, Plain, Over, UrlStages, SaysOnly, Sayings, Reports
<1>4. NotYet'
    BY <1>1, <1>2, Lists
    DEF NotYet, ToTokens, ToBurst, ToHidden, Plain, ApiPlaced, SaysOnly, Sayings, Reports
<1>5. SpecSought'
    BY <1>1, <1>2, Lists DEF SpecSought, Probing, Probed, HasServer, Failure, Over, Unpublished,
       ApiPlaced, SaysOnly, Sayings, Reports
<1>6. HiddenProbed'
    BY <1>1, <1>2, Lists
    DEF HiddenProbed, Probed, HasServer, Failure, Discovered, Quiet, Over, ApiPlaced, SaysOnly,
        Sayings, Reports
<1>7. BurstSent'
    BY <1>1, <1>2, Lists, Usual
    DEF BurstSent, BurstCut, Failure, Over, ApiPlaced, SaysOnly, Sayings, Reports
<1>8. TokensSent'
    BY <1>1, <1>2, Lists
    DEF TokensSent, Accepted, Quiet, Failure, Over, ApiPlaced, SaysOnly, Sayings, Reports
<1>9. PathsChecked'
    BY <1>1, <1>2, Lists
    DEF PathsChecked, Failure, Over, ApiPlaced, UrlStages, SaysOnly, Sayings, Reports
<1>10. StagesTried'
    BY <1>1, <1>2, Lists
    DEF StagesTried, Probed, HasServer, Failure, Over, ApiPlaced, ConsentInv, Confirmed, SaysOnly,
        Sayings, Reports
<1> QED
    BY <1>3, <1>4, <1>5, <1>6, <1>7, <1>8, <1>9, <1>10 DEF ApiInv

\* A file is opened.
LEMMA OpenSpecApi ==
    ASSUME ConsentInv, ApiInv, OpenSpec PROVE ApiInv'
<1> SUFFICES ASSUME agent = "api_security" PROVE ApiInv'
    BY DEF OpenSpec, Continue, GiveUp, run, ApiInv
<1>1. ApiPlaced /\ NotYet /\ SpecSought /\ HiddenProbed /\ BurstSent /\ TokensSent /\ PathsChecked
      /\ StagesTried
    BY DEF ApiInv
<1>2. /\ at = "start" /\ sent' = sent /\ ~api.isUrl
      /\ UNCHANGED <<agent, authorized, index, api, reset, failures, budget, documented, burst,
             baseline>>
    BY DEF OpenSpec, Continue, GiveUp, probing, server, memory
<1>3. \/ at' = "return" /\ api.file # "spec" /\ SaysOnly({})
      \/ at' = "return" /\ SaysOnly({"error"}) /\ Failure'
      \/ at' = "paths" /\ api.file = "spec" /\ SaysOnly({})
    BY DEF OpenSpec, Continue, GiveUp, SaysOnly, Sayings, Reports, Failure
<1>4. ApiPlaced'
    BY <1>1, <1>2, <1>3, Lists
    DEF ApiPlaced, ToTokens, ToBurst, ToHidden, Plain, Over, UrlStages, SaysOnly, Sayings, Reports
<1>5. NotYet'
    BY <1>1, <1>2, <1>3, Lists
    DEF NotYet, ToTokens, ToBurst, ToHidden, Plain, ApiPlaced, SaysOnly, Sayings, Reports
<1>6. SpecSought'
    BY <1>1, <1>2, <1>3, Lists
       DEF SpecSought, Probing, Probed, HasServer, Failure, Over, NotYet, ToHidden, Plain,
           Unpublished, ApiPlaced, SaysOnly, Sayings, Reports
<1>7. HiddenProbed'
    BY <1>1, <1>2, <1>3, Lists
    DEF HiddenProbed, Probed, HasServer, Failure, Discovered, Quiet, Over, ApiPlaced, NotYet,
        ToHidden, Plain, SaysOnly,
       Sayings, Reports
<1>8. BurstSent'
    BY <1>1, <1>2, <1>3, Lists, Usual
    DEF BurstSent, BurstCut, Failure, Over, ApiPlaced, SaysOnly, Sayings, Reports
<1>9. TokensSent'
    BY <1>1, <1>2, <1>3, Lists
    DEF TokensSent, Accepted, Quiet, Failure, Over, ApiPlaced, SaysOnly, Sayings, Reports
<1>10. PathsChecked'
    BY <1>1, <1>2, <1>3, Lists
    DEF PathsChecked, Failure, Over, ApiPlaced, NotYet, Plain, SaysOnly, Sayings, Reports
<1>11. StagesTried'
    BY <1>1, <1>2, <1>3, Lists
    DEF StagesTried, Probed, HasServer, Failure, Over, ApiPlaced, SaysOnly, Sayings, Reports
<1> QED
    BY <1>4, <1>5, <1>6, <1>7, <1>8, <1>9, <1>10, <1>11 DEF ApiInv

\* A path of a file.
LEMMA CheckPathApi ==
    ASSUME ConsentInv, ApiInv, CheckPath PROVE ApiInv'
<1> SUFFICES ASSUME agent = "api_security" PROVE ApiInv'
    BY DEF CheckPath, Continue, GiveUp, run, ApiInv
<1>1. ApiPlaced /\ NotYet /\ SpecSought /\ HiddenProbed /\ BurstSent /\ TokensSent /\ PathsChecked
      /\ StagesTried
    BY DEF ApiInv
<1>2. /\ at = "paths" /\ sent' = sent /\ index <= Len(api.paths)
      /\ UNCHANGED <<agent, authorized, api, reset, failures, budget, documented, burst, baseline>>
    BY DEF CheckPath, Continue, GiveUp, server, memory
<1>3. \/ /\ at' = "paths" /\ api.paths[index] = "open" /\ index' = index + 1
         /\ SaysOnly({"unprotected"})
         /\ \A i : Reports("unprotected", i)' <=> Reports("unprotected", i) \/ i = index
      \/ at' = "paths" /\ api.paths[index] # "open" /\ index' = index + 1 /\ SaysOnly({})
      \/ at' = "return" /\ index' = index /\ SaysOnly({"error"}) /\ Failure'
    BY DEF CheckPath, Continue, GiveUp, SaysOnly, Sayings, Reports, Failure
<1>4. ApiPlaced'
    BY <1>1, <1>2, <1>3, Lists
    DEF ApiPlaced, ToTokens, ToBurst, ToHidden, Plain, Over, UrlStages, SaysOnly, Sayings, Reports
<1>5. NotYet'
    BY <1>1, <1>2, <1>3, Lists
    DEF NotYet, ToTokens, ToBurst, ToHidden, Plain, ApiPlaced, SaysOnly, Sayings, Reports
<1>6. SpecSought'
    BY <1>1, <1>2, <1>3, Lists
       DEF SpecSought, Probing, Probed, HasServer, Failure, Over, NotYet, ToHidden, Plain,
           Unpublished, ApiPlaced, SaysOnly, Sayings, Reports
<1>7. HiddenProbed'
    BY <1>1, <1>2, <1>3, Lists
    DEF HiddenProbed, Probed, HasServer, Failure, Discovered, Quiet, Over, ApiPlaced, NotYet,
        ToHidden, SaysOnly, Sayings,
       Reports
<1>8. BurstSent'
    BY <1>1, <1>2, <1>3, Lists, Usual
    DEF BurstSent, BurstCut, Failure, Over, ApiPlaced, SaysOnly, Sayings, Reports
<1>9. TokensSent'
    BY <1>1, <1>2, <1>3, Lists
    DEF TokensSent, Accepted, Quiet, Failure, Over, ApiPlaced, SaysOnly, Sayings, Reports
<1>10. PathsChecked'
    BY <1>1, <1>2, <1>3, Lists
    DEF PathsChecked, Failure, Over, ApiPlaced, SaysOnly, Sayings, Reports
<1>11. StagesTried'
    BY <1>1, <1>2, <1>3, Lists
    DEF StagesTried, Probed, HasServer, Failure, Over, ApiPlaced, SaysOnly, Sayings, Reports
<1> QED
    BY <1>4, <1>5, <1>6, <1>7, <1>8, <1>9, <1>10, <1>11 DEF ApiInv

\* The server of a file.
LEMMA DecideServerApi ==
    ASSUME ConsentInv, ApiInv, DecideServer PROVE ApiInv'
<1> SUFFICES ASSUME agent = "api_security" PROVE ApiInv'
    BY DEF DecideServer, Continue, GiveUp, run, ApiInv
<1>1. ApiPlaced /\ NotYet /\ SpecSought /\ HiddenProbed /\ BurstSent /\ TokensSent /\ PathsChecked
      /\ StagesTried
    BY DEF ApiInv
<1>2. /\ at = "paths" /\ sent' = sent /\ index > Len(api.paths) /\ index' = 1
      /\ UNCHANGED <<agent, authorized, api, reset, failures, budget, burst, baseline>>
    BY DEF DecideServer, Continue, GiveUp, server
<1>3. \/ /\ authorized /\ documented' = api.listed /\ SaysOnly({})
         /\ at' = "hidden" \/ (at' = "return" /\ api.serves = "malformed")
      \/ /\ UNCHANGED documented /\ at' = "return"
         /\ \/ api.serves \notin {"url", "malformed"} /\ SaysOnly({})
            \/ SaysOnly({"error"}) /\ Failure'
            \/ ~authorized /\ SaysOnly({"skipped"}) /\ Reports("skipped", "target")'
    BY DEF DecideServer, Continue, GiveUp, SaysOnly, Sayings, Reports, Failure, Skipped
<1>4. ApiPlaced'
    BY <1>1, <1>2, <1>3, Lists
    DEF ApiPlaced, ToTokens, ToBurst, ToHidden, Plain, Over, UrlStages, SaysOnly, Sayings, Reports
<1>5. NotYet'
    BY <1>1, <1>2, <1>3, Lists
    DEF NotYet, ToTokens, ToBurst, ToHidden, Plain, ApiPlaced, SaysOnly, Sayings, Reports
<1>6. SpecSought'
    BY <1>1, <1>2, <1>3, Lists
       DEF SpecSought, Probing, Probed, HasServer, Failure, Over, NotYet, ToHidden, Plain,
           Unpublished, ApiPlaced, SaysOnly, Sayings, Reports
<1>7. HiddenProbed'
    BY <1>1, <1>2, <1>3, Lists
    DEF HiddenProbed, Probed, HasServer, Failure, Discovered, Quiet, Over, ApiPlaced, NotYet,
        ToHidden, SaysOnly, Sayings,
       Reports
<1>8. BurstSent'
    BY <1>1, <1>2, <1>3, Lists, Usual
    DEF BurstSent, BurstCut, Failure, Over, ApiPlaced, SaysOnly, Sayings, Reports
<1>9. TokensSent'
    BY <1>1, <1>2, <1>3, Lists
    DEF TokensSent, Accepted, Quiet, Failure, Over, ApiPlaced, SaysOnly, Sayings, Reports
<1>10. PathsChecked'
    BY <1>1, <1>2, <1>3, Lists
    DEF PathsChecked, Failure, Over, ApiPlaced, SaysOnly, Sayings, Reports
<1>11. StagesTried'
    BY <1>1, <1>2, <1>3, Lists
    DEF StagesTried, Probed, HasServer, Failure, Over, ApiPlaced, SaysOnly, Sayings, Reports
<1> QED
    BY <1>4, <1>5, <1>6, <1>7, <1>8, <1>9, <1>10, <1>11 DEF ApiInv

\* The window of the server ends.
LEMMA WindowResetApi ==
    ASSUME ConsentInv, ApiInv, WindowReset PROVE ApiInv'
<1> SUFFICES ASSUME agent = "api_security" PROVE ApiInv'
    BY DEF WindowReset, Continue, GiveUp, run, ApiInv
<1>1. ApiPlaced /\ NotYet /\ SpecSought /\ HiddenProbed /\ BurstSent /\ TokensSent /\ PathsChecked
      /\ StagesTried
    BY DEF ApiInv
<1>2. /\ UNCHANGED <<agent, authorized, at, sent, findings, index, api, failures, documented,
             burst, baseline>>
      /\ budget' = api.limit /\ reset' = (reset \/ at = "burst")
    BY DEF WindowReset, run, memory
<1>3. SaysOnly({})
    BY <1>2 DEF SaysOnly, Reports
<1>4. api.limit \in Nat
    BY <1>1, Usual
<1>5. ApiPlaced'
    BY <1>1, <1>2, <1>3, <1>4, Lists
    DEF ApiPlaced, ToTokens, ToBurst, ToHidden, Plain, Over, UrlStages, SaysOnly, Sayings, Reports
<1>6. NotYet'
    BY <1>1, <1>2, <1>3, <1>4, Lists
    DEF NotYet, ToTokens, ToBurst, ToHidden, Plain, ApiPlaced, SaysOnly, Sayings, Reports
<1>7. SpecSought'
    BY <1>1, <1>2, <1>3, <1>4, Lists
    DEF SpecSought, Probing, Probed, HasServer, Failure, Over, Unpublished, ApiPlaced, SaysOnly,
        Sayings, Reports
<1>8. HiddenProbed'
    BY <1>1, <1>2, <1>3, <1>4, Lists
    DEF HiddenProbed, Probed, HasServer, Failure, Discovered, Quiet, Over, ApiPlaced, SaysOnly,
        Sayings, Reports
<1>9. BurstSent'
    BY <1>1, <1>2, <1>3, <1>4, Lists, Usual
    DEF BurstSent, BurstCut, Failure, Over, ApiPlaced, SaysOnly, Sayings, Reports
<1>10. TokensSent'
    BY <1>1, <1>2, <1>3, <1>4, Lists
    DEF TokensSent, Accepted, Quiet, Failure, Over, ApiPlaced, SaysOnly, Sayings, Reports
<1>11. PathsChecked'
    BY <1>1, <1>2, <1>3, <1>4, Lists
    DEF PathsChecked, Failure, Over, ApiPlaced, SaysOnly, Sayings, Reports
<1>12. StagesTried'
    BY <1>1, <1>2, <1>3, <1>4, Lists
    DEF StagesTried, Probed, HasServer, Failure, Over, ApiPlaced, SaysOnly, Sayings, Reports
<1> QED
    BY <1>5, <1>6, <1>7, <1>8, <1>9, <1>10, <1>11, <1>12 DEF ApiInv

\* The end of execute, and a job without a target.
LEMMA ReturnApi ==
    ASSUME ConsentInv, ApiInv, Return \/ NoTarget, UNCHANGED probing PROVE ApiInv'
<1> SUFFICES ASSUME agent = "api_security" PROVE ApiInv'
    BY DEF Return, NoTarget, Continue, ApiInv
<1>1. ApiPlaced /\ NotYet /\ SpecSought /\ HiddenProbed /\ BurstSent /\ TokensSent /\ PathsChecked
      /\ StagesTried
    BY DEF ApiInv
<1>2. /\ sent' = sent
      /\ UNCHANGED <<agent, authorized, index, api, reset, failures, budget, documented, burst,
             baseline>>
      /\ (at = "return" /\ at' = "done") \/ (at = "start" /\ at' = "no_target")
    BY DEF Return, NoTarget, Continue, probing, server, memory
<1>3. SaysOnly({})
    BY DEF Return, NoTarget, Continue, SaysOnly, Sayings, Reports
<1>4. ApiPlaced'
    BY <1>1, <1>2 DEF ApiPlaced, ToTokens, ToBurst, ToHidden, Plain, Over, UrlStages
<1>5. NotYet'
    BY <1>1, <1>2, <1>3 DEF NotYet, ToTokens, ToBurst, ToHidden, Plain
<1>6. SpecSought'
  <2>1. ASSUME NEW what \in Sayings, NEW where PROVE Reports(what, where)' <=> Reports(what, where)
    <3>1. \/ findings' = findings
          \/ findings' = findings \cup {<<"completed", "target">>}
          \/ findings' = findings \cup {<<"no_target", "target">>}
      BY DEF Return, NoTarget, Continue
    <3> QED
      BY <3>1 DEF Reports, Sayings
  <2>2. Probing' \/ Probed' => Probing \/ Probed
    BY <1>2, <2>1 DEF Probing, Probed, HasServer, Failure, Over, Sayings
  <2> QED
    BY <1>1, <1>2, <2>1, <2>2 DEF SpecSought, Probing, Over, Unpublished, Sayings
<1>7. HiddenProbed'
    BY <1>1, <1>2, <1>3 DEF HiddenProbed, Probed, HasServer, Failure, Discovered, Quiet, Over,
       SaysOnly, Sayings, Reports
<1>8. BurstSent'
    BY <1>1, <1>2, <1>3 DEF BurstSent, BurstCut, Failure, Over, SaysOnly, Sayings, Reports
<1>9. TokensSent'
    BY <1>1, <1>2, <1>3 DEF TokensSent, Accepted, Quiet, Failure, Over, SaysOnly, Sayings, Reports
<1>10. PathsChecked'
    BY <1>1, <1>2, <1>3 DEF PathsChecked, Failure, Over, SaysOnly, Sayings, Reports
<1>11. StagesTried'
    BY <1>1, <1>2, <1>3 DEF StagesTried, Probed, HasServer, Failure, Over, SaysOnly, Sayings,
       Reports
<1> QED
    BY <1>4, <1>5, <1>6, <1>7, <1>8, <1>9, <1>10, <1>11 DEF ApiInv

\* What happens to other agents, and to their directories, is nothing to this one.
LEMMA IdleApi ==
    ASSUME ApiInv, UNCHANGED <<run, probing>> PROVE ApiInv'
BY
DEF ApiInv, run, probing, server, memory, ApiPlaced, NotYet, SpecSought, HiddenProbed, BurstSent,
   TokensSent, PathsChecked, StagesTried, Probing, Probed, HasServer, Unpublished, Discovered,
       BurstCut, Accepted, Failure,
   Reports, Quiet

-----------------------------------------------------------------------------
(* Whose step it is.                                                       *)

\* The stages of the agents that read a directory, and of the tools.
LEMMA SourceStages ==
    ASSUME StepSource
    PROVE  /\ UNCHANGED <<agent, authorized>>
           /\ agent \in PatternAgents \/ agent \in ToolAgents \/ at # "start"
           /\ at \in {"start", "check", "walk", "logs", "tool"}
           /\ at' \notin {"start", "ports", "front", "deep", "crawl", "pages", "reflection",
                  "errors"}
<1>1. CASE Begin \/ SkipCheck \/ StartWalk \/ EndWalk \/ WalkRaises
    BY <1>1 DEF Begin, SkipCheck, StartWalk, EndWalk, WalkRaises, Continue
<1>2. CASE EndChecks \/ ReadLog \/ JudgeLogs \/ EndTool
    BY <1>2 DEF EndChecks, ReadLog, JudgeLogs, EndTool, Continue
<1>3. CASE StartTool
    BY <1>3 DEF StartTool, Continue
<1>4. CASE \E f \in Files : ReadFile(f) \/ ReadUntilFound(f) \/ DiscoverLog(f)
    BY <1>4 DEF ReadFile, ReadUntilFound, DiscoverLog, Continue
<1>5. CASE \E t \in Files \cup {"target"} : RunTool(t)
    BY <1>5 DEF RunTool, Continue
<1> QED
    BY <1>1, <1>2, <1>3, <1>4, <1>5 DEF StepSource

\* The stages of the black-box agent.
LEMMA WebStages ==
    ASSUME StepWeb
    PROVE  /\ UNCHANGED <<agent, authorized>>
           /\ agent = "black_box" \/ at # "start"
           /\ at \in {"start", "ports", "front", "deep", "crawl", "pages", "reflection", "errors"}
<1>1. CASE ValidateTarget \/ ScanPorts \/ CheckWebServer \/ DeepAssessment
    BY <1>1 DEF ValidateTarget, ScanPorts, CheckWebServer, DeepAssessment, Continue
<1>2. CASE SkipVisited \/ FetchFails \/ FetchPage \/ FetchUnparsable \/ EndCrawl
    BY <1>2 DEF SkipVisited, FetchFails, FetchPage, FetchUnparsable, EndCrawl, Continue
<1>3. CASE CheckForms \/ CheckReflection \/ CheckErrors \/ EndPages
    BY <1>3 DEF CheckForms, CheckReflection, CheckErrors, EndPages, Probe, Continue
<1> QED
    BY <1>1, <1>2, <1>3 DEF StepWeb

\* The stages of the API agent.
LEMMA ApiStages ==
    ASSUME StepApi
    PROVE  /\ UNCHANGED <<agent, authorized>>
           /\ agent = "api_security" \/ at # "start"
           /\ at \in UrlStages \cup {"start", "paths", "hidden"}
           /\ at' \notin {"start", "ports", "front", "deep", "crawl", "pages", "reflection",
                  "errors"}
<1> USE DEF UrlStages
<1>1. CASE GetPlain \/ GetHeaders \/ InspectClaims \/ GetFromOrigin \/ DecideActive
    BY <1>1 DEF GetPlain, GetHeaders, InspectClaims, GetFromOrigin, DecideActive, GiveUp, Continue
<1>2. CASE FetchSpec \/ NoSpec \/ SkipDocumented \/ ProbeHidden \/ EndHidden
    BY <1>2 DEF FetchSpec, NoSpec, SkipDocumented, ProbeHidden, EndHidden, GiveUp, Continue
<1>3. CASE Burst \/ JudgeBurst \/ GetBaseline \/ ProbeToken \/ EndTokens
    BY <1>3 DEF Burst, JudgeBurst, GetBaseline, ProbeToken, EndTokens, Continue
<1>4. CASE OpenSpec \/ CheckPath \/ DecideServer
    BY <1>4 DEF OpenSpec, CheckPath, DecideServer, GiveUp, Continue
<1> QED
    BY <1>1, <1>2, <1>3, <1>4 DEF StepApi

-----------------------------------------------------------------------------
(* The verdicts on an API.                                                 *)

\* At first nothing was asked.
LEMMA ApiInit == Init => ApiInv
<1> SUFFICES ASSUME Init, agent = "api_security" PROVE ApiInv
    BY DEF ApiInv
<1>1. /\ at = "start" /\ sent = {} /\ findings = {} /\ api \in Apis /\ budget = api.limit
      /\ index = 1
      /\ documented = {} /\ burst = [answers |-> 0, limited |-> FALSE] /\ ~reset
    BY DEF Init, InitRun, InitApi
<1>2. ApiPlaced
    BY <1>1, ApisAssumption DEF ApiPlaced, ToTokens, ToBurst, ToHidden, Plain, UrlStages
<1>3. NotYet /\ SpecSought /\ HiddenProbed /\ BurstSent /\ TokensSent /\ PathsChecked /\ StagesTried
    BY <1>1
    DEF NotYet, SpecSought, Probing, Probed, HiddenProbed, BurstSent, TokensSent, PathsChecked,
       StagesTried, Over, Reports
<1> QED
    BY <1>2, <1>3 DEF ApiInv

\* Every step keeps what is known of an API.
LEMMA ApiStep == ConsentInv /\ ApiInv /\ [Next]_vars => ApiInv'
<1> SUFFICES ASSUME ConsentInv, ApiInv, [Next]_vars PROVE ApiInv'
    OBVIOUS
<1>1. CASE StepApi
    BY <1>1, GetPlainApi, GetHeadersApi, InspectClaimsApi, GetFromOriginApi, DecideActiveApi,
       FetchSpecApi, NoSpecApi, SkipDocumentedApi, ProbeHiddenApi, EndHiddenApi, BurstApi,
       JudgeBurstApi, GetBaselineApi, ProbeTokenApi, EndTokensApi, OpenSpecApi, CheckPathApi,
       DecideServerApi
    DEF StepApi
<1>2. CASE StepSource \/ StepWeb
  <2>1. agent' = agent /\ agent # "api_security"
    <3>1. ApiPlaced \/ agent # "api_security"
      BY DEF ApiInv
    <3> QED
      BY <1>2, <3>1, SourceStages, WebStages
      DEF ApiPlaced, ToTokens, ToBurst, ToHidden, Plain, Over, PatternAgents, ToolAgents
  <2> QED
    BY <2>1 DEF ApiInv
<1>3. CASE (NoTarget \/ Return) /\ UNCHANGED <<source, web, probing>>
    BY <1>3, ReturnApi
<1>4. CASE Around
  <2>1. CASE WindowReset
    BY <2>1, WindowResetApi
  <2>2. CASE UNCHANGED <<run, probing>>
    BY <2>2, IdleApi
  <2> QED
    BY <1>4, <2>1, <2>2 DEF Around, RemoveFile
<1>5. CASE UNCHANGED vars
    BY <1>5, IdleApi DEF vars
<1> QED
    BY <1>1, <1>2, <1>3, <1>4, <1>5 DEF Next, Step

\* What the API agent says of a server is what its answers were: a rate limit, a
\* crafted token, a hidden endpoint (api_security_agent.py:212-307): for any API, any
\* limit of its server and any failures.
THEOREM ApiVerdictsAlwaysHold == Spec => []ApiVerdicts
<1>1. ConsentInv /\ ApiInv => ApiVerdicts
  <2> SUFFICES ASSUME ApiInv, agent = "api_security", at = "done" PROVE ApiVerdicts
    BY DEF ApiVerdicts, RateVerdict, TokenVerdict, HiddenVerdict, Tested
  <2>1. ApiPlaced /\ SpecSought /\ HiddenProbed /\ BurstSent /\ TokensSent
    BY DEF ApiInv
  <2>2. RateVerdict
    BY <2>1 DEF RateVerdict, BurstSent, Tested, Failure, Over, BurstCut
  <2>3. TokenVerdict
    BY <2>1, Lists DEF TokenVerdict, TokensSent, Tested, Failure, Over, Accepted
  <2>4. HiddenVerdict
    <3> SUFFICES ASSUME NEW c \in Range(Candidates)
                 PROVE  /\ Reports("hidden", c) => api.live[c] \in Exists /\ Unlisted(c)
                        /\ Tested /\ authorized /\ HasServer /\ Quiet("hidden")
                              /\ api.live[c] \in Exists /\ Unlisted(c) => Reports("hidden", c)
                        /\ Reports("hidden", c) /\ c \in api.documents =>
                              api.documents # api.listed \/ Unpublished
      BY DEF HiddenVerdict, Unpublished
    <3>1. Reports("hidden", c) => Probing
      BY DEF Probing
    <3>2. Probing \/ Probed => (Unlisted(c) <=> c \notin documented)
      BY <2>1 DEF SpecSought, Unlisted
    <3>3. Tested /\ authorized /\ HasServer => Probed
      BY DEF Tested, Probed, Over, Failure
    <3>4. Probed => Discovered(c)
      BY <2>1, Lists DEF HiddenProbed
    <3>5. Reports("hidden", c) => documented = api.listed \/ Unpublished
      BY <2>1 DEF SpecSought
    <3> QED
      BY <2>1, <3>1, <3>2, <3>3, <3>4, <3>5 DEF HiddenProbed, Discovered
  <2> QED
    BY <2>2, <2>3, <2>4 DEF ApiVerdicts
<1> QED
    BY <1>1, ConsentInit, ConsentStep, ApiInit, ApiStep, PTL DEF Spec

\* A test of an API that ends without an error has tried everything, but for tokens
\* when the request without one fails, or tells that a part was skipped.
LEMMA SkippedAlwaysTold == ApiInv => SkippedIsTold
<1> SUFFICES ASSUME ApiInv, Tested PROVE SkippedIsTold
    BY DEF SkippedIsTold
<1>1. StagesTried /\ PathsChecked /\ SpecSought /\ at = "done" /\ ~Failure
    BY DEF ApiInv, Tested, Failure
<1>2. authorized /\ api.isUrl => "hidden" \in sent \/ \A c \in Range(Candidates) : ~Unlisted(c)
  <2> SUFFICES ASSUME authorized, api.isUrl, "hidden" \notin sent, NEW c \in Range(Candidates)
               PROVE  ~Unlisted(c)
    OBVIOUS
  <2>1. Probed
    BY <1>1 DEF Probed, Over, HasServer
  <2>2. c \in documented
    BY <1>1, <2>1, Lists DEF StagesTried
  <2> QED
    BY <1>1, <2>1, <2>2 DEF SpecSought, Unlisted
<1> QED
    BY <1>1, <1>2 DEF SkippedIsTold, StagesTried, PathsChecked, Over

-----------------------------------------------------------------------------
(* The agents that start a tool                                            *)

(* What a run of a tool leaves in the findings.                              *)
RunTold(r) ==
    /\ r.listed \subseteq findings
    /\ r.outcome = "report" \/ Untold(r.outcome)
          \/ \E w \in {"timeout", "error", "not_installed"} : <<w, r.on>> \in findings

(* ToolTroubleIsTold speaks of the end; before it, what the tool has yet to   *)
(* look at is in todo.                                                       *)
ToolInv ==
    agent \in ToolAgents =>
        /\ at \in {"start", "tool", "return", "done", "no_target"}
        /\ at = "start" => ran = {}
        /\ onDisk \subseteq Files
        /\ \A r \in ran : RunTold(r)
        /\ agent = "dependency_security" /\ at = "tool" =>
              \A f \in DependencyFiles : f \in todo \/ \E r \in ran : r.on = f
        /\ agent = "dependency_security" /\ at \in Over /\ ran # {} =>
              \A f \in DependencyFiles : \E r \in ran : r.on = f

\* At first no tool has run.
LEMMA ToolInit == Init => ToolInv
BY DEF Init, InitRun, InitSource, ToolInv, Present, Over

\* Every ending of a run is told, or is one of those of which nothing is said.
LEMMA EndingsAreTold ==
    ASSUME NEW t, NEW outcome \in Outcomes,
           NEW listed, findings' = findings \cup ({<<w, t>> : w \in Told(outcome)} \cup listed),
           agent' = agent
    PROVE  RunTold([on |-> t, outcome |-> outcome, listed |-> listed])'
<1>1. listed \subseteq findings' /\ \A w \in Told(outcome) : <<w, t>> \in findings'
    OBVIOUS
<1>2. \/ outcome = "report" \/ Untold(outcome)'
      \/ Told(outcome) \in {{"timeout"}, {"error"}, {"not_installed"}}
    BY DEF Outcomes, Told, Untold
<1> QED
    BY <1>1, <1>2 DEF RunTold

\* A run of the tool.
LEMMA RunToolTold ==
    ASSUME ToolInv, NEW t, RunTool(t) PROVE ToolInv'
<1> SUFFICES ASSUME agent \in ToolAgents PROVE ToolInv'
    BY DEF RunTool, Continue, ToolInv
<1>1. PICK outcome \in Outcomes, listed \in SUBSET Issues(t) :
        /\ findings' = findings \cup ({<<w, t>> : w \in Told(outcome)} \cup listed)
        /\ ran' = ran \cup {[on |-> t, outcome |-> outcome, listed |-> listed]}
    BY DEF RunTool, Continue
<1>2. /\ at = "tool" /\ at' = "tool" /\ todo' = todo \ {t}
      /\ UNCHANGED <<agent, tree, onDisk>>
    BY DEF RunTool, Continue
<1>3. RunTold([on |-> t, outcome |-> outcome, listed |-> listed])'
    BY <1>1, <1>2, EndingsAreTold
<1>4. ASSUME NEW r \in ran PROVE RunTold(r)'
  <2>1. RunTold(r)
    BY DEF ToolInv
  <2>2. findings \subseteq findings' /\ agent' = agent
    BY <1>1, <1>2
  <2> QED
    BY <2>1, <2>2 DEF RunTold, Untold
<1>5. agent = "dependency_security" =>
        \A f \in DependencyFiles' : f \in todo' \/ \E r \in ran' : r.on = f
  <2> SUFFICES ASSUME agent = "dependency_security", NEW f \in DependencyFiles', f \notin todo'
               PROVE  \E r \in ran' : r.on = f
    OBVIOUS
  <2>1. f \in DependencyFiles
    BY <1>2 DEF DependencyFiles
  <2>2. CASE f \in todo
    <3>1. f = t /\ [on |-> t, outcome |-> outcome, listed |-> listed].on = t
      BY <1>2, <2>2
    <3> QED
      BY <1>1, <3>1
  <2>3. CASE f \notin todo
    BY <1>1, <1>2, <2>1, <2>3 DEF ToolInv
  <2> QED
    BY <2>2, <2>3
<1> QED
    BY <1>1, <1>2, <1>3, <1>4, <1>5 DEF ToolInv, Over

\* The look at the target, after which the tool runs or execute ends.
LEMMA StartToolTold ==
    ASSUME ToolInv, StartTool PROVE ToolInv'
<1> SUFFICES ASSUME agent \in ToolAgents PROVE ToolInv'
    BY DEF StartTool
<1>1. /\ at = "start" /\ ran = {} /\ at' \in {"tool", "done"}
      /\ UNCHANGED <<agent, tree, onDisk, ran>>
      /\ agent = "dependency_security" /\ at' = "tool" => todo' = DependencyFiles
    BY DEF StartTool, Continue, ToolInv
<1> QED
    BY <1>1 DEF ToolInv, DependencyFiles, Over

\* A step that runs no tool keeps the invariant, whatever goes from the disk, if
\* findings stay and the tool's stage ends with nothing left to look at.
LEMMA OthersTold ==
    ASSUME ToolInv, agent' = agent, UNCHANGED <<tree, ran>>,
           agent \in ToolAgents => /\ findings \subseteq findings' /\ onDisk' \subseteq onDisk
                                   /\ at' \in {at, "return", "done", "no_target"}
                                   /\ at' = at => todo' = todo
                                   /\ at' # at => (at = "tool" /\ todo = {})
                                          \/ at \in {"start", "return"}
    PROVE  ToolInv'
<1> SUFFICES ASSUME agent \in ToolAgents PROVE ToolInv'
    BY DEF ToolInv
<1>1. ASSUME NEW r \in ran PROVE RunTold(r)'
  <2>1. RunTold(r)
    BY DEF ToolInv
  <2> QED
    BY <2>1 DEF RunTold, Untold
<1>2. DependencyFiles' \subseteq DependencyFiles
    BY DEF DependencyFiles
<1> QED
    BY <1>1, <1>2 DEF ToolInv, Over

\* Every step keeps what is known of the tools.
LEMMA ToolStep == ToolInv /\ [Next]_vars => ToolInv'
<1> SUFFICES ASSUME ToolInv, [Next]_vars PROVE ToolInv'
    OBVIOUS
<1>1. CASE StepSource
  <2>1. CASE StartTool
    BY <2>1, StartToolTold
  <2>2. CASE EndTool
    BY <2>2, OthersTold DEF EndTool, Continue, source, walk
  <2>3. CASE \E t \in Files \cup {"target"} : RunTool(t)
    BY <2>3, RunToolTold
  <2>4. CASE Begin \/ at \in {"check", "walk", "logs"}
    <3>1. agent' = agent /\ agent \notin ToolAgents
      BY <1>1, <2>4, SourceStages DEF Begin, ToolInv, ToolAgents, PatternAgents
    <3> QED
      BY <3>1 DEF ToolInv
  <2> QED
    <3>1. SkipCheck \/ StartWalk \/ EndWalk \/ WalkRaises => at \in {"check", "walk", "logs"}
      BY DEF SkipCheck, StartWalk, EndWalk, WalkRaises, Continue
    <3>2. EndChecks \/ ReadLog \/ JudgeLogs => at \in {"check", "walk", "logs"}
      BY DEF EndChecks, ReadLog, JudgeLogs, Continue
    <3>3. \A f \in Files : ReadFile(f) \/ ReadUntilFound(f) \/ DiscoverLog(f) =>
              at \in {"check", "walk", "logs"}
      BY DEF ReadFile, ReadUntilFound, DiscoverLog, Continue
    <3> QED
      BY <1>1, <2>1, <2>2, <2>3, <2>4, <3>1, <3>2, <3>3 DEF StepSource
<1>2. CASE StepWeb \/ StepApi
  <2>1. agent' = agent /\ agent \notin ToolAgents
    BY <1>2, WebStages, ApiStages DEF ToolInv, ToolAgents, UrlStages
  <2> QED
    BY <2>1 DEF ToolInv
<1>3. CASE (NoTarget \/ Return) /\ UNCHANGED <<source, web, probing>>
    BY <1>3, OthersTold DEF NoTarget, Return, Continue, source, walk
<1>4. CASE Around
  <2>1. CASE WindowReset /\ UNCHANGED source
    BY <2>1, OthersTold DEF WindowReset, run, source, walk
  <2>2. CASE \E f \in Files : RemoveFile(f)
    BY <2>2, OthersTold DEF RemoveFile, run, walk
  <2> QED
    BY <1>4, <2>1, <2>2 DEF Around
<1>5. CASE UNCHANGED vars
    BY <1>5, OthersTold DEF vars, run, source, walk
<1> QED
    BY <1>1, <1>2, <1>3, <1>4, <1>5 DEF Next, Step

\* Trouble of a tool is told, and takes nothing away from what other runs reported.
LEMMA ToolTroubleAlwaysTold == ToolInv => ToolTroubleIsTold
<1> SUFFICES ASSUME ToolInv, agent \in ToolAgents, at = "done" PROVE ToolTroubleIsTold
    BY DEF ToolTroubleIsTold
<1>1. \A r \in ran : RunTold(r)
    BY DEF ToolInv
<1>2. agent = "dependency_security" /\ ran # {} =>
        onDisk \cap (IF tree.isDir THEN {f \in Files : tree.kind[f] \in {"requirements", "setup"}}
                     ELSE Files) \subseteq {r.on : r \in ran}
    BY DEF ToolInv, DependencyFiles, Over
<1> QED
    BY <1>1, <1>2 DEF ToolTroubleIsTold, RunTold

-----------------------------------------------------------------------------
(* Sequences, numbers and reach.                                           *)

\* Induction over the naturals: a set that has 0 and with every number the next one
\* has them all.  Otherwise, below a number that it does not have, adding one would
\* map a finite set into itself, and not onto it.
LEMMA NatSetInduction ==
    ASSUME NEW S \in SUBSET Nat, 0 \in S, \A n \in S : n + 1 \in S
    PROVE  \A n \in Nat : n \in S
<1> SUFFICES ASSUME NEW n \in Nat, n \notin S PROVE FALSE
    OBVIOUS
<1> DEFINE T == {i \in S : i < n}
           next1 == [i \in T |-> i + 1]
<1>1. next1 \in Injection(T, T)
  <2>1. \A i \in T : i + 1 \in T
    OBVIOUS
  <2>2. next1 \in [T -> T]
    BY <2>1
  <2>3. \A i, j \in T : next1[i] = next1[j] => i = j
    OBVIOUS
  <2> QED
    BY <2>2, <2>3 DEF Injection, IsInjective
<1>2. T \in SUBSET Nat
    OBVIOUS
<1>3. \A i \in T : i <= n
    OBVIOUS
<1>4. 0 \in T
  <2>1. n # 0
    OBVIOUS
  <2> QED
    BY <2>1
<1>5. \A i \in T : next1[i] # 0
    OBVIOUS
<1> HIDE DEF T, next1
<1>6. IsFiniteSet(T)
    BY <1>2, <1>3, FS_BoundedSetOfNaturals
<1>7. next1 \in Surjection(T, T)
  <2>1. Cardinality(T) = Cardinality(T)
    OBVIOUS
  <2> QED
    BY <1>1, <1>6, <2>1, FS_Injection
<1> QED
    BY <1>4, <1>5, <1>7 DEF Surjection

\* Every set of naturals that has one has a least one.
LEMMA LeastNumber ==
    ASSUME NEW S \in SUBSET Nat, S # {}
    PROVE  Min(S) \in S /\ \A y \in S : Min(S) <= y
<1> DEFINE Below == {n \in Nat : \A x \in S : n <= x}
<1>1. CASE \E n \in Below : n + 1 \notin Below
  <2>1. PICK n \in Below : n + 1 \notin Below
    BY <1>1
  <2>2. n \in S
    BY <2>1
  <2>3. \A y \in S : n <= y
    BY <2>1
  <2>4. \E x \in S : \A y \in S : x =< y
    BY <2>2, <2>3
  <2> QED
    BY <2>4 DEF Min
<1>2. CASE \A n \in Below : n + 1 \in Below
  <2>1. 0 \in Below /\ Below \in SUBSET Nat
    OBVIOUS
  <2>2. \A n \in Nat : n \in Below
    <3> HIDE DEF Below
    <3> QED
      BY <1>2, <2>1, NatSetInduction
  <2>3. PICK x \in S : TRUE
    OBVIOUS
  <2>4. x + 1 \in Below
    BY <2>2
  <2> QED
    BY <2>4
<1> QED
    BY <1>1, <1>2

\* Among keeps those of the links that are in the set.
LEMMA AmongKeeps ==
    ASSUME NEW V, NEW s \in Seq(V), NEW K
    PROVE  /\ Among(s, K) \in Seq(V)
           /\ Range(Among(s, K)) = Range(s) \cap K
<1> DEFINE F(f, i) == IF i = 0 THEN <<>>
                      ELSE IF s[i] \in K THEN Append(f[i - 1], s[i]) ELSE f[i - 1]
           Leading(n) == {s[j] : j \in 1 .. n}
           Good(f, n) == /\ f = [i \in 0 .. n |-> F(f, i)]
                         /\ f[n] \in Seq(V)
                         /\ Range(f[n]) = Leading(n) \cap K
           S == {n \in Nat : n <= Len(s) => \E f : Good(f, n)}
<1>1. 0 \in S
  <2> DEFINE f == [i \in 0 .. 0 |-> <<>>]
  <2>1. f = [i \in 0 .. 0 |-> F(f, i)]
    OBVIOUS
  <2>2. f[0] = <<>>
    OBVIOUS
  <2>3. <<>> \in Seq(V) /\ Range(<<>>) = {s[j] : j \in 1 .. 0} \cap K
    BY DEF Range
  <2>4. Good(f, 0)
    BY <2>1, <2>2, <2>3
  <2> QED
    BY <2>4
<1>2. ASSUME NEW n \in Nat, n + 1 <= Len(s), NEW f, Good(f, n) PROVE \E g : Good(g, n + 1)
  <2> DEFINE v == IF s[n + 1] \in K THEN Append(f[n], s[n + 1]) ELSE f[n]
             g == [i \in 0 .. n + 1 |-> IF i = n + 1 THEN v ELSE f[i]]
  <2>1. f = [i \in 0 .. n |-> F(f, i)] /\ f[n] \in Seq(V) /\ Range(f[n]) = Leading(n) \cap K
    BY <1>2
  <2>2. g = [i \in 0 .. n + 1 |-> F(g, i)]
    <3>1. ASSUME NEW i \in 0 .. n + 1 PROVE g[i] = F(g, i)
      <4>1. CASE i = n + 1
        BY <4>1
      <4>2. CASE i # n + 1
        <5>1. i \in 0 .. n /\ (i # 0 => i - 1 \in 0 .. n + 1 /\ i - 1 # n + 1)
          BY <4>2
        <5>2. f[i] = F(f, i)
          <6> HIDE DEF F
          <6> QED
            BY <2>1, <5>1
        <5>3. g[i] = f[i] /\ (i # 0 => g[i - 1] = f[i - 1])
          BY <4>2, <5>1
        <5> HIDE DEF g
        <5> QED
          BY <5>2, <5>3
      <4> QED
        BY <4>1, <4>2
    <3> QED
      BY <3>1
  <2>3. g[n + 1] = v
    OBVIOUS
  <2>4. n + 1 \in 1 .. Len(s) /\ s[n + 1] \in V
    BY <1>2
  <2>5. v \in Seq(V)
    BY <2>1, <2>4
  <2>6. Range(v) = Leading(n + 1) \cap K
    <3>1. Leading(n + 1) = Leading(n) \cup {s[n + 1]}
      OBVIOUS
    <3>2. ASSUME NEW q \in Seq(V), NEW x \in V PROVE Range(Append(q, x)) = Range(q) \cup {x}
      <4>1. /\ DOMAIN Append(q, x) = 1 .. Len(q) + 1 /\ DOMAIN q = 1 .. Len(q)
            /\ \A i \in 1 .. Len(q) : Append(q, x)[i] = q[i]
            /\ Append(q, x)[Len(q) + 1] = x
        OBVIOUS
      <4> QED
        BY <4>1 DEF Range
    <3>3. s[n + 1] \in K => Range(v) = Range(f[n]) \cup {s[n + 1]}
      BY <2>1, <2>4, <3>2
    <3>4. s[n + 1] \notin K => v = f[n]
      OBVIOUS
    <3> HIDE DEF Leading, v
    <3> QED
      BY <2>1, <3>1, <3>3, <3>4
  <2>7. Good(g, n + 1)
    BY <2>2, <2>3, <2>5, <2>6
  <2> HIDE DEF Good
  <2> QED
    BY <2>7
<1> HIDE DEF Good
<1>3. PICK f : Good(f, Len(s))
  <2>1. \A n \in S : n + 1 \in S
    BY <1>2
  <2>2. S \in SUBSET Nat
    OBVIOUS
  <2>3. \A n \in Nat : n \in S
    <3> HIDE DEF S
    <3> QED
      BY <1>1, <2>1, <2>2, NatSetInduction
  <2>4. Len(s) \in Nat
    OBVIOUS
  <2> QED
    BY <2>3, <2>4
<1>4. f = [i \in 0 .. Len(s) |-> F(f, i)] /\ f[Len(s)] \in Seq(V)
      /\ Range(f[Len(s)]) = Leading(Len(s)) \cap K
    BY <1>3 DEF Good
<1> DEFINE Rec(h) == h = [i \in 0 .. Len(s) |-> F(h, i)]
           c == CHOOSE h : Rec(h)
<1>5. Rec(c)
  <2>1. Rec(f)
    BY <1>4
  <2> HIDE DEF Rec
  <2> QED
    BY <2>1
<1>6. ASSUME NEW h, Rec(h)
      PROVE  /\ h[0] = <<>>
             /\ \A n \in Nat : n + 1 <= Len(s) =>
                  h[n + 1] = IF s[n + 1] \in K THEN Append(h[n], s[n + 1]) ELSE h[n]
  <2>1. \A i \in 0 .. Len(s) : h[i] = F(h, i)
    <3> HIDE DEF F
    <3> QED
      BY <1>6
  <2>2. 0 \in 0 .. Len(s)
    OBVIOUS
  <2>3. ASSUME NEW n \in Nat, n + 1 <= Len(s)
        PROVE  n + 1 \in 0 .. Len(s) /\ n + 1 # 0 /\ (n + 1) - 1 = n
    BY <2>3
  <2> QED
    BY <2>1, <2>2, <2>3
<1>7. c[Len(s)] = f[Len(s)]
  <2> DEFINE E == {n \in Nat : n <= Len(s) => c[n] = f[n]}
  <2>1. Rec(f)
    BY <1>4
  <2>2. 0 \in E /\ \A n \in E : n + 1 \in E
    <3> HIDE DEF Rec, c
    <3> QED
      BY <1>5, <1>6, <2>1
  <2>3. E \in SUBSET Nat
    OBVIOUS
  <2>4. \A n \in Nat : n \in E
    <3> HIDE DEF E
    <3> QED
      BY <2>2, <2>3, NatSetInduction
  <2> HIDE DEF c
  <2> QED
    BY <2>4
<1>8. Among(s, K) = c[Len(s)]
    BY DEF Among
<1>9. Range(s) = Leading(Len(s))
    BY DEF Range
<1> QED
    BY <1>4, <1>7, <1>8, <1>9

(* The URLs within n links of a start, along a map of links.                 *)
IsReach(f, start, L) ==
    /\ f = [n \in Nat |-> f[n]]
    /\ f[0] = {start}
    /\ \A n \in Nat : n # 0 =>
          f[n] = f[n - 1] \cup UNION {L[u] : u \in f[n - 1] \cap DOMAIN L}

Reach(start, L) == CHOOSE f : IsReach(f, start, L)

\* They exist for every n: there is a walk of n steps to each of them, of which some
\* go along a link and the others stay.
LEMMA ReachExists ==
    ASSUME NEW start, NEW L
    PROVE  IsReach(Reach(start, L), start, L)
<1> DEFINE U == {start} \cup UNION {L[u] : u \in DOMAIN L}
           Moves(v, w) == w = v \/ (v \in DOMAIN L /\ w \in L[v])
           Walk(p, n) == /\ p \in [0 .. n -> U]
                         /\ p[0] = start
                         /\ \A i \in 1 .. n : Moves(p[i - 1], p[i])
           f == [n \in Nat |-> {x \in U : \E p : Walk(p, n) /\ p[n] = x}]
<1>1. f[0] = {start}
  <2> DEFINE p == [i \in 0 .. 0 |-> start]
  <2>1. Walk(p, 0) /\ p[0] = start
    OBVIOUS
  <2>2. \A q : Walk(q, 0) => q[0] = start
    OBVIOUS
  <2>3. start \in U
    OBVIOUS
  <2> HIDE DEF Walk, U
  <2> QED
    BY <2>1, <2>2, <2>3
<1>2. ASSUME NEW n \in Nat, n # 0, NEW x \in f[n]
      PROVE  x \in f[n - 1] \/ \E u \in f[n - 1] \cap DOMAIN L : x \in L[u]
  <2>1. PICK p : Walk(p, n) /\ p[n] = x
    OBVIOUS
  <2> DEFINE q == [i \in 0 .. n - 1 |-> p[i]]
  <2>2. n - 1 \in Nat /\ n - 1 \in 0 .. n /\ n \in 1 .. n
    BY <1>2
  <2>3. Walk(q, n - 1) /\ q[n - 1] = p[n - 1]
    <3>1. \A i \in 0 .. n - 1 : i \in 0 .. n /\ q[i] = p[i]
      BY <1>2
    <3>2. q \in [0 .. n - 1 -> U]
      <4>1. \A i \in 0 .. n - 1 : p[i] \in U
        BY <2>1, <3>1
      <4> HIDE DEF U
      <4> QED
        BY <4>1
    <3>3. \A i \in 1 .. n - 1 : /\ i \in 1 .. n /\ i \in 0 .. n - 1 /\ i - 1 \in 0 .. n - 1
                                /\ Moves(p[i - 1], p[i])
      <4> HIDE DEF Moves
      <4> QED
        BY <1>2, <2>1
    <3> HIDE DEF q, Moves, U
    <3> QED
      BY <2>1, <2>2, <3>1, <3>2, <3>3
  <2>4. p[n - 1] \in f[n - 1]
    <3>1. p[n - 1] \in U
      BY <2>1, <2>2
    <3> HIDE DEF Walk, U, q
    <3> QED
      BY <2>2, <2>3, <3>1
  <2>5. Moves(p[n - 1], p[n])
    BY <2>1, <2>2
  <2> HIDE DEF f, Walk, U
  <2> QED
    BY <2>1, <2>4, <2>5
<1>3. ASSUME NEW n \in Nat, n # 0, NEW u \in f[n - 1], NEW x, Moves(u, x)
      PROVE  x \in f[n]
  <2>1. n - 1 \in Nat /\ \A i \in 1 .. n : i - 1 \in 0 .. n - 1 /\ i \in 0 .. n
    BY <1>3
  <2>2. PICK p : Walk(p, n - 1) /\ p[n - 1] = u
    BY <2>1
  <2>3. u \in U /\ x \in U
    <3>1. u \in U
      BY <2>1
    <3>2. x = u \/ x \in UNION {L[v] : v \in DOMAIN L}
      BY <1>3
    <3> QED
      BY <3>1, <3>2
  <2> DEFINE q == [i \in 0 .. n |-> IF i = n THEN x ELSE p[i]]
  <2>4. Walk(q, n) /\ q[n] = x
    <3>1. \A i \in 0 .. n - 1 : i \in 0 .. n /\ i # n /\ q[i] = p[i] /\ p[i] \in U
      <4> HIDE DEF U, Moves
      <4> QED
        BY <1>3, <2>2
    <3>2. q[n] = x /\ \A i \in 0 .. n : i = n \/ i \in 0 .. n - 1
      BY <1>3
    <3>3. q \in [0 .. n -> U]
      <4>1. \A i \in 0 .. n : q[i] \in U
        <5> HIDE DEF q, U
        <5> QED
          BY <2>3, <3>1, <3>2
      <4> HIDE DEF U
      <4> QED
        BY <4>1
    <3>4. q[0] = start
      BY <1>3, <2>1, <2>2, <3>1
    <3>5. ASSUME NEW i \in 1 .. n PROVE Moves(q[i - 1], q[i])
      <4>1. CASE i = n
        <5>1. q[n - 1] = u
          BY <1>3, <2>2, <3>1
        <5> HIDE DEF q, Moves, U
        <5> QED
          BY <1>3, <4>1, <5>1, <3>2
      <4>2. CASE i # n
        <5>1. i \in 1 .. n - 1 /\ i \in 0 .. n - 1 /\ i - 1 \in 0 .. n - 1
          BY <4>2
        <5>2. Moves(p[i - 1], p[i])
          <6> HIDE DEF Moves, U
          <6> QED
            BY <2>2, <5>1
        <5> HIDE DEF q, Moves, U
        <5> QED
          BY <3>1, <5>1, <5>2
      <4> QED
        BY <4>1, <4>2
    <3> HIDE DEF q, Moves, U
    <3> QED
      BY <3>2, <3>3, <3>4, <3>5
  <2> HIDE DEF Walk, q, U
  <2> QED
    BY <2>3, <2>4
<1>4. ASSUME NEW n \in Nat, n # 0
      PROVE  f[n] = f[n - 1] \cup UNION {L[u] : u \in f[n - 1] \cap DOMAIN L}
  <2>1. \A x \in f[n] : x \in f[n - 1] \/ \E u \in f[n - 1] \cap DOMAIN L : x \in L[u]
    BY <1>2, <1>4
  <2>2. \A u \in f[n - 1] : \A x : Moves(u, x) => x \in f[n]
    BY <1>3, <1>4
  <2> HIDE DEF f
  <2>3. \A u \in f[n - 1] : u \in f[n]
    BY <2>2
  <2>4. \A u \in f[n - 1] \cap DOMAIN L : L[u] \subseteq f[n]
    BY <2>2
  <2> QED
    BY <2>1, <2>3, <2>4
<1>5. f = [n \in Nat |-> f[n]]
  OBVIOUS
<1> HIDE DEF f
<1>6. IsReach(f, start, L)
  BY <1>1, <1>4, <1>5 DEF IsReach
<1> QED
  BY <1>6 DEF Reach

(* Within is what its definition says.                                       *)
WithinIs ==
    /\ Within[0] = {Home}
    /\ \A n \in Nat :
          Within[n + 1] = Within[n] \cup UNION {Range(LinksOn(u)) \cap site.host :
                                                   u \in Within[n] \cap Range(pages)}

\* The definition defines something.
LEMMA WithinUnfolds == WithinIs
<1> DEFINE L == [u \in Range(pages) |-> Range(LinksOn(u)) \cap site.host]
           G(f, n) == f[n - 1] \cup UNION {Range(LinksOn(u)) \cap site.host :
               u \in f[n - 1] \cap Range(pages)}
           Rec(f) == f = [n \in Nat |-> IF n = 0 THEN {Home} ELSE G(f, n)]
<1> DEFINE f == Reach(Home, L)
<1>1. IsReach(f, Home, L)
  BY ReachExists
<1>2. \A n : UNION {L[u] : u \in f[n - 1] \cap DOMAIN L}
                = UNION {Range(LinksOn(u)) \cap site.host : u \in f[n - 1] \cap Range(pages)}
  OBVIOUS
<1> HIDE DEF f
<1>3. Rec(f)
  <2>1. \A n \in Nat : n # 0 => f[n] = G(f, n)
    BY <1>1, <1>2 DEF IsReach
  <2> HIDE DEF G
  <2> QED
    BY <1>1, <2>1 DEF IsReach
<1>4. Within = CHOOSE g : Rec(g)
  BY DEF Within
<1>5. Rec(Within)
  <2> HIDE DEF Rec
  <2> QED
    BY <1>3, <1>4
<1> HIDE DEF G
<1>6. \A n \in Nat : Within[n] = IF n = 0 THEN {Home} ELSE G(Within, n)
  BY <1>5
<1>7. \A n \in Nat : n + 1 \in Nat /\ n + 1 # 0 /\ (n + 1) - 1 = n
  OBVIOUS
<1> QED
  BY <1>6, <1>7 DEF G, WithinIs

-----------------------------------------------------------------------------
(* The crawl.                                                              *)

BeforeCrawl == {"start", "ports", "front", "deep"}
AfterCrawl  == {"pages", "reflection", "errors", "return", "done"}

(* What the crawl has asked for and got; another agent crawls nothing.       *)
CrawlShape ==
    /\ site \in Sites
    /\ crawled \in Seq(Urls) /\ IsInjective(crawled) /\ visited = Range(crawled)
    /\ pages \in Seq(Urls) /\ IsInjective(pages) /\ Range(pages) \subseteq visited
    /\ Len(pages) <= MaxCrawlPages
    /\ queue \in Seq(Urls)
    /\ agent # "black_box" \/ at \in BeforeCrawl =>
           crawled = <<>> /\ pages = <<>> /\ next = 1 /\ ~lost
    /\ IF agent = "black_box" THEN at \in BeforeCrawl \cup {"crawl", "no_target"} \cup AfterCrawl
       ELSE at \notin {"ports", "front", "deep", "crawl", "pages", "reflection", "errors"}

Known == visited \cup Range(queue)
LinkedFrom(u) == Range(LinksOn(u)) \cap site.host

(* Nothing that is linked from a page is forgotten.                          *)
Closed == Home \in Known /\ \A u \in Range(pages) : LinkedFrom(u) \subseteq Known

(* What waits is at most one link further than what was asked for, and every *)
(* page that was got brought one link more.                                  *)
OneFurther ==
    /\ \A n \in Nat : visited \subseteq Within[n] => Range(queue) \subseteq Within[n + 1]
    /\ Range(queue) \subseteq Within[Len(pages)]

(* What waits and is new is no nearer than what was asked for; what waits in *)
(* front of it is no further.                                                *)
NoNearer ==
    /\ \A n \in Nat : \A u \in Range(queue) \ visited : u \in Within[n] =>
           visited \subseteq Within[n]
    /\ \A n \in Nat : \A k \in DOMAIN queue :
          queue[k] \notin Within[n] =>
              Within[n] \subseteq visited \cup {queue[m] : m \in 1 .. k - 1}

Waiting ==
    /\ crawled = <<>> => queue = <<Home>>
    /\ next = 1 /\ ~lost
    /\ Closed /\ OneFurther /\ NoNearer

(* What was asked for came in order, and is no further than pages were got.  *)
InOrder ==
    /\ \A n \in Nat : \A i, j \in DOMAIN crawled :
          i < j /\ crawled[j] \in Within[n] => crawled[i] \in Within[n]
    /\ visited \subseteq Within[Len(pages)]

Complete == lost \/ Len(pages) = MaxCrawlPages \/ \A n \in Nat : Within[n] \subseteq visited

CrawlInv ==
    /\ CrawlShape /\ InOrder
    /\ at = "crawl" => Waiting
    /\ at \in AfterCrawl /\ crawled # <<>> => Complete

(* What the form of a page shows, and what a probe of it shows or failed to. *)
FormTold(i) == "form" \in site.flaws[pages[i]] => <<"form", pages[i]>> \in findings
ProbeTold(m, i) ==
    pages[i] \in site.query /\ m \in site.flaws[pages[i]] =>
        <<m, pages[i]>> \in findings \cup unanswered
PageTold(i) == FormTold(i) /\ ProbeTold("reflects", i) /\ ProbeTold("sql_error", i)

(* What CrawlIsReported speaks of, before the end.                           *)
ReportInv ==
    agent = "black_box" =>
        /\ at = "start" => "connect" \notin sent
        /\ (at = "return" \/ (at = "done" /\ "connect" \in sent)) /\ site.isUrl =>
              IF authorized THEN crawled # <<>> ELSE <<"skipped", "target">> \in findings
        /\ at \in {"pages", "reflection", "errors"} => crawled # <<>>
        /\ crawled # <<>> => Head(crawled) = Home
        /\ next \in Nat
        /\ at \in {"pages", "reflection", "errors"} => \A i \in DOMAIN pages : i < next =>
               PageTold(i)
        /\ at \in {"reflection", "errors"} /\ next \in DOMAIN pages => FormTold(next)
        /\ at = "errors" /\ next \in DOMAIN pages => ProbeTold("reflects", next)
        /\ at \in {"return", "done"} /\ ~lost => \A i \in DOMAIN pages : PageTold(i)

\* The URLs within n links, here and after the step.
LEMMA WithinTwice == WithinIs /\ WithinIs'
BY WithinUnfolds, PTL DEF WithinIs

\* More links reach no less.
LEMMA WithinGrows ==
    ASSUME NEW m \in Nat, NEW n \in Nat, m <= n
    PROVE  Within[m] \subseteq Within[n]
<1> DEFINE S == {k \in Nat : Within[m] \subseteq Within[m + k]}
<1>1. 0 \in S
  OBVIOUS
<1>2. \A k \in S : k + 1 \in S
  <2>1. ASSUME NEW k \in S PROVE Within[m] \subseteq Within[m + (k + 1)]
    <3>1. m + k \in Nat /\ m + (k + 1) = (m + k) + 1
      OBVIOUS
    <3> QED
      BY <3>1, WithinUnfolds DEF WithinIs
  <2> QED
    BY <2>1
<1>3. S \in SUBSET Nat
  OBVIOUS
<1> HIDE DEF S
<1>4. \A k \in Nat : k \in S
  BY <1>1, <1>2, <1>3, NatSetInduction
<1>5. n - m \in Nat /\ m + (n - m) = n
  OBVIOUS
<1> QED
  BY <1>4, <1>5 DEF S

\* What is within reach is known, if no link of a page is forgotten.
LEMMA ReachIsKnown ==
    ASSUME Closed PROVE \A n \in Nat : Within[n] \subseteq Known
<1> DEFINE S == {n \in Nat : Within[n] \subseteq Known}
<1>1. 0 \in S
  BY WithinUnfolds DEF WithinIs, Closed
<1>2. \A n \in S : n + 1 \in S
  <2>1. ASSUME NEW n \in Nat, Within[n] \subseteq Known PROVE Within[n + 1] \subseteq Known
    BY <2>1, WithinUnfolds DEF WithinIs, Closed, LinkedFrom
  <2> QED
    BY <2>1
<1>3. S \in SUBSET Nat
  OBVIOUS
<1> HIDE DEF S
<1>4. \A n \in Nat : n \in S
  BY <1>1, <1>2, <1>3, NatSetInduction
<1> QED
  BY <1>4 DEF S

\* A page more takes nothing out of reach.
LEMMA WithinKept ==
    ASSUME site' = site, Range(pages) \subseteq Range(pages')
    PROVE  \A n \in Nat : Within[n] \subseteq Within'[n]
<1> DEFINE S == {n \in Nat : Within[n] \subseteq Within'[n]}
<1>1. 0 \in S
  BY WithinTwice DEF WithinIs
<1>2. \A n \in S : n + 1 \in S
  <2>1. ASSUME NEW n \in Nat, Within[n] \subseteq Within'[n] PROVE Within[n + 1] \subseteq Within'[n + 1]
    <3>1. \A v \in Within[n + 1] : v \in Within[n]
              \/ \E u \in Within[n] \cap Range(pages) : v \in LinkedFrom(u)
      BY WithinTwice DEF WithinIs, LinkedFrom
    <3>2. Within'[n] \subseteq Within'[n + 1]
      BY WithinTwice DEF WithinIs
    <3>3. \A u \in Within'[n] \cap Range(pages') : LinkedFrom(u) \subseteq Within'[n + 1]
      BY WithinTwice DEF WithinIs, LinksOn, LinkedFrom
    <3> QED
      BY <2>1, <3>1, <3>2, <3>3
  <2> QED
    BY <2>1
<1>3. S \in SUBSET Nat
  OBVIOUS
<1> HIDE DEF S
<1>4. \A n \in Nat : n \in S
  BY <1>1, <1>2, <1>3, NatSetInduction
<1> QED
  BY <1>4 DEF S

\* It brings what it links to one link further, if what was got before is as near
\* wherever it is.
LEMMA WithinExtended ==
    ASSUME NEW url, site' = site, Range(pages') = Range(pages) \cup {url},
           \A n \in Nat : url \in Within[n] => Range(pages) \subseteq Within[n]
    PROVE  \A n \in Nat : \A u \in Within'[n] :
              u \in Within[n] \/ (n > 0 /\ url \in Within[n - 1] /\ u \in LinkedFrom(url))
<1> DEFINE Beyond(n) == {u \in LinkedFrom(url) : n > 0 /\ url \in Within[n - 1]}
           S == {n \in Nat : Within'[n] \subseteq Within[n] \cup Beyond(n)}
<1>1. 0 \in S
  BY WithinTwice DEF WithinIs
<1>2. \A n \in S : n + 1 \in S
  <2> SUFFICES ASSUME NEW n \in Nat, Within'[n] \subseteq Within[n] \cup Beyond(n),
                          NEW v \in Within'[n + 1]
               PROVE  v \in Within[n + 1] \cup Beyond(n + 1)
    OBVIOUS
  <2>1. Within[n] \subseteq Within[n + 1]
    BY WithinUnfolds DEF WithinIs
  <2>2. n > 0 /\ url \in Within[n - 1] => url \in Within[n] /\ Range(pages) \subseteq Within[n]
    <3> SUFFICES ASSUME n > 0, url \in Within[n - 1] PROVE url \in Within[n]
                            /\ Range(pages) \subseteq Within[n]
      OBVIOUS
    <3>1. n - 1 \in Nat /\ n - 1 <= n
      OBVIOUS
    <3>2. Within[n - 1] \subseteq Within[n]
      BY <3>1, WithinGrows
    <3> QED
      BY <3>1, <3>2
  <2>3. v \in Within'[n] \/ \E u \in Within'[n] \cap Range(pages') : v \in LinkedFrom(u)
    BY WithinTwice DEF WithinIs, LinksOn, LinkedFrom
  <2>4. \A u \in Within[n] \cap Range(pages) : LinkedFrom(u) \subseteq Within[n + 1]
    BY WithinUnfolds DEF WithinIs, LinkedFrom
  <2>5. url \in Within[n] => LinkedFrom(url) \subseteq Beyond(n + 1)
    <3>1. n + 1 > 0 /\ (n + 1) - 1 = n
      OBVIOUS
    <3> QED
      BY <3>1
  <2>6. CASE v \in Within'[n]
    BY <2>1, <2>2, <2>5, <2>6
  <2>7. CASE \E u \in Within'[n] \cap Range(pages') : v \in LinkedFrom(u)
    BY <2>2, <2>4, <2>5, <2>7
  <2> QED
    BY <2>3, <2>6, <2>7
<1>3. S \in SUBSET Nat
  OBVIOUS
<1> HIDE DEF S
<1>4. \A n \in Nat : n \in S
  BY <1>1, <1>2, <1>3, NatSetInduction
<1> QED
  BY <1>4 DEF S

\* What Head and Tail leave of a sequence.
LEMMA HeadAndTail ==
    ASSUME NEW V, NEW q \in Seq(V), q # <<>>
    PROVE  /\ Head(q) = q[1] /\ 1 \in DOMAIN q /\ Head(q) \in V
           /\ Tail(q) \in Seq(V) /\ Len(Tail(q)) = Len(q) - 1
           /\ \A k \in DOMAIN Tail(q) : k + 1 \in DOMAIN q /\ Tail(q)[k] = q[k + 1]
           /\ Range(q) = {Head(q)} \cup Range(Tail(q))
<1>1. /\ Head(q) = q[1] /\ 1 \in DOMAIN q /\ Head(q) \in V
      /\ Tail(q) \in Seq(V) /\ Len(Tail(q)) = Len(q) - 1
  OBVIOUS
<1>2. \A k \in DOMAIN Tail(q) : k + 1 \in DOMAIN q /\ Tail(q)[k] = q[k + 1]
  OBVIOUS
<1>3. \A k \in DOMAIN q : k = 1 \/ (k - 1 \in DOMAIN Tail(q) /\ q[k] = Tail(q)[k - 1])
  BY <1>1
<1>4. Range(q) \subseteq {Head(q)} \cup Range(Tail(q))
  <2>1. \A k \in DOMAIN Tail(q) : Tail(q)[k] \in Range(Tail(q))
    BY DEF Range
  <2>2. \A k \in DOMAIN q : q[k] \in {Head(q)} \cup Range(Tail(q))
    BY <1>1, <1>3, <2>1
  <2> QED
    BY <2>2 DEF Range
<1>5. Range(Tail(q)) \subseteq Range(q) /\ Head(q) \in Range(q)
  BY <1>1, <1>2 DEF Range
<1> QED
  BY <1>1, <1>2, <1>4, <1>5

\* What Append adds to a sequence.
LEMMA AppendAdds ==
    ASSUME NEW V, NEW q \in Seq(V), NEW x \in V
    PROVE  /\ Append(q, x) \in Seq(V) /\ Len(Append(q, x)) = Len(q) + 1
           /\ DOMAIN Append(q, x) = DOMAIN q \cup {Len(q) + 1}
           /\ \A i \in DOMAIN q : i < Len(q) + 1 /\ Append(q, x)[i] = q[i]
           /\ Append(q, x)[Len(q) + 1] = x
           /\ Range(Append(q, x)) = Range(q) \cup {x}
           /\ IsInjective(q) /\ x \notin Range(q) => IsInjective(Append(q, x))
<1>1. /\ Append(q, x) \in Seq(V) /\ Len(Append(q, x)) = Len(q) + 1
      /\ DOMAIN Append(q, x) = DOMAIN q \cup {Len(q) + 1}
      /\ Append(q, x)[Len(q) + 1] = x
  OBVIOUS
<1>2. \A i \in DOMAIN q : i < Len(q) + 1 /\ Append(q, x)[i] = q[i]
  OBVIOUS
<1>3. Range(Append(q, x)) = Range(q) \cup {x}
  BY <1>1, <1>2 DEF Range
<1>4. IsInjective(q) /\ x \notin Range(q) => IsInjective(Append(q, x))
  BY <1>1, <1>2 DEF Range, IsInjective
<1> QED
  BY <1>1, <1>2, <1>3, <1>4

\* What one sequence behind another has.
LEMMA ConcatHas ==
    ASSUME NEW V, NEW q \in Seq(V), NEW r \in Seq(V)
    PROVE  /\ q \o r \in Seq(V)
           /\ \A k \in DOMAIN q : k \in DOMAIN (q \o r) /\ (q \o r)[k] = q[k]
           /\ \A k \in DOMAIN (q \o r) :
                 k \in DOMAIN q \/ (k > Len(q) /\ (q \o r)[k] \in Range(r))
           /\ Range(q \o r) = Range(q) \cup Range(r)
<1>1. q \o r \in Seq(V) /\ DOMAIN (q \o r) = 1 .. Len(q) + Len(r)
  OBVIOUS
<1>2. \A k \in DOMAIN q : k \in DOMAIN (q \o r) /\ (q \o r)[k] = q[k]
  OBVIOUS
<1>3. \A k \in DOMAIN (q \o r) :
         k \in DOMAIN q \/ (k > Len(q) /\ k - Len(q) \in DOMAIN r /\ (q \o r)[k] = r[k - Len(q)])
  OBVIOUS
<1>4. \A k \in DOMAIN r : k + Len(q) \in DOMAIN (q \o r) /\ (q \o r)[k + Len(q)] = r[k]
  OBVIOUS
<1>5. \A k \in DOMAIN (q \o r) : k \in DOMAIN q \/ (k > Len(q) /\ (q \o r)[k] \in Range(r))
  BY <1>3 DEF Range
<1>6. Range(q \o r) \subseteq Range(q) \cup Range(r)
  BY <1>2, <1>5 DEF Range
<1>7. Range(q) \subseteq Range(q \o r) /\ Range(r) \subseteq Range(q \o r)
  BY <1>2, <1>4 DEF Range
<1> QED
  BY <1>1, <1>2, <1>5, <1>6, <1>7

\* The next URL is no nearer than those before it; what waits behind it is no nearer
\* than it, and one link further at most.
LEMMA TakeNext ==
    ASSUME CrawlInv, at = "crawl", Take
    PROVE  /\ Head(queue) \in Urls /\ Head(queue) \in Range(queue) /\ Head(queue) \notin visited
           /\ crawled' \in Seq(Urls) /\ IsInjective(crawled') /\ crawled' # <<>>
           /\ visited' = Range(crawled')
           /\ \A i, j \in DOMAIN crawled' : i < j =>
                 /\ i \in DOMAIN crawled /\ crawled'[i] = crawled[i] /\ crawled[i] \in visited
                 /\ (j \in DOMAIN crawled /\ crawled'[j] = crawled[j]) \/ crawled'[j] = Head(queue)
           /\ \A n \in Nat : Head(queue) \in Within[n] =>
                 visited \subseteq Within[n] /\ Range(queue) \subseteq Within[n + 1]
           /\ \A n \in Nat : \A u \in Range(queue) \ visited : u \in Within[n] =>
                  Head(queue) \in Within[n]
<1>1. /\ queue # <<>> /\ Head(queue) \notin visited
      /\ visited' = visited \cup {Head(queue)} /\ crawled' = Append(crawled, Head(queue))
  BY DEF Take, Crawling
<1>2. /\ queue \in Seq(Urls) /\ crawled \in Seq(Urls) /\ IsInjective(crawled)
      /\ visited = Range(crawled)
  BY DEF CrawlInv, CrawlShape
<1>3. /\ Head(queue) = queue[1] /\ 1 \in DOMAIN queue /\ Head(queue) \in Urls
      /\ Head(queue) \in Range(queue)
  BY <1>1, <1>2, HeadAndTail
<1>4. /\ crawled' \in Seq(Urls) /\ IsInjective(crawled') /\ crawled' # <<>>
      /\ visited' = Range(crawled')
  BY <1>1, <1>2, <1>3, AppendAdds
<1>5. \A i, j \in DOMAIN crawled' : i < j =>
         /\ i \in DOMAIN crawled /\ crawled'[i] = crawled[i] /\ crawled[i] \in visited
         /\ (j \in DOMAIN crawled /\ crawled'[j] = crawled[j]) \/ crawled'[j] = Head(queue)
  <2>1. /\ DOMAIN crawled' = DOMAIN crawled \cup {Len(crawled) + 1}
        /\ \A i \in DOMAIN crawled : i < Len(crawled) + 1 /\ crawled'[i] = crawled[i]
        /\ crawled'[Len(crawled) + 1] = Head(queue)
    BY <1>1, <1>2, <1>3, AppendAdds
  <2>2. \A i \in DOMAIN crawled : crawled[i] \in visited
    BY <1>2 DEF Range
  <2>3. \A i \in DOMAIN crawled : i \in Nat
    BY <1>2
  <2>4. Len(crawled) \in Nat
    BY <1>2
  <2> QED
    BY <2>1, <2>2, <2>3, <2>4
<1>6. Waiting
  BY DEF CrawlInv
<1>7. \A n \in Nat : Head(queue) \in Within[n] =>
         visited \subseteq Within[n] /\ Range(queue) \subseteq Within[n + 1]
  BY <1>1, <1>3, <1>6 DEF Waiting, OneFurther, NoNearer
<1>8. \A n \in Nat : Head(queue) \notin Within[n] => Within[n] \subseteq visited
  <2>1. \A n \in Nat : queue[1] \notin Within[n] =>
            Within[n] \subseteq visited \cup {queue[m] : m \in 1 .. 1 - 1}
    BY <1>3, <1>6 DEF Waiting, NoNearer
  <2> QED
    BY <1>3, <2>1
<1> QED
  BY <1>1, <1>3, <1>4, <1>5, <1>7, <1>8

\* A page whose links join the queue.
LEMMA FetchPageCrawl ==
    ASSUME CrawlInv, FetchPage PROVE CrawlInv'
<1> DEFINE url == Head(queue)
           rest == Tail(queue)
           new == Among(LinksOn(url), site.host \ visited')
<1>1. /\ at = "crawl" /\ at' = "crawl" /\ Take
      /\ pages' = Append(pages, url) /\ queue' = rest \o new
      /\ UNCHANGED <<agent, site, next, lost>>
  BY DEF FetchPage, Continue
<1>2. /\ queue # <<>> /\ Len(pages) < MaxCrawlPages /\ url \notin visited
      /\ visited' = visited \cup {url}
  BY <1>1 DEF Take, Crawling
<1>3. /\ site \in Sites /\ pages \in Seq(Urls) /\ IsInjective(pages)
      /\ Range(pages) \subseteq visited
      /\ queue \in Seq(Urls) /\ Waiting
      /\ crawled \in Seq(Urls) /\ visited = Range(crawled) /\ agent = "black_box"
  BY <1>1 DEF CrawlInv, CrawlShape
<1>4. /\ url \in Urls /\ url \in Range(queue)
      /\ crawled' \in Seq(Urls) /\ IsInjective(crawled') /\ crawled' # <<>>
      /\ visited' = Range(crawled')
      /\ \A i, j \in DOMAIN crawled' : i < j =>
            /\ i \in DOMAIN crawled /\ crawled'[i] = crawled[i] /\ crawled[i] \in visited
            /\ (j \in DOMAIN crawled /\ crawled'[j] = crawled[j]) \/ crawled'[j] = url
  BY <1>1, TakeNext
<1>5. /\ \A n \in Nat : url \in Within[n] =>
             visited \subseteq Within[n] /\ Range(queue) \subseteq Within[n + 1]
      /\ \A n \in Nat : \A u \in Range(queue) \ visited : u \in Within[n] => url \in Within[n]
  BY <1>1, TakeNext
<1>6. /\ rest \in Seq(Urls) /\ Len(rest) = Len(queue) - 1
      /\ \A k \in DOMAIN rest : k + 1 \in DOMAIN queue /\ rest[k] = queue[k + 1]
      /\ Range(queue) = {url} \cup Range(rest) /\ url = queue[1]
  BY <1>2, <1>3, HeadAndTail
<1>7. new \in Seq(Urls) /\ Range(new) = LinkedFrom(url) \ visited'
  <2> DEFINE V == Urls \cup {"malformed"}
  <2>1. LinksOn(url) \in Seq(V) /\ site.host \subseteq Urls
    BY <1>3, <1>4, SitesAssumption DEF LinksOn
  <2>2. new \in Seq(V) /\ Range(new) = Range(LinksOn(url)) \cap (site.host \ visited')
    <3> HIDE DEF V
    <3> QED
      BY <2>1, AmongKeeps
  <2>3. \A i \in DOMAIN new : new[i] \in Urls
    <3> HIDE DEF new
    <3> QED
      BY <2>1, <2>2 DEF Range
  <2> HIDE DEF new
  <2>4. new \in Seq(Urls)
    BY <2>2, <2>3
  <2> QED
    BY <2>2, <2>4 DEF LinkedFrom
<1> HIDE DEF url, rest, new
<1>8. /\ queue' \in Seq(Urls) /\ Range(queue') = Range(rest) \cup Range(new)
      /\ \A k \in DOMAIN rest : k \in DOMAIN queue' /\ queue'[k] = rest[k]
      /\ \A k \in DOMAIN queue' : k \in DOMAIN rest \/ (k > Len(rest) /\ queue'[k] \in Range(new))
  BY <1>1, <1>6, <1>7, ConcatHas
<1>9. /\ pages' \in Seq(Urls) /\ IsInjective(pages') /\ Len(pages') = Len(pages) + 1
      /\ Range(pages') = Range(pages) \cup {url}
  <2>1. url \notin Range(pages)
    BY <1>2, <1>3
  <2> QED
    BY <1>1, <1>3, <1>4, <2>1, AppendAdds
\* What is within reach with the page.
<1>10. \A n \in Nat : Within[n] \subseteq Within'[n]
  BY <1>1, <1>9, WithinKept
<1>11. \A n \in Nat : \A u \in Within'[n] :
          u \in Within[n] \/ (n > 0 /\ url \in Within[n - 1] /\ u \in LinkedFrom(url))
  <2>1. \A n \in Nat : url \in Within[n] => Range(pages) \subseteq Within[n]
    BY <1>3, <1>5
  <2> QED
    BY <1>1, <1>9, <2>1, WithinExtended
<1>12. \A n \in Nat : Within[n] \subseteq visited \cup Range(queue)
  BY <1>3, ReachIsKnown DEF Waiting, Known
<1>13. \A n \in Nat : n > 0 => n - 1 \in Nat /\ (n - 1) + 1 = n /\ Within[n - 1] \subseteq Within[n]
  <2>1. \A n \in Nat : n > 0 => n - 1 \in Nat /\ (n - 1) + 1 = n /\ n - 1 <= n
    OBVIOUS
  <2> QED
    BY <2>1, WithinGrows
<1>14. \A n \in Nat : url \in Within'[n] => url \in Within[n]
  BY <1>11, <1>13
<1>15. \A n \in Nat : url \in Within[n] => LinkedFrom(url) \subseteq Within'[n + 1]
  <2> SUFFICES ASSUME NEW n \in Nat, url \in Within[n] PROVE LinkedFrom(url) \subseteq Within'[n + 1]
    OBVIOUS
  <2>1. url \in Within'[n] \cap Range(pages')
    BY <1>9, <1>10
  <2>2. LinkedFrom(url) \subseteq UNION {Range(LinksOn(u))' \cap site'.host :
            u \in Within'[n] \cap Range(pages')}
    BY <1>1, <2>1 DEF LinkedFrom, LinksOn
  <2> QED
    BY <2>2, WithinTwice DEF WithinIs
\* The parts of the invariant.
<1>20. CrawlShape'
  <2>1. Len(pages') <= MaxCrawlPages /\ Range(pages') \subseteq visited'
    BY <1>2, <1>3, <1>9, CrawlAssumption
  <2> QED
    BY <1>1, <1>2, <1>3, <1>4, <1>8, <1>9, <2>1 DEF CrawlShape, BeforeCrawl, AfterCrawl
<1>21. InOrder'
  <2>1. ASSUME NEW n \in Nat, NEW i \in DOMAIN crawled', NEW j \in DOMAIN crawled', i < j,
                   crawled'[j] \in Within'[n]
        PROVE  crawled'[i] \in Within'[n]
    <3>1. i \in DOMAIN crawled /\ crawled'[i] = crawled[i] /\ crawled[i] \in visited
      BY <1>4, <2>1
    <3>2. CASE n > 0 /\ url \in Within[n - 1]
      BY <1>5, <1>10, <1>13, <3>1, <3>2
    <3>3. CASE crawled'[j] \in Within[n] /\ crawled'[j] = url
      BY <1>5, <1>10, <3>1, <3>3
    <3>4. CASE crawled'[j] \in Within[n] /\ j \in DOMAIN crawled /\ crawled'[j] = crawled[j]
      BY <1>10, <2>1, <3>1, <3>4 DEF CrawlInv, InOrder
    <3> QED
      BY <1>4, <1>11, <2>1, <3>2, <3>3, <3>4
  <2>2. visited' \subseteq Within'[Len(pages')]
    <3>1. Len(pages) \in Nat /\ Len(pages) + 1 \in Nat /\ Len(pages) <= Len(pages) + 1
      BY <1>3
    <3>2. Within[Len(pages)] \subseteq Within[Len(pages) + 1]
      BY <3>1, WithinGrows
    <3>3. visited \cup Range(queue) \subseteq Within[Len(pages)]
      BY <1>3 DEF CrawlInv, InOrder, Waiting, OneFurther
    <3> QED
      BY <1>2, <1>4, <1>9, <1>10, <3>1, <3>2, <3>3
  <2> QED
    BY <2>1, <2>2 DEF InOrder
<1>22. Closed'
  <2>1. Known \subseteq Known'
    BY <1>2, <1>6, <1>8 DEF Known
  <2>2. \A u : LinkedFrom(u)' = LinkedFrom(u)
    BY <1>1 DEF LinkedFrom, LinksOn
  <2>3. LinkedFrom(url) \subseteq Known'
    BY <1>7, <1>8 DEF Known
  <2>4. Home \in Known /\ \A u \in Range(pages) : LinkedFrom(u) \subseteq Known
    BY <1>3 DEF Waiting, Closed
  <2>5. \A u \in Range(pages') : LinkedFrom(u) \subseteq Known'
    BY <1>9, <2>1, <2>3, <2>4
  <2>6. \A u \in Range(pages') : LinkedFrom(u)' \subseteq Known'
    BY <2>2, <2>5
  <2> QED
    BY <2>1, <2>4, <2>6 DEF Closed
<1>23. OneFurther'
  <2>1. ASSUME NEW n \in Nat, visited' \subseteq Within'[n] PROVE Range(queue') \subseteq Within'[n + 1]
    <3>1. url \in Within[n] /\ n + 1 \in Nat
      BY <1>2, <1>14, <2>1
    <3>2. Range(rest) \subseteq Within'[n + 1]
      BY <1>5, <1>6, <1>10, <3>1
    <3> QED
      BY <1>7, <1>8, <1>15, <3>1, <3>2
  <2>2. Range(queue') \subseteq Within'[Len(pages')]
    <3>1. Len(pages) \in Nat /\ Len(pages) + 1 \in Nat /\ Len(pages) <= Len(pages) + 1
      BY <1>3
    <3>2. Within[Len(pages)] \subseteq Within[Len(pages) + 1]
      BY <3>1, WithinGrows
    <3>3. Range(queue) \subseteq Within[Len(pages)]
      BY <1>3 DEF Waiting, OneFurther
    <3> QED
      BY <1>4, <1>6, <1>7, <1>8, <1>9, <1>10, <1>15, <3>1, <3>2, <3>3
  <2> QED
    BY <2>1, <2>2 DEF OneFurther
<1>24. NoNearer'
  <2>1. ASSUME NEW n \in Nat, NEW u \in Range(queue') \ visited', u \in Within'[n]
        PROVE  visited' \subseteq Within'[n]
    <3>1. CASE n > 0 /\ url \in Within[n - 1]
      BY <1>2, <1>5, <1>10, <1>13, <3>1
    <3>2. CASE u \in Within[n]
      <4>1. u \in Range(queue) \ visited
        BY <1>2, <1>12, <2>1, <3>2
      <4> QED
        BY <1>2, <1>5, <1>10, <3>2, <4>1
    <3> QED
      BY <1>11, <2>1, <3>1, <3>2
  <2>2. ASSUME NEW n \in Nat, NEW k \in DOMAIN queue', queue'[k] \notin Within'[n]
        PROVE  Within'[n] \subseteq visited' \cup {queue'[m] : m \in 1 .. k - 1}
    <3>1. k \in Nat /\ k >= 1 /\ DOMAIN rest = 1 .. Len(rest) /\ Len(rest) \in Nat
      BY <1>6, <1>8
    <3>2. \A m \in DOMAIN rest : m < k =>
              queue'[m] = rest[m] /\ rest[m] \in {queue'[l] : l \in 1 .. k - 1}
      <4>1. \A m \in DOMAIN rest : m < k => m \in 1 .. k - 1
        BY <3>1
      <4> QED
        BY <1>8, <4>1
    <3>3. CASE k \in DOMAIN rest
      <4>1. k + 1 \in DOMAIN queue /\ queue'[k] = queue[k + 1] /\ queue[k + 1] \notin Within[n]
        BY <1>6, <1>8, <1>10, <2>2, <3>3
      <4>2. Within[n] \subseteq visited \cup {queue[m] : m \in 1 .. (k + 1) - 1}
        BY <1>3, <4>1 DEF Waiting, NoNearer
      <4>3. \A m \in 1 .. (k + 1) - 1 : m = 1
                \/ (m - 1 \in DOMAIN rest /\ m - 1 < k /\ queue[m] = rest[m - 1])
        BY <1>6, <3>1, <3>3
      <4>4. \A m \in 1 .. (k + 1) - 1 : queue[m] \in visited' \cup {queue'[l] : l \in 1 .. k - 1}
        BY <1>2, <1>6, <3>2, <4>3
      <4>5. ~(n > 0 /\ url \in Within[n - 1])
        <5>1. queue[k + 1] \in Range(queue)
          BY <4>1 DEF Range
        <5> QED
          BY <1>5, <1>13, <4>1, <5>1
      <4> QED
        BY <1>2, <1>11, <4>2, <4>4, <4>5
    <3>4. CASE k > Len(rest) /\ queue'[k] \in Range(new)
      <4>1. ~(n > 0 /\ url \in Within[n - 1])
        BY <1>7, <1>13, <1>15, <2>2, <3>4
      <4>2. Range(rest) \subseteq {queue'[l] : l \in 1 .. k - 1}
        <5>1. \A m \in DOMAIN rest : m < k
          BY <3>1, <3>4
        <5> QED
          BY <3>2, <5>1 DEF Range
      <4> QED
        BY <1>2, <1>6, <1>11, <1>12, <4>1, <4>2
    <3> QED
      BY <1>8, <3>3, <3>4
  <2> QED
    BY <2>1, <2>2 DEF NoNearer
<1> QED
  BY <1>1, <1>3, <1>4, <1>20, <1>21, <1>22, <1>23, <1>24 DEF CrawlInv, Waiting, AfterCrawl

\* Reach depends on the site and the pages only.
LEMMA WithinStays ==
    ASSUME UNCHANGED <<site, pages>> PROVE Within' = Within
BY DEF Within, LinksOn

\* A step that asks for nothing keeps the order; it may end the crawl when nothing is
\* left to ask for.
LEMMA CrawlAside ==
    ASSUME CrawlInv, UNCHANGED <<agent, site, visited, pages, crawled, lost>>, CrawlShape',
           at' = "crawl" => Waiting',
           at' \in AfterCrawl /\ crawled # <<>> => Complete
    PROVE  CrawlInv'
<1>1. Within' = Within
  BY WithinStays
<1> QED
  BY <1>1 DEF CrawlInv, InOrder, Complete

\* At first nothing was asked for.
LEMMA CrawlInit == Init => CrawlInv
<1> SUFFICES ASSUME Init PROVE CrawlInv
  OBVIOUS
<1>1. /\ site \in Sites /\ queue = <<>> /\ visited = {} /\ pages = <<>> /\ crawled = <<>>
      /\ next = 1 /\ lost = FALSE /\ at = "start"
  BY DEF Init, InitRun, InitWeb
<1>2. CrawlShape
  BY <1>1, CrawlAssumption DEF CrawlShape, BeforeCrawl, IsInjective, Range
<1>3. InOrder
  BY <1>1 DEF InOrder
<1> QED
  BY <1>1, <1>2, <1>3 DEF CrawlInv, AfterCrawl

\* The crawl starts with the target alone.
LEMMA DeepAssessmentCrawl ==
    ASSUME CrawlInv, DeepAssessment PROVE CrawlInv'
<1>1. /\ at = "deep" /\ at' \in {"crawl", "return"}
      /\ queue' \in {queue, <<Home>>} /\ (at' = "crawl" => queue' = <<Home>>)
      /\ UNCHANGED <<agent, site, visited, pages, crawled, next, lost>>
  BY DEF DeepAssessment, Continue, web, crawl
<1>2. /\ crawled = <<>> /\ pages = <<>> /\ next = 1 /\ ~lost /\ visited = {} /\ agent = "black_box"
  BY <1>1 DEF CrawlInv, CrawlShape, BeforeCrawl, Range
<1>3. CrawlShape'
  <2>1. <<Home>> \in Seq(Urls) /\ queue \in Seq(Urls) /\ queue' \in {queue, <<Home>>}
    BY <1>1, CrawlAssumption DEF CrawlInv, CrawlShape
  <2> QED
    BY <1>1, <1>2, <2>1 DEF CrawlInv, CrawlShape, BeforeCrawl, AfterCrawl
<1>4. ASSUME at' = "crawl" PROVE Waiting'
  <2>1. queue' = <<Home>> /\ Range(queue') = {Home} /\ DOMAIN queue' = {1} /\ queue'[1] = Home
    BY <1>1, <1>4 DEF Range
  <2>2. /\ pages' = <<>> /\ Len(pages') = 0 /\ visited' = {} /\ crawled' = <<>> /\ next' = 1
        /\ ~lost'
        /\ Range(pages') = {}
    BY <1>1, <1>2 DEF Range
  <2>3. WithinIs'
    BY WithinTwice
  <2>4. Closed'
    BY <2>1, <2>2 DEF Closed, Known
  <2>5. \A n \in Nat : Within'[n] = {Home}
    <3> DEFINE S == {n \in Nat : Within'[n] = {Home}}
    <3>1. 0 \in S
      BY <2>3 DEF WithinIs
    <3>2. \A n \in S : n + 1 \in S
      <4> SUFFICES ASSUME NEW n \in Nat, Within'[n] = {Home}
                   PROVE  Within'[n + 1] = {Home}
        OBVIOUS
      <4>1. Within'[n] \cap Range(pages') = {}
        BY <2>2
      <4>2. Within'[n + 1] = Within'[n] \cup
                UNION {Range(LinksOn(u))' \cap site'.host : u \in Within'[n] \cap Range(pages')}
        BY <2>3 DEF WithinIs
      <4>3. {Range(LinksOn(u))' \cap site'.host : u \in Within'[n] \cap Range(pages')} = {}
        BY <4>1
      <4> QED
        BY <4>2, <4>3
    <3>3. S \in SUBSET Nat
      OBVIOUS
    <3> HIDE DEF S
    <3>4. \A n \in Nat : n \in S
      BY <3>1, <3>2, <3>3, NatSetInduction
    <3> QED
      BY <3>4 DEF S
  <2>6. OneFurther' /\ NoNearer'
    BY <2>1, <2>2, <2>5 DEF OneFurther, NoNearer
  <2> QED
    BY <2>1, <2>2, <2>4, <2>6 DEF Waiting
<1> QED
  BY <1>1, <1>2, <1>3, <1>4, CrawlAside

\* A URL that waits twice.
LEMMA SkipVisitedCrawl ==
    ASSUME CrawlInv, SkipVisited PROVE CrawlInv'
<1>1. /\ at = "crawl" /\ at' = "crawl" /\ queue # <<>> /\ Head(queue) \in visited
      /\ queue' = Tail(queue)
      /\ UNCHANGED <<agent, site, visited, pages, crawled, next, lost>>
  BY DEF SkipVisited, Crawling, Continue
<1>2. /\ queue \in Seq(Urls) /\ visited = Range(crawled) /\ Waiting
  BY <1>1 DEF CrawlInv, CrawlShape
<1>3. /\ queue' \in Seq(Urls) /\ Len(queue') = Len(queue) - 1
      /\ \A k \in DOMAIN queue' : k + 1 \in DOMAIN queue /\ queue'[k] = queue[k + 1]
      /\ Range(queue) = {Head(queue)} \cup Range(queue') /\ Head(queue) = queue[1]
  BY <1>1, <1>2, HeadAndTail
<1>4. Within' = Within
  BY <1>1, WithinStays
<1>5. CrawlShape'
  BY <1>1, <1>3 DEF CrawlInv, CrawlShape
<1>6. crawled # <<>>
  BY <1>1, <1>2 DEF Range
<1>7. Closed'
  <2>1. Known' = Known /\ \A u : LinkedFrom(u)' = LinkedFrom(u)
    BY <1>1, <1>3 DEF Known, LinkedFrom, LinksOn
  <2> QED
    BY <1>1, <1>2, <2>1 DEF Waiting, Closed
<1>8. OneFurther'
  BY <1>1, <1>2, <1>3, <1>4 DEF Waiting, OneFurther
<1>9. NoNearer'
  <2>1. \A n \in Nat : \A u \in Range(queue') \ visited' : u \in Within'[n] =>
            visited' \subseteq Within'[n]
    BY <1>1, <1>2, <1>3, <1>4 DEF Waiting, NoNearer
  <2>2. ASSUME NEW n \in Nat, NEW k \in DOMAIN queue', queue'[k] \notin Within'[n]
        PROVE  Within'[n] \subseteq visited' \cup {queue'[m] : m \in 1 .. k - 1}
    <3>1. k \in Nat /\ k >= 1 /\ DOMAIN queue' = 1 .. Len(queue') /\ Len(queue') \in Nat
              /\ k <= Len(queue')
      BY <1>3
    <3>2. Within[n] \subseteq visited \cup {queue[m] : m \in 1 .. (k + 1) - 1}
      BY <1>2, <1>3, <1>4, <2>2 DEF Waiting, NoNearer
    <3>3. \A m \in 1 .. (k + 1) - 1 : m = 1
              \/ (m - 1 \in DOMAIN queue' /\ m - 1 \in 1 .. k - 1 /\ (m - 1) + 1 = m)
      BY <3>1
    <3>4. \A m \in 1 .. (k + 1) - 1 : queue[m] \in visited \cup {queue'[l] : l \in 1 .. k - 1}
      BY <1>1, <1>3, <3>3
    <3> QED
      BY <1>1, <1>4, <3>2, <3>4
  <2> QED
    BY <2>1, <2>2 DEF NoNearer
<1> QED
  BY <1>1, <1>2, <1>5, <1>6, <1>7, <1>8, <1>9, CrawlAside DEF Waiting, AfterCrawl

\* What Take does to the order, when no page is got.
LEMMA TakeInOrder ==
    ASSUME CrawlInv, at = "crawl", Take, UNCHANGED <<site, pages>>
    PROVE  InOrder'
<1>1. Within' = Within
  BY WithinStays
<1>2. \A i, j \in DOMAIN crawled' : i < j =>
            /\ i \in DOMAIN crawled /\ crawled'[i] = crawled[i] /\ crawled[i] \in visited
            /\ (j \in DOMAIN crawled /\ crawled'[j] = crawled[j]) \/ crawled'[j] = Head(queue)
  BY TakeNext
<1>3. \A n \in Nat : Head(queue) \in Within[n] => visited \subseteq Within[n]
  BY TakeNext
<1>4. ASSUME NEW n \in Nat, NEW i \in DOMAIN crawled', NEW j \in DOMAIN crawled', i < j,
                 crawled'[j] \in Within[n]
      PROVE  crawled'[i] \in Within[n]
  <2>1. CASE crawled'[j] = Head(queue)
    BY <1>2, <1>3, <1>4, <2>1
  <2>2. CASE j \in DOMAIN crawled /\ crawled'[j] = crawled[j]
    BY <1>2, <1>4, <2>2 DEF CrawlInv, InOrder
  <2> QED
    BY <1>2, <1>4, <2>1, <2>2
<1>5. visited' \subseteq Within[Len(pages)]
  <2>1. Range(queue) \subseteq Within[Len(pages)] /\ visited \subseteq Within[Len(pages)]
    BY DEF CrawlInv, InOrder, Waiting, OneFurther
  <2>2. Head(queue) \in Range(queue) /\ visited' = visited \cup {Head(queue)}
    BY TakeNext DEF Take
  <2> QED
    BY <2>1, <2>2
<1> QED
  BY <1>1, <1>4, <1>5 DEF InOrder

\* A page that cannot be got.
LEMMA FetchFailsCrawl ==
    ASSUME CrawlInv, FetchFails PROVE CrawlInv'
<1>1. /\ at = "crawl" /\ at' = "crawl" /\ Take /\ queue' = Tail(queue)
      /\ UNCHANGED <<agent, site, pages, next, lost>>
  BY DEF FetchFails, Continue
<1>2. /\ queue # <<>> /\ Head(queue) \notin visited /\ visited' = visited \cup {Head(queue)}
  BY <1>1 DEF Take, Crawling
<1>3. /\ queue \in Seq(Urls) /\ Waiting /\ agent = "black_box"
  BY <1>1 DEF CrawlInv, CrawlShape
<1>4. /\ crawled' \in Seq(Urls) /\ IsInjective(crawled') /\ crawled' # <<>>
      /\ visited' = Range(crawled')
      /\ \A n \in Nat : Head(queue) \in Within[n] =>
            visited \subseteq Within[n] /\ Range(queue) \subseteq Within[n + 1]
      /\ \A n \in Nat : \A u \in Range(queue) \ visited : u \in Within[n] =>
             Head(queue) \in Within[n]
  BY <1>1, TakeNext
<1>5. /\ queue' \in Seq(Urls) /\ Len(queue') = Len(queue) - 1
      /\ \A k \in DOMAIN queue' : k + 1 \in DOMAIN queue /\ queue'[k] = queue[k + 1]
      /\ Range(queue) = {Head(queue)} \cup Range(queue') /\ Head(queue) = queue[1]
  BY <1>1, <1>2, <1>3, HeadAndTail
<1>6. Within' = Within
  BY <1>1, WithinStays
<1>7. CrawlShape'
  BY <1>1, <1>2, <1>3, <1>4, <1>5 DEF CrawlInv, CrawlShape, BeforeCrawl
<1>8. Closed'
  <2>1. Known' = Known /\ \A u : LinkedFrom(u)' = LinkedFrom(u)
    BY <1>1, <1>2, <1>5 DEF Known, LinkedFrom, LinksOn
  <2> QED
    BY <1>1, <1>3, <2>1 DEF Waiting, Closed
<1>9. OneFurther'
  BY <1>1, <1>2, <1>3, <1>5, <1>6 DEF Waiting, OneFurther
<1>10. NoNearer'
  <2>1. \A n \in Nat : \A u \in Range(queue') \ visited' : u \in Within'[n] =>
            visited' \subseteq Within'[n]
    BY <1>2, <1>4, <1>5, <1>6
  <2>2. ASSUME NEW n \in Nat, NEW k \in DOMAIN queue', queue'[k] \notin Within'[n]
        PROVE  Within'[n] \subseteq visited' \cup {queue'[m] : m \in 1 .. k - 1}
    <3>1. k \in Nat /\ k >= 1 /\ DOMAIN queue' = 1 .. Len(queue') /\ Len(queue') \in Nat
              /\ k <= Len(queue')
      BY <1>5
    <3>2. Within[n] \subseteq visited \cup {queue[m] : m \in 1 .. (k + 1) - 1}
      BY <1>3, <1>5, <1>6, <2>2 DEF Waiting, NoNearer
    <3>3. \A m \in 1 .. (k + 1) - 1 : m = 1
              \/ (m - 1 \in DOMAIN queue' /\ m - 1 \in 1 .. k - 1 /\ (m - 1) + 1 = m)
      BY <3>1
    <3>4. \A m \in 1 .. (k + 1) - 1 : queue[m] \in visited' \cup {queue'[l] : l \in 1 .. k - 1}
      BY <1>2, <1>5, <3>3
    <3> QED
      BY <1>2, <1>6, <3>2, <3>4
  <2> QED
    BY <2>1, <2>2 DEF NoNearer
<1>11. InOrder'
  BY <1>1, TakeInOrder
<1> QED
  BY <1>1, <1>3, <1>4, <1>7, <1>8, <1>9, <1>10, <1>11 DEF CrawlInv, Waiting, AfterCrawl

\* A page with a link that cannot be parsed ends the crawl.
LEMMA FetchUnparsableCrawl ==
    ASSUME CrawlInv, FetchUnparsable PROVE CrawlInv'
<1>1. /\ at = "crawl" /\ at' = "return" /\ Take /\ lost'
      /\ UNCHANGED <<agent, site, queue, pages, next>>
  BY DEF FetchUnparsable, Continue
<1>2. /\ crawled' \in Seq(Urls) /\ IsInjective(crawled') /\ crawled' # <<>>
      /\ visited' = Range(crawled')
      /\ visited' = visited \cup {Head(queue)}
  BY <1>1, TakeNext DEF Take
<1>3. CrawlShape'
  BY <1>1, <1>2 DEF CrawlInv, CrawlShape, BeforeCrawl, AfterCrawl
<1>4. InOrder'
  BY <1>1, TakeInOrder
<1> QED
  BY <1>1, <1>3, <1>4 DEF CrawlInv, Complete

\* The crawl ends when nothing waits, or when it has its pages.
LEMMA EndCrawlCrawl ==
    ASSUME CrawlInv, EndCrawl PROVE CrawlInv'
<1>1. /\ at = "crawl" /\ at' = "pages" /\ ~(queue # <<>> /\ Len(pages) < MaxCrawlPages)
      /\ UNCHANGED <<agent, site, queue, visited, pages, crawled, next, lost>>
  BY DEF EndCrawl, Crawling, Continue, web, crawl
<1>2. CrawlShape'
  BY <1>1 DEF CrawlInv, CrawlShape, BeforeCrawl, AfterCrawl
<1>3. Complete
  <2>1. CASE queue = <<>>
    <3>1. \A n \in Nat : Within[n] \subseteq Known
      BY <1>1, ReachIsKnown DEF CrawlInv, Waiting
    <3>2. Known = visited
      BY <2>1 DEF Known, Range
    <3> QED
      BY <3>1, <3>2 DEF Complete
  <2>2. CASE Len(pages) >= MaxCrawlPages
    BY <2>2, CrawlAssumption DEF CrawlInv, CrawlShape, Complete
  <2> QED
    BY <1>1, <2>1, <2>2, CrawlAssumption DEF CrawlInv, CrawlShape
<1> QED
  BY <1>1, <1>2, <1>3, CrawlAside

\* Steps that leave the crawl alone.
LEMMA CrawlElsewhere ==
    ASSUME CrawlInv, UNCHANGED <<agent, site, queue, visited, pages, crawled, lost>>,
           \/ at' = at /\ next' = next
           \/ /\ agent # "black_box" \/ at' \in BeforeCrawl => next' = next
              /\ at' # "crawl"
              /\ IF agent = "black_box"
                 THEN \/ at \in BeforeCrawl /\ at' \in BeforeCrawl
                             \cup {"return", "done", "no_target"}
                      \/ at \in AfterCrawl /\ at' \in AfterCrawl
                 ELSE at' \notin {"start", "ports", "front", "deep", "crawl",
                                  "pages", "reflection", "errors"}
    PROVE  CrawlInv'
<1>1. CASE at' = at /\ next' = next
  <2>1. Within' = Within
    BY WithinStays
  <2>2. Waiting => Waiting'
    BY <1>1, <2>1 DEF Waiting, Closed, OneFurther, NoNearer, Known, LinkedFrom, LinksOn
  <2> QED
    BY <1>1, <2>2, CrawlAside DEF CrawlInv, CrawlShape
<1>2. CASE ~(at' = at /\ next' = next)
  <2>1. CrawlShape'
    BY <1>2 DEF CrawlInv, CrawlShape, BeforeCrawl, AfterCrawl
  <2>2. at' \in AfterCrawl /\ crawled # <<>> => at \in AfterCrawl
    BY <1>2 DEF CrawlInv, CrawlShape
  <2> QED
    BY <1>2, <2>1, <2>2, CrawlAside DEF CrawlInv
<1> QED
  BY <1>1, <1>2

\* A step of the black-box agent.
LEMMA CrawlOfWeb ==
    ASSUME CrawlInv, StepWeb PROVE CrawlInv'
<1>1. agent = "black_box"
  BY WebStages DEF CrawlInv, CrawlShape
<1>2. CASE ValidateTarget \/ ScanPorts \/ CheckWebServer
  BY <1>1, <1>2, CrawlElsewhere
     DEF ValidateTarget, ScanPorts, CheckWebServer, Continue, web, crawl, BeforeCrawl, AfterCrawl
<1>3. CASE DeepAssessment
  BY <1>3, DeepAssessmentCrawl
<1>4. CASE SkipVisited
  BY <1>4, SkipVisitedCrawl
<1>5. CASE FetchFails
  BY <1>5, FetchFailsCrawl
<1>6. CASE FetchPage
  BY <1>6, FetchPageCrawl
<1>7. CASE FetchUnparsable
  BY <1>7, FetchUnparsableCrawl
<1>8. CASE EndCrawl
  BY <1>8, EndCrawlCrawl
<1>9. CASE CheckForms \/ CheckReflection \/ CheckErrors \/ EndPages
  <2>1. /\ at \in AfterCrawl /\ at' \in AfterCrawl
        /\ UNCHANGED <<agent, site, queue, visited, pages, crawled, lost>>
    BY <1>9
    DEF CheckForms, CheckReflection, CheckErrors, EndPages, Probe, Continue, web, crawl,
       AfterCrawl
  <2> QED
    BY <1>1, <2>1, CrawlElsewhere DEF BeforeCrawl, AfterCrawl
<1> QED
  BY <1>2, <1>3, <1>4, <1>5, <1>6, <1>7, <1>8, <1>9 DEF StepWeb

\* Every step keeps what is known of the crawl.
LEMMA CrawlStep == CrawlInv /\ [Next]_vars => CrawlInv'
<1> SUFFICES ASSUME CrawlInv, [Next]_vars PROVE CrawlInv'
  OBVIOUS
<1>1. CASE StepWeb
  BY <1>1, CrawlOfWeb
<1>2. CASE (StepSource \/ StepApi) /\ UNCHANGED web
  <2>1. agent # "black_box" /\ agent' = agent
    BY <1>2, SourceStages, ApiStages
       DEF CrawlInv, CrawlShape, BeforeCrawl, AfterCrawl, UrlStages, PatternAgents, ToolAgents
  <2>2. at' \notin {"start", "ports", "front", "deep", "crawl", "pages", "reflection", "errors"}
    BY <1>2, SourceStages, ApiStages
  <2> QED
    BY <1>2, <2>1, <2>2, CrawlElsewhere DEF web, crawl
<1>3. CASE (NoTarget \/ Return) /\ UNCHANGED web
  BY <1>3, CrawlElsewhere DEF NoTarget, Return, Continue, web, crawl, BeforeCrawl, AfterCrawl
<1>4. CASE Around \/ UNCHANGED vars
  BY <1>4, CrawlElsewhere DEF Around, RemoveFile, WindowReset, vars, run, web, crawl
<1> QED
  BY <1>1, <1>2, <1>3, <1>4 DEF Next, Step

\* No more pages are got than there are URLs.
LEMMA PagesAreUrls ==
    ASSUME CrawlInv PROVE Len(pages) \in Nat /\ Cardinality(Urls) \in Nat
               /\ Len(pages) <= Cardinality(Urls)
<1>1. pages \in Injection(1 .. Len(pages), Urls) /\ Len(pages) \in Nat
  BY DEF CrawlInv, CrawlShape, Injection, IsInjective
<1>2. IsFiniteSet(Urls)
  BY CrawlAssumption
<1>3. Cardinality(1 .. Len(pages)) <= Cardinality(Urls)
  BY <1>1, <1>2, FS_Injection
<1>4. Cardinality(1 .. Len(pages)) = Len(pages)
  <2> DEFINE m == Len(pages)
  <2>1. 1 \in Int /\ m \in Int /\ (m >= 1 \/ m = 0)
    BY <1>1
  <2>2. Cardinality(1 .. m) = IF 1 > m THEN 0 ELSE m - 1 + 1
    <3> HIDE DEF m
    <3> QED
      BY <2>1, FS_Interval
  <2> QED
    BY <2>1, <2>2
<1>5. Cardinality(Urls) \in Nat
  BY <1>2, FS_CardinalityType
<1> QED
  BY <1>1, <1>3, <1>4, <1>5

\* The invariant gives the property: a distance is the least number of links.
LEMMA CrawlInvImplies == CrawlInv => CrawlIsBreadthFirst
<1> SUFFICES ASSUME CrawlInv PROVE CrawlIsBreadthFirst
  OBVIOUS
<1> DEFINE card == Cardinality(Urls)
<1>1. /\ IsInjective(crawled) /\ Len(pages) <= MaxCrawlPages
      /\ crawled \in Seq(Urls) /\ visited = Range(crawled)
  BY DEF CrawlInv, CrawlShape
<1>2. Len(pages) \in Nat /\ card \in Nat /\ Len(pages) <= card
  BY PagesAreUrls
<1>3. Range(crawled) \subseteq Within[card]
  <2>1. Within[Len(pages)] \subseteq Within[card]
    BY <1>2, WithinGrows
  <2> QED
    BY <1>1, <2>1 DEF CrawlInv, InOrder
<1> HIDE DEF card
<1>4. ASSUME NEW i \in DOMAIN crawled
      PROVE  /\ Distance(crawled[i]) \in 0 .. card /\ crawled[i] \in Within[Distance(crawled[i])]
             /\ \A n \in 0 .. card : crawled[i] \in Within[n] => Distance(crawled[i]) <= n
  <2> DEFINE S == {n \in 0 .. card : crawled[i] \in Within[n]}
  <2>1. crawled[i] \in Within[card]
    BY <1>3, <1>4 DEF Range
  <2>2. S \in SUBSET Nat /\ card \in S
    BY <1>2, <2>1
  <2>3. Min(S) \in S /\ \A n \in S : Min(S) <= n
    <3> HIDE DEF S
    <3> QED
      BY <2>2, LeastNumber
  <2>4. Distance(crawled[i]) = Min(S)
    BY DEF Distance, card
  <2> QED
    BY <2>3, <2>4
<1>5. ASSUME NEW i \in DOMAIN crawled, NEW j \in DOMAIN crawled, i < j
      PROVE  Distance(crawled[i]) <= Distance(crawled[j])
  <2>1. Distance(crawled[j]) \in 0 .. card /\ crawled[j] \in Within[Distance(crawled[j])]
    BY <1>4
  <2>2. crawled[i] \in Within[Distance(crawled[j])]
    BY <1>2, <1>5, <2>1 DEF CrawlInv, InOrder
  <2> QED
    BY <1>4, <2>1, <2>2
<1>6. at \in {"pages", "done"} /\ crawled # <<>> =>
          lost \/ Len(pages) = MaxCrawlPages \/ Within[card] \subseteq Range(crawled)
  BY <1>1, <1>2 DEF CrawlInv, Complete, AfterCrawl
<1> QED
  BY <1>1, <1>3, <1>5, <1>6 DEF CrawlIsBreadthFirst, card

\* CrawlIsBreadthFirst: whatever the site links, whichever requests fail, and
\* whatever its caps, the crawl asks for nearer URLs first and for none twice, and
\* ends when it has them all or its pages.
THEOREM CrawlAlwaysBreadthFirst == Spec => []CrawlIsBreadthFirst
<1>1. Init => CrawlInv
  BY CrawlInit
<1>2. CrawlInv /\ [Next]_vars => CrawlInv'
  BY CrawlStep
<1>3. CrawlInv => CrawlIsBreadthFirst
  BY CrawlInvImplies
<1> QED
  BY <1>1, <1>2, <1>3, PTL DEF Spec

-----------------------------------------------------------------------------
(* What the crawl leaves out is told.                                       *)

\* At first no page was looked at.
LEMMA ReportInit == Init => ReportInv
BY DEF Init, InitRun, InitWeb, ReportInv

\* The crawl asks for the target first.
LEMMA TargetFirst ==
    ASSUME CrawlInv, at = "crawl", Take, crawled # <<>> => Head(crawled) = Home
    PROVE  Head(crawled') = Home
<1>1. crawled' = Append(crawled, Head(queue)) /\ crawled \in Seq(Urls) /\ Head(queue) \in Urls
  BY TakeNext DEF Take, CrawlInv, CrawlShape
<1>2. CASE crawled = <<>>
  <2>1. Head(queue) = Home
    BY <1>2, CrawlAssumption DEF CrawlInv, Waiting
  <2> QED
    BY <1>1, <1>2, <2>1
<1>3. CASE crawled # <<>>
  BY <1>1, <1>3
<1> QED
  BY <1>2, <1>3

\* A step before the crawl, or one that asks for a page.
LEMMA ReportBefore ==
    ASSUME ConsentInv, CrawlInv, ReportInv, agent = "black_box",
           \/ ValidateTarget \/ ScanPorts \/ CheckWebServer \/ DeepAssessment
           \/ SkipVisited \/ FetchFails \/ FetchPage \/ FetchUnparsable
    PROVE  ReportInv'
<1>1. /\ agent' = agent /\ authorized' = authorized /\ site' = site /\ next' = next
      /\ findings \subseteq findings' /\ unanswered' = unanswered
      /\ at \in BeforeCrawl \cup {"crawl"}
  BY DEF ValidateTarget, ScanPorts, CheckWebServer, DeepAssessment, SkipVisited, FetchFails,
         FetchPage, FetchUnparsable, Take, Continue, web, crawl, BeforeCrawl
<1>2. /\ at \in BeforeCrawl => pages = <<>> /\ next = 1
      /\ at = "crawl" => next = 1 /\ authorized
  BY DEF CrawlInv, CrawlShape, Waiting, ConsentInv, Confirmed
<1>0. (crawled # <<>> => Head(crawled) = Home) => (crawled' # <<>> => Head(crawled') = Home)
  <2>1. crawled' = crawled \/ (at = "crawl" /\ Take)
    BY DEF ValidateTarget, ScanPorts, CheckWebServer, DeepAssessment, SkipVisited, FetchFails,
           FetchPage, FetchUnparsable, Continue, web, crawl
  <2> QED
    BY <2>1, TargetFirst
<1>3. CASE ValidateTarget
  <2>1. at = "start" /\ at' \in {"ports", "done"} /\ sent' = sent /\ pages' = <<>>
    BY <1>2, <1>3 DEF ValidateTarget, Continue, web, crawl, BeforeCrawl
  <2> QED
    BY <1>0, <1>1, <1>2, <2>1 DEF ReportInv, BeforeCrawl
<1>4. CASE ScanPorts \/ CheckWebServer
  <2>1. at' \in {"front", "deep"}
    BY <1>4 DEF ScanPorts, CheckWebServer, Continue
  <2> QED
    BY <1>0, <1>1, <2>1 DEF ReportInv
<1>5. CASE DeepAssessment
  <2>1. /\ at' \in {"crawl", "return"} /\ pages' = <<>>
        /\ at' = "return" /\ site.isUrl => ~authorized /\ <<"skipped", "target">> \in findings'
    BY <1>2, <1>5 DEF DeepAssessment, Continue, web, crawl, BeforeCrawl
  <2> QED
    BY <1>0, <1>1, <2>1 DEF ReportInv
<1>6. CASE SkipVisited \/ FetchFails \/ FetchPage
  <2>1. at' = "crawl"
    BY <1>6 DEF SkipVisited, FetchFails, FetchPage, Continue
  <2> QED
    BY <1>0, <1>1, <2>1 DEF ReportInv
<1>7. CASE FetchUnparsable
  <2>1. at = "crawl" /\ at' = "return" /\ lost' /\ crawled' # <<>>
    <3>1. at = "crawl" /\ at' = "return" /\ lost' /\ Take
      BY <1>7 DEF FetchUnparsable, Continue
    <3> QED
      BY <3>1, TakeNext
  <2> QED
    BY <1>0, <1>1, <1>2, <2>1 DEF ReportInv
<1> QED
  BY <1>3, <1>4, <1>5, <1>6, <1>7

\* A step on the pages tells of their forms and probes.
LEMMA ReportPages ==
    ASSUME ConsentInv, CrawlInv, ReportInv, agent = "black_box",
           EndCrawl \/ CheckForms \/ CheckReflection \/ CheckErrors \/ EndPages
    PROVE  ReportInv'
<1>1. /\ UNCHANGED <<agent, authorized, site, pages, crawled, lost>>
      /\ findings \subseteq findings'
      /\ unanswered \subseteq unanswered'
  BY DEF EndCrawl, CheckForms, CheckReflection, CheckErrors, Probe, EndPages, Continue, web, crawl
<1>2. \A i : /\ FormTold(i) => FormTold(i)'
             /\ \A m : ProbeTold(m, i) => ProbeTold(m, i)'
             /\ PageTold(i) => PageTold(i)'
  BY <1>1 DEF FormTold, ProbeTold, PageTold
<1>3. next \in Nat /\ \A i \in DOMAIN pages : i \in Nat
  BY DEF ReportInv, CrawlInv, CrawlShape
<1>4. CASE EndCrawl
  <2>1. at = "crawl" /\ at' = "pages" /\ next' = next
            /\ (queue = <<>> \/ Len(pages) >= MaxCrawlPages)
    BY <1>4, CrawlAssumption DEF EndCrawl, Crawling, Continue, web, crawl, CrawlInv, CrawlShape
  <2>2. next = 1 /\ crawled # <<>>
    <3>1. Waiting /\ Range(pages) \subseteq Range(crawled) /\ pages \in Seq(Urls)
      BY <2>1 DEF CrawlInv, CrawlShape
    <3>2. crawled = <<>> => pages = <<>>
      BY <3>1 DEF Range
    <3> QED
      BY <2>1, <3>1, <3>2, CrawlAssumption DEF Waiting
  <2>3. \A i \in DOMAIN pages' : ~(i < next')
    BY <1>1, <2>1, <2>2 DEF CrawlInv, CrawlShape
  <2> QED
    BY <1>1, <1>3, <2>1, <2>2, <2>3 DEF ReportInv
<1>5. CASE CheckForms
  <2>1. /\ at = "pages" /\ next <= Len(pages) /\ at' \in {"pages", "reflection"}
        /\ \/ at' = "pages" /\ next' = next + 1 /\ pages[next] \notin site.query
           \/ at' = "reflection" /\ next' = next
    BY <1>5 DEF CheckForms, Inspecting, Continue, Page
  <2>2. ASSUME NEW i, i = next PROVE FormTold(i)'
    <3>1. findings' = findings
              \cup {<<"form", pages[next]>> : m \in site.flaws[pages[next]] \cap {"form"}}
      BY <1>5 DEF CheckForms, Continue, Page
    <3>2. "form" \in site.flaws[pages[i]] => <<"form", pages[i]>> \in findings'
      BY <2>2, <3>1
    <3> QED
      BY <1>1, <3>2 DEF FormTold
  <2>3. \A i \in DOMAIN pages : i < next => PageTold(i)'
    BY <1>2, <2>1 DEF ReportInv
  <2>4. at' = "pages" => \A i \in DOMAIN pages : i < next' => PageTold(i)'
    <3>1. \A i \in DOMAIN pages : i < next + 1 => i < next \/ i = next
      BY <1>3
    <3>2. at' = "pages" => \A i \in DOMAIN pages : i = next => \A m : ProbeTold(m, i)'
      BY <1>1, <2>1 DEF ProbeTold
    <3> QED
      BY <2>1, <2>2, <2>3, <3>1, <3>2 DEF PageTold
  <2> QED
    BY <1>1, <1>3, <2>1, <2>2, <2>3, <2>4 DEF ReportInv
<1>6. CASE CheckReflection
  <2>1. at = "reflection" /\ at' = "errors" /\ next' = next
    BY <1>6 DEF CheckReflection, Probe, Continue, web
  <2>2. ProbeTold("reflects", next)'
    <3>1. \/ findings' = findings
                \cup {<<m, pages[next]>> : m \in site.flaws[pages[next]] \cap {"reflects"}}
          \/ unanswered' = unanswered \cup {<<"reflects", pages[next]>>}
      BY <1>6 DEF CheckReflection, Probe, Continue, Page
    <3>2. "reflects" \in site.flaws[pages[next]] =>
              <<"reflects", pages[next]>> \in findings' \cup unanswered'
      BY <3>1
    <3> QED
      BY <1>1, <2>1, <3>2 DEF ProbeTold
  <2> QED
    BY <1>1, <1>2, <2>1, <2>2 DEF ReportInv
<1>7. CASE CheckErrors
  <2>1. at = "errors" /\ at' = "pages" /\ next' = next + 1
    BY <1>7 DEF CheckErrors, Probe, Continue
  <2>2. \A i \in DOMAIN pages : i < next + 1 => i < next \/ i = next
    BY <1>3
  <2>3. ASSUME NEW i, i = next PROVE ProbeTold("sql_error", i)'
    <3>1. \/ findings' = findings
                \cup {<<m, pages[next]>> : m \in site.flaws[pages[next]] \cap {"sql_error"}}
          \/ unanswered' = unanswered \cup {<<"sql_error", pages[next]>>}
      BY <1>7 DEF CheckErrors, Probe, Continue, Page
    <3>2. "sql_error" \in site.flaws[pages[i]] =>
              <<"sql_error", pages[i]>> \in findings' \cup unanswered'
      BY <2>3, <3>1
    <3> QED
      BY <1>1, <3>2 DEF ProbeTold
  <2>4. \A i \in DOMAIN pages : i < next + 1 => PageTold(i)'
    <3>1. \A i \in DOMAIN pages : i < next => PageTold(i)'
      BY <1>2, <2>1 DEF ReportInv
    <3>2. \A i \in DOMAIN pages : i = next => FormTold(i)' /\ ProbeTold("reflects", i)'
      BY <1>2, <2>1 DEF ReportInv
    <3> QED
      BY <2>2, <2>3, <3>1, <3>2 DEF PageTold
  <2> QED
    BY <1>1, <1>3, <2>1, <2>4 DEF ReportInv
<1>8. CASE EndPages
  <2>1. at = "pages" /\ at' = "return" /\ next' = next /\ ~(next <= Len(pages)) /\ authorized
    BY <1>8 DEF EndPages, Inspecting, Continue, web, ConsentInv, Confirmed
  <2>2. \A i \in DOMAIN pages : i < next
    BY <1>3, <2>1 DEF CrawlInv, CrawlShape
  <2> QED
    BY <1>1, <1>2, <1>3, <2>1, <2>2 DEF ReportInv
<1> QED
  BY <1>4, <1>5, <1>6, <1>7, <1>8

\* Every step keeps what is known of the report.
LEMMA ReportStep == ConsentInv /\ CrawlInv /\ ReportInv /\ [Next]_vars => ReportInv'
<1> SUFFICES ASSUME ConsentInv, CrawlInv, ReportInv, [Next]_vars PROVE ReportInv'
  OBVIOUS
<1>1. CASE StepWeb
  <2>1. agent = "black_box"
    BY <1>1, WebStages DEF CrawlInv, CrawlShape
  <2> QED
    BY <1>1, <2>1, ReportBefore, ReportPages DEF StepWeb
<1>2. CASE StepSource \/ StepApi
  <2>1. agent # "black_box" /\ agent' = agent
    BY <1>2, SourceStages, ApiStages
       DEF CrawlInv, CrawlShape, BeforeCrawl, AfterCrawl, UrlStages, PatternAgents, ToolAgents
  <2> QED
    BY <2>1 DEF ReportInv
<1>3. CASE (NoTarget \/ Return) /\ UNCHANGED web
  <2>1. /\ UNCHANGED <<agent, authorized, sent, site, pages, crawled, lost, next, unanswered>>
        /\ findings \subseteq findings'
        /\ at' = "no_target" \/ (at = "return" /\ at' = "done")
    BY <1>3 DEF NoTarget, Return, Continue, web, crawl
  <2> QED
    BY <2>1 DEF ReportInv, FormTold, ProbeTold, PageTold
<1>4. CASE (Around /\ UNCHANGED <<run, web>>) \/ UNCHANGED vars
  BY <1>4 DEF ReportInv, FormTold, ProbeTold, PageTold, vars, run, web, crawl
<1> QED
  BY <1>1, <1>2, <1>3, <1>4 DEF Next, Step, Around, RemoveFile, WindowReset

\* What the crawl leaves out is told.
LEMMA CrawlAlwaysReported == CrawlInv /\ ReportInv => CrawlIsReported
<1> SUFFICES ASSUME CrawlInv, ReportInv, agent = "black_box", at = "done", "connect" \in sent,
                        site.isUrl
             PROVE  /\ ~authorized => <<"skipped", "target">> \in findings
                    /\ authorized => crawled # <<>> /\ Head(crawled) = Home
                    /\ ~lost => \A u \in Range(pages) :
                           /\ "form" \in site.flaws[u] => <<"form", u>> \in findings
                           /\ u \in site.query =>
                                  \A m \in site.flaws[u] \cap {"reflects", "sql_error"} :
                                      <<m, u>> \in findings \cup unanswered
  BY DEF CrawlIsReported
<1>1. ~lost => \A i \in DOMAIN pages : PageTold(i)
  BY DEF ReportInv
<1>2. ~lost => \A u \in Range(pages) : \E i \in DOMAIN pages : u = pages[i] /\ PageTold(i)
  BY <1>1 DEF Range
<1> QED
  BY <1>2 DEF ReportInv, PageTold, FormTold, ProbeTold

\* TroubleIsTold: trouble on an agent's way, and what it leaves out, is in its
\* findings, whatever its target is and whichever of its requests and tools fail.
THEOREM TroubleAlwaysTold == Spec => []TroubleIsTold
<1> DEFINE AgentInv == ConsentInv /\ ApiInv /\ ToolInv /\ CrawlInv /\ ReportInv
<1>1. Init => AgentInv
  BY ConsentInit, ApiInit, ToolInit, CrawlInit, ReportInit
<1>2. AgentInv /\ [Next]_vars => AgentInv'
  BY ConsentStep, ApiStep, ToolStep, CrawlStep, ReportStep
<1>3. AgentInv => TroubleIsTold
  BY ToolTroubleAlwaysTold, CrawlAlwaysReported, SkippedAlwaysTold DEF TroubleIsTold
<1> QED
  BY <1>1, <1>2, <1>3, PTL DEF Spec

-----------------------------------------------------------------------------
(* The agents that look for patterns.                                      *)

(* The files of the target a check walks, those with a pattern of it, the    *)
(* patterns that checks look for in a file and would find, the keys under    *)
(* which there is a chain, and the places of execute before the end of all   *)
(* checks.                                                                   *)
Globbed(i) == {f \in Present : tree.kind[f] \in Checks[i].globs}
With(i)    == {f \in Present : HasPattern(f, Checks[i])}
LooksFor(m, f) == \E i \in DOMAIN Checks : f \in With(i) /\ m \in Checks[i].marks \cap tree.marks[f]
Chains     == {k \in Keys \ {""} : HasTwoSteps(PythonOf(k))}
Looking    == {"start", "check", "walk"}

(* Where execute is fits the checks and the walk.                            *)
SearchShape ==
    /\ tree \in Trees
    /\ at \in Looking \cup {"logs", "return", "done", "raised", "no_target"}
    /\ check \in Nat \ {0}
    /\ hit \in BOOLEAN
    /\ onDisk \subseteq Present
    /\ todo \subseteq Present
    /\ at = "start" => check = 1 /\ findings = {}
    /\ at \in {"start", "check"} => todo = {} /\ ~hit
    /\ at = "walk" => check \in DOMAIN Checks /\ todo \subseteq Globbed(check)
    /\ at = "walk" /\ hit => todo = {}
    /\ at \in {"logs", "return", "done"} => check > Len(Checks)
    /\ at = "logs" => agent = "blue_team"

(* What is said of a file is in it.                                          *)
SaysWhatIsThere ==
    /\ at \in Looking \cup {"logs"} =>
           \A x \in findings : \E m \in PatternMarks, p \in Files \cup {"target"} : x = <<m, p>>
    /\ \A m \in PatternMarks, f \in Files : <<m, f>> \in findings => LooksFor(m, f)
    /\ \A k \in Keys : <<"chain", k>> \in findings => k \in Chains

(* What a check that is over has said, and what the one that walks has so    *)
(* far, while nothing was removed.                                           *)
Said(i) ==
    LET c == Checks[i] IN
    /\ c.how = "each" =>
           \A f \in With(i) : \A m \in c.marks \cap tree.marks[f] : <<m, f>> \in findings
    /\ c.how = "first" =>
           (With(i) # {} => \E f \in With(i), m \in c.marks : <<m, f>> \in findings)
    /\ c.how = "lacks" =>
           (With(i) = {} => \A m \in c.marks : <<m, "target">> \in findings)

SaidSoFar(i) ==
    LET c == Checks[i] IN
    /\ c.how = "each" =>
           \A f \in With(i) \ todo : \A m \in c.marks \cap tree.marks[f] : <<m, f>> \in findings
    /\ c.how = "first" =>
           (hit => \E f \in With(i), m \in c.marks : <<m, f>> \in findings)
    /\ c.how = "lacks" => (hit => With(i) # {})
    /\ c.how \in {"first", "lacks"} => hit \/ With(i) \subseteq todo

SaysAll ==
    /\ \A i \in DOMAIN Checks : i < check => Said(i)
    /\ at = "walk" => SaidSoFar(check)
    /\ \A i \in DOMAIN Checks : \A m \in Checks[i].marks :
           Checks[i].how = "lacks" /\ <<m, "target">> \in findings => i < check /\ With(i) = {}
    /\ agent = "red_team" /\ at \in {"return", "done"} =>
           \A k \in Chains : <<"chain", k>> \in findings

SearchInv ==
    agent \in PatternAgents =>
        SearchShape /\ SaysWhatIsThere /\ (Intact /\ tree.isDir => SaysAll)

(* The log files found are different ones, and all of them unless the cap    *)
(* was reached.                                                              *)
Discovery ==
    /\ logs \in Seq(Files) /\ IsInjective(logs)
    /\ Range(logs) \subseteq LogFiles
    /\ Len(logs) <= MaxLogFiles
    /\ tree.isDir /\ (\/ at \in {"start", "check"} /\ check <= Len(Checks)
                      \/ at = "walk" /\ (todo # {} \/ ~How("logs"))) => Len(logs) < MaxLogFiles
    /\ Intact /\ tree.isDir /\ Len(logs) < MaxLogFiles =>
           /\ \A i \in DOMAIN Checks : Checks[i].how = "logs" /\ i < check =>
                  Globbed(i) \subseteq Range(logs)
           /\ at = "walk" /\ How("logs") => Globbed(check) \subseteq Range(logs) \cup todo

(* The counts are those of the lines taken so far.                           *)
Copies(bag, k) == IF k \in DOMAIN bag THEN bag[k] ELSE 0
Origin(l) == IF LineAt(l).source = "unknown" THEN l[1] ELSE LineAt(l).source
Failures(lines, k) == {l \in lines : LineAt(l).failed /\ <<l[1], LineAt(l).source>> = k}
Probings(lines, k) == {l \in lines : LineAt(l).probe /\ Origin(l) = k}

Bag(b) == b \in [DOMAIN b -> Nat]

Counted(c, lines) ==
    /\ IsFiniteSet(lines)
    /\ c = [failed |-> c.failed, probes |-> c.probes, found |-> c.found]
    /\ Bag(c.failed) /\ \A k : Copies(c.failed, k) = Cardinality(Failures(lines, k))
    /\ Bag(c.probes) /\ \A k : Copies(c.probes, k) = Cardinality(Probings(lines, k))
    /\ \A x : x \in c.found <=> \E l \in lines : \E m \in LineAt(l).marks : x = <<m, l[1]>>

(* What the analysis has said of the logs it could read.                     *)
LogsSaid(read) ==
    /\ \A f \in Files, s \in Sources :
           <<"brute_force", <<f, s>>>> \in findings <=> f \in read /\ s \in BruteForce(f)
    /\ \A k \in Files \cup Sources : <<"scanning", k>> \in findings <=> k \in Scanners(read)
    /\ <<"quiet_logs", "target">> \in findings <=> ~Suspicious(read)
    /\ <<"incident", "target">> \in findings <=> Suspicious(read)

Taken == {logs[j] : j \in 1 .. ingested[1]}

Reading ==
    /\ ingested = <<ingested[1], ingested[2]>> /\ ingested[1] \in 0 .. Len(logs)
    /\ at \in Looking => ingested = <<0, {}>> /\ counted = Nothing
    /\ ingested[2] \subseteq Taken
    /\ Intact => ingested[2] = Taken \cap tree.readable
    /\ Counted(counted, LinesIn(ingested[2]))
    /\ at \in {"return", "done"} /\ logs # <<>> => ingested[1] = Len(logs) /\ LogsSaid(ingested[2])

LogInv == agent = "blue_team" => Discovery /\ Reading

(* What the lists of checks hold.                                            *)

\* The checks of the red team, one by one.
LEMMA RedChecksAre ==
    ASSUME agent = "red_team"
    PROVE  /\ DOMAIN Checks = 1 .. 5 /\ Len(Checks) = 5
           /\ Checks[1] = Each({"py"}, {"eval", "exec", "pickle"})
           /\ Checks[2] = Each({"py"}, {"credential", "weak_auth"})
           /\ Checks[3] = Each({"py"}, {"sql"})
           /\ Checks[4] = Each({"py"}, {"privilege"})
           /\ Checks[5] = Each({"py"}, {"internal_host"})
<1>1. Checks = RedChecks
    BY DEF Checks
<1> QED
    BY <1>1 DEF RedChecks, AnalyzeAttackVectors, CheckAuthBypassVectors, CheckInjectionVectors,
       CheckPrivilegeEscalationVectors, CheckLateralMovementIndicators

\* The checks of the cloud agent, one by one.
LEMMA CloudChecksAre ==
    ASSUME agent = "cloud_security"
    PROVE  /\ DOMAIN Checks = 1 .. 4 /\ Len(Checks) = 4
           /\ Checks[1] = Each({"tf"}, {"public_database", "open_ingress"})
           /\ Checks[2] = Broken({"yaml", "json"}, {"public_bucket"})
           /\ Checks[3] = Each({"docker"}, {"no_user", "latest"})
           /\ Checks[4] = Each({"yaml"}, {"privileged", "no_limits"})
<1>1. Checks = CloudChecks
    BY DEF Checks
<1> QED
    BY <1>1 DEF CloudChecks, CheckTerraformConfigs, CheckCloudformationConfigs, CheckDockerConfigs,
       CheckK8sConfigs

\* What a concatenation holds, place by place.
LEMMA ConcatIs ==
    ASSUME NEW V, NEW q \in Seq(V), NEW r \in Seq(V)
    PROVE  /\ Len(q \o r) = Len(q) + Len(r) /\ DOMAIN (q \o r) = 1 .. Len(q) + Len(r)
           /\ \A i \in 1 .. Len(q) : (q \o r)[i] = q[i]
           /\ \A i \in 1 .. Len(r) : (q \o r)[Len(q) + i] = r[i]
OBVIOUS

\* The checks of the blue team, one by one: three on code, then four globs for logs.
LEMMA BlueChecksAre ==
    ASSUME agent = "blue_team"
    PROVE  /\ DOMAIN Checks = 1 .. 7 /\ Len(Checks) = 7
           /\ Checks[1] = Lacks({"py"}, {"logging"})
           /\ Checks[2] = First({"py"}, {"bare_except", "sensitive"})
           /\ Checks[3] = Lacks({"py"}, {"validation"})
           /\ Checks[4] = Discover({"log", "access_log"})
           /\ Checks[5] = Discover({"old_log"})
           /\ Checks[6] = Discover({"access_log"})
           /\ Checks[7] = Discover({"jsonl"})
<1> DEFINE A == << CheckLoggingInstrumentation, CheckErrorHandling, CheckInputValidation >>
           B == [i \in DOMAIN LogFileGlobs |-> Discover(LogFileGlobs[i])]
           V == {A[1], A[2], A[3], B[1], B[2], B[3], B[4]}
<1>1. Checks = A \o B
    BY DEF Checks, BlueChecks
<1>2. Len(A) = 3 /\ DOMAIN LogFileGlobs = 1 .. 4 /\ Len(B) = 4
    BY DEF LogFileGlobs
<1>3. /\ B[1] = Discover({"log", "access_log"}) /\ B[2] = Discover({"old_log"})
      /\ B[3] = Discover({"access_log"}) /\ B[4] = Discover({"jsonl"})
    BY <1>2 DEF LogFileGlobs
<1>4. A \in Seq(V) /\ B \in Seq(V)
    BY <1>2
<1>5. /\ A[1] = Lacks({"py"}, {"logging"}) /\ A[2] = First({"py"}, {"bare_except", "sensitive"})
      /\ A[3] = Lacks({"py"}, {"validation"})
    BY DEF CheckLoggingInstrumentation, CheckErrorHandling, CheckInputValidation
<1> HIDE DEF A, B, V
<1>6. /\ Len(A \o B) = Len(A) + Len(B) /\ DOMAIN (A \o B) = 1 .. Len(A) + Len(B)
      /\ \A i \in 1 .. Len(A) : (A \o B)[i] = A[i]
      /\ \A i \in 1 .. Len(B) : (A \o B)[Len(A) + i] = B[i]
    BY <1>4, ConcatIs
<1>7. Len(Checks) = 7 /\ DOMAIN Checks = 1 .. 7 /\ \A i \in 1 .. 3 : Checks[i] = A[i]
    BY <1>1, <1>2, <1>6
<1>8. \A i \in 1 .. 4 : Checks[3 + i] = B[i]
    BY <1>1, <1>2, <1>6
<1>9. /\ Checks[4] = B[1] /\ Checks[5] = B[2] /\ Checks[6] = B[3] /\ Checks[7] = B[4]
  <2>1. Checks[3 + 1] = B[1] /\ Checks[3 + 2] = B[2] /\ Checks[3 + 3] = B[3] /\ Checks[3 + 4] = B[4]
    BY <1>8
  <2>2. 3 + 1 = 4 /\ 3 + 2 = 5 /\ 3 + 3 = 6 /\ 3 + 4 = 7
    OBVIOUS
  <2> QED
    BY <2>1, <2>2
<1> QED
    BY <1>3, <1>5, <1>7, <1>9

(* What the proofs below need to know of them.                               *)
LEMMA ChecksKinds ==
    ASSUME agent \in PatternAgents
    PROVE  /\ Len(Checks) \in Nat /\ DOMAIN Checks = 1 .. Len(Checks)
           /\ \A i \in DOMAIN Checks :
                 /\ Checks[i].how \in {"each", "lacks", "first", "broken", "logs"}
                 /\ Checks[i].how = "logs" =>
                        /\ agent = "blue_team" /\ Checks[i].globs \subseteq LogKinds
                        /\ \A j \in DOMAIN Checks : j > i => Checks[j].how = "logs"
                 /\ Checks[i].how \in {"lacks", "first"} => agent = "blue_team"
                 /\ agent = "red_team" => Checks[i].how = "each" /\ Checks[i].globs = {"py"}
                 /\ Checks[i].how = "lacks" =>
                        \A j \in DOMAIN Checks : j # i /\ Checks[j].how = "lacks" =>
                            Checks[i].marks \cap Checks[j].marks = {}
<1> USE DEF Each, Lacks, First, Broken, Discover, Check
<1>1. CASE agent = "red_team"
  <2>1. \A i \in 1 .. 5 : Checks[i].how = "each" /\ Checks[i].globs = {"py"}
      BY <1>1, RedChecksAre
  <2>2. Len(Checks) = 5 /\ DOMAIN Checks = 1 .. 5
      BY <1>1, RedChecksAre
  <2> QED
      BY <1>1, <2>1, <2>2
<1>2. CASE agent = "cloud_security"
  <2>1. \A i \in 1 .. 4 : Checks[i].how \in {"each", "broken"}
      BY <1>2, CloudChecksAre
  <2>2. Len(Checks) = 4 /\ DOMAIN Checks = 1 .. 4
      BY <1>2, CloudChecksAre
  <2> QED
      BY <1>2, <2>1, <2>2
<1>3. CASE agent = "blue_team"
  <2> DEFINE hows == <<"lacks", "first", "lacks", "logs", "logs", "logs", "logs">>
  <2>1. \A i \in 1 .. 7 : Checks[i].how = hows[i]
      BY <1>3, BlueChecksAre
  <2>2. \A i \in 1 .. 7 : i \in {4, 5, 6, 7} => Checks[i].globs \subseteq LogKinds
      BY <1>3, BlueChecksAre DEF LogKinds
  <2>3. \A i, j \in 1 .. 7 : i > j /\ hows[j] = "logs" => hows[i] = "logs"
      OBVIOUS
  <2>4. \A i \in 1 .. 7 : hows[i] = "logs" => i \in {4, 5, 6, 7}
      OBVIOUS
  <2>5. \A i \in 1 .. 7 : hows[i] = "lacks" => i \in {1, 3}
      OBVIOUS
  <2>6. Checks[1].marks \cap Checks[3].marks = {}
      BY <1>3, BlueChecksAre
  <2>7. \A i \in 1 .. 7 : hows[i] \in {"each", "lacks", "first", "broken", "logs"}
      OBVIOUS
  <2> HIDE DEF hows
  <2>8. Len(Checks) = 7 /\ DOMAIN Checks = 1 .. 7
      BY <1>3, BlueChecksAre
  <2> SUFFICES ASSUME NEW i \in 1 .. 7
               PROVE  /\ Checks[i].how = "logs" =>
                             /\ Checks[i].globs \subseteq LogKinds
                             /\ \A j \in 1 .. 7 : j > i => Checks[j].how = "logs"
                      /\ Checks[i].how = "lacks" =>
                             \A j \in 1 .. 7 : j # i /\ Checks[j].how = "lacks" =>
                                 Checks[i].marks \cap Checks[j].marks = {}
      BY <1>3, <2>1, <2>7, <2>8
  <2>9. Checks[i].how = "logs" =>
             /\ Checks[i].globs \subseteq LogKinds
             /\ \A j \in 1 .. 7 : j > i => Checks[j].how = "logs"
      BY <2>1, <2>2, <2>3, <2>4
  <2>10. Checks[i].how = "lacks" =>
             \A j \in 1 .. 7 : j # i /\ Checks[j].how = "lacks" =>
                 Checks[i].marks \cap Checks[j].marks = {}
      BY <2>1, <2>5, <2>6
  <2> QED
      BY <2>9, <2>10
<1> QED
    BY <1>1, <1>2, <1>3 DEF PatternAgents

(* The log checks look for every kind of log file.                           *)
LEMMA GlobsCover ==
    ASSUME agent = "blue_team", NEW k \in LogKinds
    PROVE  \E i \in DOMAIN Checks : Checks[i].how = "logs" /\ k \in Checks[i].globs
BY BlueChecksAre DEF LogKinds, Discover, Check

(* The names of verdicts on logs, of a chain and of the end.                 *)
Verdicts == {"chain", "brute_force", "scanning", "quiet_logs", "incident", "completed"}
    \cup LineMarks

\* No pattern has the name of a verdict.
LEMMA PatternsAreNoVerdicts ==
    ASSUME agent \in PatternAgents
    PROVE  PatternMarks \cap Verdicts = {}
<1> USE DEF Each, Lacks, First, Broken, Discover, Check, Verdicts, LineMarks
<1> SUFFICES ASSUME NEW i \in DOMAIN Checks, NEW m \in Checks[i].marks, m \in Verdicts
             PROVE  FALSE
    BY DEF PatternMarks
<1>1. CASE agent = "red_team"
    BY <1>1, RedChecksAre
<1>2. CASE agent = "cloud_security"
    BY <1>2, CloudChecksAre
<1>3. CASE agent = "blue_team"
    BY <1>3, BlueChecksAre
<1> QED
    BY <1>1, <1>2, <1>3 DEF PatternAgents

(* The steps of an attack path.                                              *)
Steps == {"credential", "weak_auth", "sql", "eval", "exec", "pickle", "privilege", "internal_host"}

\* The patterns that are a step are those of the attack path.
LEMMA StepsAre ==
    DOMAIN StepOf = Steps
BY DEF StepOf, Steps

\* The red team looks for every step of an attack path.
LEMMA RedLooksForSteps ==
    ASSUME agent = "red_team", NEW m \in Steps
    PROVE  \E i \in DOMAIN Checks : m \in Checks[i].marks
BY RedChecksAre DEF Steps, Each, Check

\* A pattern of some check.
LEMMA PatternMarksAre ==
    \A m : m \in PatternMarks <=> \E i \in DOMAIN Checks : m \in Checks[i].marks
BY DEF PatternMarks

(* Counting.                                                                 *)

\* The patterns that are a step of an attack path are finitely many.
LEMMA StepsAreFinite ==
    IsFiniteSet(Steps)
<1> DEFINE A == {"credential"} \cup {"weak_auth"}
           B == A \cup {"sql"}
           C == B \cup {"eval"}
           D == C \cup {"exec"}
           E == D \cup {"pickle"}
           F == E \cup {"privilege"}
<1>1. IsFiniteSet(A)
    BY FS_Singleton, FS_AddElement
<1> HIDE DEF A
<1>2. IsFiniteSet(B)
    BY <1>1, FS_AddElement
<1> HIDE DEF B
<1>3. IsFiniteSet(C)
    BY <1>2, FS_AddElement
<1> HIDE DEF C
<1>4. IsFiniteSet(D)
    BY <1>3, FS_AddElement
<1> HIDE DEF D
<1>5. IsFiniteSet(E)
    BY <1>4, FS_AddElement
<1> HIDE DEF E
<1>6. IsFiniteSet(F)
    BY <1>5, FS_AddElement
<1> HIDE DEF F
<1>7. IsFiniteSet(F \cup {"internal_host"})
    BY <1>6, FS_AddElement
<1>8. Steps = F \cup {"internal_host"}
    BY DEF Steps, A, B, C, D, E, F
<1> QED
    BY <1>7, <1>8

\* A set has two elements or more if and only if two of its elements differ.
LEMMA TwoOrMore ==
    ASSUME NEW S, IsFiniteSet(S)
    PROVE  Cardinality(S) >= 2 <=> \E x, y \in S : x # y
<1>1. ASSUME Cardinality(S) >= 2 PROVE \E x, y \in S : x # y
  <2>1. PICK x : x \in S
      BY <1>1, FS_EmptySet
  <2>2. IsFiniteSet(S \ {x}) /\ Cardinality(S \ {x}) = Cardinality(S) - 1
      BY <2>1, FS_RemoveElement
  <2>3. Cardinality(S) \in Nat /\ Cardinality(S \ {x}) \in Nat
      BY <2>2, FS_CardinalityType
  <2>4. Cardinality(S \ {x}) # 0
      BY <1>1, <2>2, <2>3
  <2>5. S \ {x} # {}
      BY <2>2, <2>4, FS_EmptySet
  <2> QED
      BY <2>1, <2>5
<1>2. ASSUME NEW x \in S, NEW y \in S, x # y PROVE Cardinality(S) >= 2
  <2>1. IsFiniteSet(S \ {x}) /\ Cardinality(S \ {x}) = Cardinality(S) - 1
      BY FS_RemoveElement
  <2>2. Cardinality(S) \in Nat /\ Cardinality(S \ {x}) \in Nat
      BY <2>1, FS_CardinalityType
  <2>3. Cardinality(S \ {x}) # 0
      BY <1>2, <2>1, FS_EmptySet
  <2> QED
      BY <2>1, <2>2, <2>3
<1> QED
    BY <1>1, <1>2

(* A chain is told where two different steps were.                           *)
LEMMA ChainedIs ==
    ASSUME NEW reported, NEW k
    PROVE  k \in Chained(reported) <=>
               /\ k \in Keys \ {""}
               /\ \E m, n \in Titles(reported, k) : StepOf[m] # StepOf[n]
<1> DEFINE M == Titles(reported, k)
           S == {StepOf[m] : m \in M}
           g == [m \in M |-> StepOf[m]]
<1>1. IsFiniteSet(M)
    BY StepsAreFinite, StepsAre, FS_Subset DEF Titles
<1>2. IsFiniteSet(S)
  <2>1. g \in Surjection(M, S)
      BY DEF Surjection
  <2> HIDE DEF g, M, S
  <2> QED
      BY <1>1, <2>1, FS_Surjection
<1>3. Cardinality(S) >= 2 <=> \E x, y \in S : x # y
  <2> HIDE DEF S
  <2> QED
      BY <1>2, TwoOrMore
<1>4. k \in Chained(reported) <=> k \in Keys \ {""} /\ Cardinality(S) >= 2
    BY DEF Chained
<1>5. (\E x, y \in S : x # y) <=> \E m, n \in M : StepOf[m] # StepOf[n]
  <2> HIDE DEF M
  <2> QED
      OBVIOUS
<1> QED
    BY <1>3, <1>4, <1>5

\* Adding to a bag makes one copy more of what is added and no other of the rest.
LEMMA BagAdds ==
    ASSUME NEW b, Bag(b), NEW x
    PROVE  /\ Bag(BagAdd(b, x))
           /\ \A k : Copies(BagAdd(b, x), k) = Copies(b, k) + (IF k = x THEN 1 ELSE 0)
<1>1. b \in [DOMAIN b -> Nat]
    BY DEF Bag
<1>2. CASE x \in DOMAIN b
    BY <1>1, <1>2 DEF Bag, BagAdd, Copies
<1>3. CASE x \notin DOMAIN b
    BY <1>1, <1>3 DEF Bag, BagAdd, Copies
<1> QED
    BY <1>2, <1>3

(* One more line adds what it holds to the counts.                           *)
LEMMA CountsOne ==
    ASSUME NEW c, NEW lines, Counted(c, lines), NEW l, l \notin lines
    PROVE  Counted(Count(l[1], c, LineAt(l)), lines \cup {l})
<1> DEFINE d == Count(l[1], c, LineAt(l))
           more == lines \cup {l}
<1>1. /\ IsFiniteSet(lines) /\ Bag(c.failed) /\ Bag(c.probes)
      /\ \A k : Copies(c.failed, k) = Cardinality(Failures(lines, k))
      /\ \A k : Copies(c.probes, k) = Cardinality(Probings(lines, k))
      /\ \A x : x \in c.found <=> \E k \in lines : \E m \in LineAt(k).marks : x = <<m, k[1]>>
    BY DEF Counted
<1>2. /\ d.failed = IF LineAt(l).failed THEN BagAdd(c.failed, <<l[1], LineAt(l).source>>)
             ELSE c.failed
      /\ d.probes = IF LineAt(l).probe THEN BagAdd(c.probes, Origin(l)) ELSE c.probes
      /\ d.found = c.found \cup {<<m, l[1]>> : m \in LineAt(l).marks}
      /\ d = [failed |-> d.failed, probes |-> d.probes, found |-> d.found]
    BY DEF Count, Origin
<1> HIDE DEF d
<1>3. IsFiniteSet(more)
    BY <1>1, FS_AddElement
<1>4. ASSUME NEW k
      PROVE  Cardinality(Failures(more, k)) =
                 Cardinality(Failures(lines, k))
                   + (IF LineAt(l).failed /\ k = <<l[1], LineAt(l).source>> THEN 1 ELSE 0)
  <2>1. IsFiniteSet(Failures(lines, k)) /\ l \notin Failures(lines, k)
      BY <1>1, FS_Subset DEF Failures
  <2>2. Cardinality(Failures(lines, k)) \in Nat
      BY <2>1, FS_CardinalityType
  <2>3. CASE LineAt(l).failed /\ k = <<l[1], LineAt(l).source>>
    <3>1. Failures(more, k) = Failures(lines, k) \cup {l}
        BY <2>3 DEF Failures
    <3> QED
        BY <2>1, <2>2, <2>3, <3>1, FS_AddElement
  <2>4. CASE ~(LineAt(l).failed /\ k = <<l[1], LineAt(l).source>>)
    <3>1. Failures(more, k) = Failures(lines, k)
        BY <2>4 DEF Failures
    <3> QED
        BY <2>2, <2>4, <3>1
  <2> QED
      BY <2>3, <2>4
<1>5. ASSUME NEW k
      PROVE  Cardinality(Probings(more, k)) =
                 Cardinality(Probings(lines, k))
                   + (IF LineAt(l).probe /\ k = Origin(l) THEN 1 ELSE 0)
  <2>1. IsFiniteSet(Probings(lines, k)) /\ l \notin Probings(lines, k)
      BY <1>1, FS_Subset DEF Probings
  <2>2. Cardinality(Probings(lines, k)) \in Nat
      BY <2>1, FS_CardinalityType
  <2>3. CASE LineAt(l).probe /\ k = Origin(l)
    <3>1. Probings(more, k) = Probings(lines, k) \cup {l}
        BY <2>3 DEF Probings
    <3> QED
        BY <2>1, <2>2, <2>3, <3>1, FS_AddElement
  <2>4. CASE ~(LineAt(l).probe /\ k = Origin(l))
    <3>1. Probings(more, k) = Probings(lines, k)
        BY <2>4 DEF Probings
    <3> QED
        BY <2>2, <2>4, <3>1
  <2> QED
      BY <2>3, <2>4
<1>6. \A k : Cardinality(Failures(lines, k)) \in Nat /\ Cardinality(Probings(lines, k)) \in Nat
  <2> SUFFICES ASSUME NEW k
               PROVE  Cardinality(Failures(lines, k)) \in Nat
                          /\ Cardinality(Probings(lines, k)) \in Nat
      OBVIOUS
  <2>1. IsFiniteSet(Failures(lines, k)) /\ IsFiniteSet(Probings(lines, k))
      BY <1>1, FS_Subset DEF Failures, Probings
  <2> QED
      BY <2>1, FS_CardinalityType
<1>7. Bag(d.failed) /\ \A k : Copies(d.failed, k) = Cardinality(Failures(more, k))
  <2>1. CASE LineAt(l).failed
    <3>1. /\ Bag(d.failed)
          /\ \A k : Copies(d.failed, k) =
                    Copies(c.failed, k) + (IF k = <<l[1], LineAt(l).source>> THEN 1 ELSE 0)
        BY <1>1, <1>2, <2>1, BagAdds
    <3> QED
        BY <1>1, <1>4, <2>1, <3>1
  <2>2. CASE ~LineAt(l).failed
    <3>1. d.failed = c.failed
        BY <1>2, <2>2
    <3>2. ASSUME NEW k PROVE Cardinality(Failures(more, k)) = Cardinality(Failures(lines, k))
        BY <1>4, <1>6, <2>2
    <3> QED
        BY <1>1, <3>1, <3>2
  <2> QED
      BY <2>1, <2>2
<1>8. Bag(d.probes) /\ \A k : Copies(d.probes, k) = Cardinality(Probings(more, k))
  <2>1. CASE LineAt(l).probe
    <3>1. /\ Bag(d.probes)
          /\ \A k : Copies(d.probes, k) = Copies(c.probes, k) + (IF k = Origin(l) THEN 1 ELSE 0)
        BY <1>1, <1>2, <2>1, BagAdds
    <3> QED
        BY <1>1, <1>5, <2>1, <3>1
  <2>2. CASE ~LineAt(l).probe
    <3>1. d.probes = c.probes
        BY <1>2, <2>2
    <3>2. ASSUME NEW k PROVE Cardinality(Probings(more, k)) = Cardinality(Probings(lines, k))
        BY <1>5, <1>6, <2>2
    <3> QED
        BY <1>1, <3>1, <3>2
  <2> QED
      BY <2>1, <2>2
<1>9. \A x : x \in d.found <=> \E k \in more : \E m \in LineAt(k).marks : x = <<m, k[1]>>
    BY <1>1, <1>2
<1> HIDE DEF more
<1>10. Counted(d, more)
    BY <1>2, <1>3, <1>7, <1>8, <1>9 DEF Counted
<1> QED
    BY <1>10 DEF d, more

(* What the analysis looks at in a log file.                                 *)
LEMMA LinesAre ==
    ASSUME tree \in Trees, NEW f \in Files
    PROVE  /\ Len(Lines(f)) \in 0 .. MaxLines /\ DOMAIN Lines(f) = 1 .. Len(Lines(f))
           /\ \A i \in DOMAIN Lines(f) : Lines(f)[i] \in LogLine
<1>1. tree.lines[f] \in Seq(LogLine)
    BY TreesAssumption
<1>2. MaxLines \in Nat
    BY LimitsAssumption
<1> DEFINE n == Len(tree.lines[f])
           m == Min({n, MaxLines})
<1>3. n \in Nat /\ \A i \in 1 .. n : tree.lines[f][i] \in LogLine
    BY <1>1
<1> HIDE DEF n
<1>4. m \in Nat /\ m <= n /\ m <= MaxLines
    BY <1>2, <1>3 DEF Min
<1>5. Lines(f) = [i \in 1 .. m |-> tree.lines[f][i]]
    BY DEF Lines, n
<1> HIDE DEF m
<1>6. DOMAIN Lines(f) = 1 .. m /\ \A i \in 1 .. m : Lines(f)[i] = tree.lines[f][i]
    BY <1>5
<1>7. Len(Lines(f)) = m
  <2>1. \A i \in 1 .. m : tree.lines[f][i] \in LogLine
      BY <1>3, <1>4
  <2>2. Lines(f) \in [1 .. m -> LogLine]
      BY <1>5, <2>1
  <2> QED
      BY <1>4, <1>6, <2>2
<1> QED
    BY <1>2, <1>3, <1>4, <1>6, <1>7

(* A file more adds its lines.                                               *)
LEMMA IngestCounts ==
    ASSUME tree \in Trees, NEW f \in Files, NEW read, f \notin read,
           NEW c, Counted(c, LinesIn(read))
    PROVE  Counted(Ingest(f, c), LinesIn(read \cup {f}))
<1> DEFINE N == Len(Lines(f))
           F(h, i) == IF i = 0 THEN c ELSE Count(f, h[i - 1], Lines(f)[i])
           T(n) == LinesIn(read) \cup {<<f, i>> : i \in 1 .. n}
           Good(h, n) == /\ h = [i \in 0 .. n |-> F(h, i)]
                         /\ Counted(h[n], T(n))
           S == {n \in Nat : n <= N => \E h : Good(h, n)}
<1>0. N \in Nat /\ N <= MaxLines /\ DOMAIN Lines(f) = 1 .. N /\ MaxLines \in Nat
    BY LinesAre, LimitsAssumption
<1>1. 0 \in S
  <2> DEFINE h == [i \in 0 .. 0 |-> c]
  <2>1. h = [i \in 0 .. 0 |-> F(h, i)]
    OBVIOUS
  <2>2. h[0] = c /\ T(0) = LinesIn(read)
    OBVIOUS
  <2>3. Good(h, 0)
    BY <2>1, <2>2
  <2> QED
    BY <2>3
<1>2. ASSUME NEW n \in Nat, n + 1 <= N, NEW h, Good(h, n) PROVE \E g : Good(g, n + 1)
  <2> DEFINE l == <<f, n + 1>>
             v == Count(f, h[n], Lines(f)[n + 1])
             g == [i \in 0 .. n + 1 |-> IF i = n + 1 THEN v ELSE h[i]]
  <2>1. h = [i \in 0 .. n |-> F(h, i)] /\ Counted(h[n], T(n))
    BY <1>2
  <2>2. g = [i \in 0 .. n + 1 |-> F(g, i)]
    <3>1. ASSUME NEW i \in 0 .. n + 1 PROVE g[i] = F(g, i)
      <4>1. CASE i = n + 1
        BY <4>1
      <4>2. CASE i # n + 1
        <5>1. i \in 0 .. n /\ (i # 0 => i - 1 \in 0 .. n + 1 /\ i - 1 # n + 1)
          BY <4>2
        <5>2. h[i] = F(h, i)
          <6> HIDE DEF F
          <6> QED
            BY <2>1, <5>1
        <5>3. g[i] = h[i] /\ (i # 0 => g[i - 1] = h[i - 1])
          BY <4>2, <5>1
        <5> HIDE DEF g
        <5> QED
          BY <5>2, <5>3
      <4> QED
        BY <4>1, <4>2
    <3> QED
      BY <3>1
  <2>3. g[n + 1] = v
    OBVIOUS
  <2>4. l \notin T(n)
    <3>1. \A k \in LinesIn(read) : k[1] \in read
      BY DEF LinesIn
    <3> QED
      BY <3>1
  <2>5. T(n + 1) = T(n) \cup {l}
    OBVIOUS
  <2>6. l[1] = f /\ LineAt(l) = Lines(f)[n + 1]
    BY DEF LineAt
  <2>7. Counted(v, T(n + 1))
    <3>1. Counted(Count(l[1], h[n], LineAt(l)), T(n) \cup {l})
      <4> HIDE DEF T, l
      <4> QED
        BY <2>1, <2>4, CountsOne
    <3> HIDE DEF T, l
    <3> QED
      BY <2>5, <2>6, <3>1
  <2>8. Good(g, n + 1)
    BY <2>2, <2>3, <2>7
  <2> HIDE DEF Good
  <2> QED
    BY <2>8
<1> HIDE DEF Good
<1>3. PICK h : Good(h, N)
  <2>1. \A n \in S : n + 1 \in S
    BY <1>0, <1>2
  <2>2. S \in SUBSET Nat
    OBVIOUS
  <2>3. \A n \in Nat : n \in S
    <3> HIDE DEF S
    <3> QED
      BY <1>1, <2>1, <2>2, NatSetInduction
  <2> QED
    BY <1>0, <2>3
<1>4. h = [i \in 0 .. N |-> F(h, i)] /\ Counted(h[N], T(N))
    BY <1>3 DEF Good
<1> DEFINE Rec(g) == g = [i \in 0 .. N |-> F(g, i)]
           after == CHOOSE g : Rec(g)
<1>5. Rec(after)
  <2>1. Rec(h)
    BY <1>4
  <2> HIDE DEF Rec
  <2> QED
    BY <2>1
<1>6. ASSUME NEW g, Rec(g)
      PROVE  /\ g[0] = c
             /\ \A n \in Nat : n + 1 <= N => g[n + 1] = Count(f, g[n], Lines(f)[n + 1])
  <2>1. \A i \in 0 .. N : g[i] = F(g, i)
    <3> HIDE DEF F, N
    <3> QED
      BY <1>6
  <2>2. 0 \in 0 .. N
    BY <1>0
  <2>3. ASSUME NEW n \in Nat, n + 1 <= N
        PROVE  n + 1 \in 0 .. N /\ n + 1 # 0 /\ (n + 1) - 1 = n
    BY <1>0, <2>3
  <2> HIDE DEF N
  <2> QED
    BY <2>1, <2>2, <2>3
<1>7. after[N] = h[N]
  <2> DEFINE E == {n \in Nat : n <= N => after[n] = h[n]}
  <2>1. Rec(h)
    BY <1>4
  <2>2. 0 \in E /\ \A n \in E : n + 1 \in E
    <3> HIDE DEF Rec, after, N
    <3> QED
      BY <1>0, <1>5, <1>6, <2>1
  <2>3. E \in SUBSET Nat
    OBVIOUS
  <2>4. \A n \in Nat : n \in E
    <3> HIDE DEF E
    <3> QED
      BY <2>2, <2>3, NatSetInduction
  <2> HIDE DEF after, N
  <2> QED
    BY <1>0, <2>4
<1>8. Ingest(f, c) = after[N]
    BY DEF Ingest
<1>9. T(N) = LinesIn(read \cup {f})
    BY <1>0 DEF LinesIn
<1> QED
    BY <1>4, <1>7, <1>8, <1>9

(* Nothing is counted before the first file.                                 *)
LEMMA NothingCounts ==
    Counted(Nothing, LinesIn({}))
<1>1. LinesIn({}) = {}
    BY DEF LinesIn
<1>2. DOMAIN EmptyBag = {} /\ Bag(EmptyBag)
    BY DEF EmptyBag, SetToBag, Bag
<1>3. \A k : Failures({}, k) = {} /\ Probings({}, k) = {} /\ Copies(EmptyBag, k) = 0
    BY <1>2 DEF Failures, Probings, Copies
<1>4. /\ Nothing.failed = EmptyBag /\ Nothing.probes = EmptyBag /\ Nothing.found = {}
      /\ Nothing = [failed |-> Nothing.failed, probes |-> Nothing.probes, found |-> Nothing.found]
    BY DEF Nothing
<1> QED
    BY <1>1, <1>2, <1>3, <1>4, FS_EmptySet DEF Counted

(* The steps of the search.                                                  *)

\* What the invariant speaks of depends on the agent and the target alone.
LEMMA SearchFrame ==
    ASSUME UNCHANGED <<agent, tree>>
    PROVE  /\ Checks' = Checks /\ Present' = Present /\ PatternMarks' = PatternMarks
           /\ LogFiles' = LogFiles
           /\ \A i : Globbed(i)' = Globbed(i) /\ With(i)' = With(i)
           /\ \A m, f : LooksFor(m, f)' <=> LooksFor(m, f)
           /\ Keys' = Keys /\ Chains' = Chains
<1>1. Checks' = Checks /\ Present' = Present
    BY DEF Checks, Present
<1>2. \A i : Globbed(i)' = Globbed(i)
    BY <1>1 DEF Globbed
<1>3. \A i : With(i)' = With(i)
    BY <1>1 DEF With, HasPattern
<1>4. \A m, f : LooksFor(m, f)' <=> LooksFor(m, f)
    BY <1>1, <1>3 DEF LooksFor
<1>5. Keys' = Keys /\ Chains' = Chains
  <2>1. Keys' = Keys /\ \A k : PythonOf(k)' = PythonOf(k)
      BY DEF Keys, PythonOf
  <2>2. \A k : HasTwoSteps(PythonOf(k))' <=> HasTwoSteps(PythonOf(k))
      BY <2>1 DEF HasTwoSteps
  <2> QED
      BY <2>1, <2>2 DEF Chains
<1> QED
    BY <1>1, <1>2, <1>3, <1>4, <1>5 DEF PatternMarks, LogFiles

(* A file with a pattern of a check is one that its walk comes to.           *)
LEMMA WithIsGlobbed ==
    ASSUME NEW i PROVE With(i) \subseteq Globbed(i)
BY DEF With, Globbed, HasPattern

\* The search is sound before it begins.
LEMMA SearchBegins ==
    ASSUME agent \in PatternAgents, InitRun, InitSource PROVE SearchInv
<1>1. SearchShape
  <2>1. /\ at = "start" /\ findings = {} /\ tree \in Trees /\ onDisk = Present /\ check = 1
        /\ todo = {} /\ hit = FALSE
      BY DEF InitRun, InitSource
  <2>2. ~hit /\ hit \in BOOLEAN
      BY <2>1
  <2>3. check \in Nat \ {0}
      BY <2>1
  <2>4. todo \subseteq Present /\ onDisk \subseteq Present
      BY <2>1
  <2> QED
      BY <2>1, <2>2, <2>3, <2>4 DEF SearchShape, Looking
<1>2. SaysWhatIsThere
    BY DEF InitRun, SaysWhatIsThere
<1>3. SaysAll
    BY ChecksKinds DEF InitRun, InitSource, SaysAll, Said
<1> QED
    BY <1>1, <1>2, <1>3 DEF SearchInv

(* What is said stays said.                                                  *)
LEMMA SaidStays ==
    ASSUME UNCHANGED <<agent, tree>>, findings \subseteq findings', NEW i, Said(i)
    PROVE  Said(i)'
<1>1. Checks' = Checks /\ With(i)' = With(i)
    BY SearchFrame
<1> QED
    BY <1>1 DEF Said

(* More findings about files, each of what is there, keep the findings sound.*)
LEMMA SoundFindings ==
    ASSUME agent \in PatternAgents, SaysWhatIsThere, UNCHANGED <<agent, tree>>,
           NEW found, findings' = findings \cup found,
           at' \in Looking \cup {"logs"} =>
               /\ at \in Looking \cup {"logs"}
               /\ \A x \in found : \E m \in PatternMarks, p \in Files \cup {"target"} :
                      x = <<m, p>>,
           \A m \in PatternMarks, f \in Files : <<m, f>> \in found => LooksFor(m, f),
           \A k \in Keys : <<"chain", k>> \in found => k \in Chains
    PROVE  SaysWhatIsThere'
BY SearchFrame DEF SaysWhatIsThere

(* A walk's findings about one file.                                         *)
LEMMA FoundInFile ==
    ASSUME agent \in PatternAgents, check \in DOMAIN Checks, NEW f \in Files, f \in Globbed(check),
               NEW S \in SUBSET Seen(f)
    PROVE  LET found == {<<m, f>> : m \in S} IN
           /\ \A x \in found : \E m \in PatternMarks, p \in Files \cup {"target"} : x = <<m, p>>
           /\ \A m \in PatternMarks, g \in Files : <<m, g>> \in found => LooksFor(m, g)
           /\ \A k : <<"chain", k>> \notin found
           /\ \A m : <<m, "target">> \notin found
<1>1. ASSUME NEW m \in S PROVE m \in PatternMarks /\ LooksFor(m, f)
  <2>1. m \in Checks[check].marks \cap tree.marks[f] /\ f \in tree.readable
      BY DEF Seen, Current
  <2>2. f \in With(check)
      BY <2>1 DEF Globbed, With, HasPattern
  <2> QED
      BY <2>1, <2>2, PatternMarksAre DEF LooksFor
<1>2. "chain" \notin PatternMarks
    BY PatternsAreNoVerdicts DEF Verdicts
<1>3. f # "target"
    BY TreesAssumption
<1> QED
    BY <1>1, <1>2, <1>3

(* In a directory that is whole there is a file.                             *)
LEMMA WholeIsDir ==
    ASSUME tree \in Trees, Intact, tree.isDir PROVE IsDir
<1>1. Present # {}
    BY TreesAssumption DEF Present
<1> QED
    BY <1>1 DEF Intact, IsDir

(* The premises of every step of the search.                                 *)
Searching == agent \in PatternAgents /\ SearchShape /\ SaysWhatIsThere
                 /\ (Intact /\ tree.isDir => SaysAll)

\* The first check is next: nothing is said yet.
LEMMA BeginSearch ==
    ASSUME Searching, Begin PROVE SearchInv'
<1>1. /\ at = "start" /\ at' = "check" /\ findings' = findings
      /\ UNCHANGED <<agent, tree, onDisk, check, todo, hit>>
    BY DEF Begin, Continue, source, walk
<1>2. SearchShape'
    BY <1>1, SearchFrame DEF Searching, SearchShape, Looking
<1>3. SaysWhatIsThere'
    BY <1>1, SearchFrame DEF Searching, SaysWhatIsThere, Looking
<1>4. ASSUME Intact', tree'.isDir PROVE SaysAll'
  <2>1. SaysAll
      BY <1>1, <1>4, SearchFrame DEF Searching, Intact
  <2> QED
      BY <1>1, <2>1, SearchFrame, SaidStays DEF SaysAll
<1> QED
    BY <1>2, <1>3, <1>4 DEF SearchInv

\* A check that is passed over has nothing to say of a directory that is whole,
\* unless it is the broken one.
LEMMA SkipSearch ==
    ASSUME Searching, SkipCheck PROVE SearchInv'
<1>1. /\ at = "check" /\ at' = "check" /\ findings' = findings /\ check <= Len(Checks)
      /\ check' = check + 1 /\ todo' = {} /\ hit' = FALSE
      /\ UNCHANGED <<agent, tree, onDisk>>
    BY DEF SkipCheck, Continue, NextCheck
<1>2. SearchShape'
  <2>1. Present' = Present
      BY <1>1, SearchFrame
  <2>2. check' \in Nat \ {0}
      BY <1>1 DEF Searching, SearchShape
  <2>4. ~hit' /\ hit' \in BOOLEAN
      BY <1>1
  <2>3. tree' \in Trees /\ onDisk' \subseteq Present' /\ todo' \subseteq Present'
      BY <1>1, <2>1 DEF Searching, SearchShape
  <2> QED
      BY <1>1, <2>2, <2>3, <2>4 DEF SearchShape, Looking
<1>3. SaysWhatIsThere'
    BY <1>1, SearchFrame DEF Searching, SaysWhatIsThere, Looking
<1>4. ASSUME Intact', tree'.isDir PROVE SaysAll'
  <2>1. SaysAll /\ Intact /\ tree.isDir
      BY <1>1, <1>4, SearchFrame DEF Searching, Intact
  <2>2. Current.how = "broken"
      BY <2>1, WholeIsDir DEF SkipCheck, How, Searching, SearchShape
  <2>3. Said(check)
      BY <2>2 DEF Said, Current
  <2>4. \A i \in DOMAIN Checks : i < check' => Said(i)
      BY <1>1, <2>1, <2>3, ChecksKinds DEF SaysAll, Searching, SearchShape
  <2>5. \A i \in DOMAIN Checks : i < check => i < check'
      BY <1>1, ChecksKinds DEF Searching, SearchShape
  <2> QED
      BY <1>1, <2>1, <2>4, <2>5, SearchFrame, SaidStays DEF SaysAll
<1> QED
    BY <1>2, <1>3, <1>4 DEF SearchInv

\* A walk begins with all files of its globs that are there.
LEMMA StartSearch ==
    ASSUME Searching, StartWalk PROVE SearchInv'
<1>1. /\ at = "check" /\ at' = "walk" /\ findings' = findings /\ check <= Len(Checks)
      /\ todo' = onDisk \cap Globbed(check)
      /\ UNCHANGED <<agent, tree, onDisk, check, hit>>
    BY DEF StartWalk, Continue, Searching, SearchShape, Globbed, Current
<1>2. check \in DOMAIN Checks
    BY <1>1, ChecksKinds DEF Searching, SearchShape
<1>3. SearchShape'
    BY <1>1, <1>2, SearchFrame DEF Searching, SearchShape, Looking
<1>4. SaysWhatIsThere'
    BY <1>1, SearchFrame DEF Searching, SaysWhatIsThere, Looking
<1>5. ASSUME Intact', tree'.isDir PROVE SaysAll'
  <2>1. SaysAll /\ Intact /\ tree.isDir
      BY <1>1, <1>5, SearchFrame DEF Searching, Intact
  <2>2. With(check) \subseteq todo'
      BY <1>1, <2>1, WithIsGlobbed DEF Intact, Globbed
  <2>3. ~hit'
      BY <1>1 DEF Searching, SearchShape
  <2>4. SaidSoFar(check)'
    <3>1. Checks' = Checks /\ With(check)' = With(check)
        BY <1>1, SearchFrame DEF With, HasPattern
    <3> QED
        BY <1>1, <2>2, <2>3, <3>1 DEF SaidSoFar
  <2> QED
      BY <1>1, <2>1, <2>4, SearchFrame, SaidStays DEF SaysAll
<1> QED
    BY <1>3, <1>4, <1>5 DEF SearchInv

\* A file of a check that reports every mark.
LEMMA ReadSearch ==
    ASSUME Searching, NEW f \in Files, ReadFile(f) PROVE SearchInv'
<1> DEFINE found == {<<m, f>> : m \in Seen(f)}
<1>1. /\ at = "walk" /\ at' = "walk" /\ findings' = findings \cup found
      /\ f \in todo /\ todo' = todo \ {f} /\ How("each")
      /\ UNCHANGED <<agent, tree, onDisk, check, hit>>
    BY DEF ReadFile, Continue
<1>2. check \in DOMAIN Checks /\ Checks[check].how = "each"
    BY <1>1 DEF Searching, SearchShape, How, Current
<1>3. /\ \A x \in found : \E m \in PatternMarks, p \in Files \cup {"target"} : x = <<m, p>>
      /\ \A m \in PatternMarks, g \in Files : <<m, g>> \in found => LooksFor(m, g)
      /\ \A k : <<"chain", k>> \notin found
      /\ \A m : <<m, "target">> \notin found
    BY <1>1, <1>2, FoundInFile DEF Searching, SearchShape
<1>4. Seen(f) = IF f \in onDisk \cap tree.readable
          THEN Checks[check].marks \cap tree.marks[f] ELSE {}
    BY DEF Seen, Current
<1>5. \A m : m \in Seen(f) => <<m, f>> \in found
    OBVIOUS
<1> HIDE DEF found
<1>6. SearchShape'
    BY <1>1, SearchFrame DEF Searching, SearchShape, Looking
<1>7. SaysWhatIsThere'
    BY <1>1, <1>3, SoundFindings DEF Searching, Looking
<1>8. ASSUME Intact', tree'.isDir PROVE SaysAll'
  <2>1. SaysAll /\ Intact /\ tree.isDir
      BY <1>1, <1>8, SearchFrame DEF Searching, Intact
  <2>2. \A g \in With(check) \ todo' : \A m \in Checks[check].marks \cap tree.marks[g] :
            <<m, g>> \in findings'
    <3>1. \A m \in Checks[check].marks \cap tree.marks[f] : f \in With(check) => <<m, f>> \in found
        BY <1>1, <1>4, <1>5, <2>1 DEF Intact, With, HasPattern
    <3>2. \A g \in With(check) \ todo : \A m \in Checks[check].marks \cap tree.marks[g] :
              <<m, g>> \in findings
        BY <1>1, <1>2, <2>1 DEF SaysAll, SaidSoFar
    <3> QED
        BY <1>1, <3>1, <3>2
  <2>3. SaidSoFar(check)'
    <3>1. Checks' = Checks /\ With(check)' = With(check)
        BY <1>1, SearchFrame DEF With, HasPattern
    <3> QED
        BY <1>1, <1>2, <2>2, <3>1 DEF SaidSoFar
  <2>4. \A m : <<m, "target">> \in findings' => <<m, "target">> \in findings
      BY <1>1, <1>3
  <2> QED
      BY <1>1, <2>1, <2>3, <2>4, SearchFrame, SaidStays DEF SaysAll
<1> QED
    BY <1>6, <1>7, <1>8 DEF SearchInv

\* A file of a check that looks for the first one with a mark.
LEMMA SearchUntilFound ==
    ASSUME Searching, NEW f \in Files, ReadUntilFound(f) PROVE SearchInv'
<1> DEFINE seen  == Seen(f)
           first == IF "bare_except" \in seen THEN {"bare_except"} ELSE seen
           found == IF How("first") THEN {<<m, f>> : m \in first} ELSE {}
<1>1. /\ at = "walk" /\ at' = "walk" /\ findings' = findings \cup found
      /\ f \in todo /\ todo' = IF seen = {} THEN todo \ {f} ELSE {}
      /\ How("lacks") \/ How("first")
      /\ UNCHANGED <<agent, tree, onDisk, check>>
    BY DEF ReadUntilFound, Continue
<1>2. (hit' <=> seen # {}) /\ hit' \in BOOLEAN
    BY DEF ReadUntilFound
<1>3. check \in DOMAIN Checks /\ Checks[check].how \in {"lacks", "first"}
    BY <1>1 DEF Searching, SearchShape, How, Current
<1>4. first \subseteq seen /\ (seen # {} => first # {})
    OBVIOUS
<1>5. /\ \A x \in found : \E m \in PatternMarks, p \in Files \cup {"target"} : x = <<m, p>>
      /\ \A m \in PatternMarks, g \in Files : <<m, g>> \in found => LooksFor(m, g)
      /\ \A k : <<"chain", k>> \notin found
      /\ \A m : <<m, "target">> \notin found
  <2> DEFINE told == {<<m, f>> : m \in first}
  <2>1. /\ \A x \in told : \E m \in PatternMarks, p \in Files \cup {"target"} : x = <<m, p>>
        /\ \A m \in PatternMarks, g \in Files : <<m, g>> \in told => LooksFor(m, g)
        /\ \A k : <<"chain", k>> \notin told
        /\ \A m : <<m, "target">> \notin told
      BY <1>1, <1>3, <1>4, FoundInFile DEF Searching, SearchShape
  <2>2. found \subseteq told
      OBVIOUS
  <2> HIDE DEF told, found
  <2> QED
      BY <2>1, <2>2
<1>6. seen = IF f \in onDisk \cap tree.readable THEN Checks[check].marks \cap tree.marks[f] ELSE {}
    BY DEF Seen, Current
<1>7. Checks[check].how = "first" => \A m \in first : <<m, f>> \in found
    BY <1>1, <1>3 DEF How, Current
<1> HIDE DEF found, first, seen
<1>8. SearchShape'
  <2>1. Present' = Present /\ Globbed(check)' = Globbed(check) /\ Checks' = Checks
      BY <1>1, SearchFrame DEF Globbed
  <2>2. todo' \subseteq todo /\ (hit' => todo' = {})
      BY <1>1, <1>2
  <2> QED
      BY <1>1, <1>2, <2>1, <2>2 DEF Searching, SearchShape, Looking
<1>9. SaysWhatIsThere'
    BY <1>1, <1>5, SoundFindings DEF Searching, Looking
<1>10. ASSUME Intact', tree'.isDir PROVE SaysAll'
  <2>1. SaysAll /\ Intact /\ tree.isDir
      BY <1>1, <1>10, SearchFrame DEF Searching, Intact
  <2>2. f \in Globbed(check) /\ f \in onDisk
      BY <1>1, <2>1 DEF Searching, SearchShape, Intact
  <2>3. seen # {} <=> f \in With(check)
      BY <1>6, <2>1, <2>2 DEF Intact, With, HasPattern, Globbed
  <2>4. ~hit /\ With(check) \subseteq todo
    <3>1. SaidSoFar(check)
        BY <1>1, <2>1 DEF SaysAll
    <3>2. ~hit
        BY <1>1 DEF Searching, SearchShape
    <3> QED
        BY <1>3, <3>1, <3>2 DEF SaidSoFar
  <2>5. hit' => With(check) # {}
      BY <1>2, <2>3
  <2>6. hit' \/ With(check) \subseteq todo'
      BY <1>1, <1>2, <2>3, <2>4
  <2>7. Checks[check].how = "first" /\ hit' =>
            \E g \in With(check), m \in Checks[check].marks : <<m, g>> \in findings'
    <3> SUFFICES ASSUME Checks[check].how = "first", hit'
                 PROVE  \E g \in With(check), m \in Checks[check].marks : <<m, g>> \in findings'
        OBVIOUS
    <3>1. PICK m : m \in first
        BY <1>2, <1>4
    <3>2. m \in Checks[check].marks /\ f \in With(check)
        BY <1>4, <1>6, <2>3, <3>1
    <3> QED
        BY <1>1, <1>7, <3>1, <3>2
  <2>8. SaidSoFar(check)'
    <3>1. Checks' = Checks /\ With(check)' = With(check)
        BY <1>1, SearchFrame DEF With, HasPattern
    <3> QED
        BY <1>1, <1>3, <2>5, <2>6, <2>7, <3>1 DEF SaidSoFar
  <2>9. \A m : <<m, "target">> \in findings' => <<m, "target">> \in findings
      BY <1>1, <1>5
  <2> QED
      BY <1>1, <2>1, <2>8, <2>9, SearchFrame, SaidStays DEF SaysAll
<1> QED
    BY <1>8, <1>9, <1>10 DEF SearchInv

\* The discovery of log files says nothing.
LEMMA DiscoverSearch ==
    ASSUME Searching, NEW f \in Files, DiscoverLog(f) PROVE SearchInv'
<1>1. /\ at = "walk" /\ at' = "walk" /\ findings' = findings
      /\ todo' \subseteq todo /\ How("logs")
      /\ UNCHANGED <<agent, tree, onDisk, check, hit>>
    BY DEF DiscoverLog, Continue
<1>2. check \in DOMAIN Checks /\ Checks[check].how = "logs"
    BY <1>1 DEF Searching, SearchShape, How, Current
<1>3. SearchShape'
  <2>1. Present' = Present /\ Globbed(check)' = Globbed(check) /\ Checks' = Checks
      BY <1>1, SearchFrame DEF Globbed
  <2> QED
      BY <1>1, <2>1 DEF Searching, SearchShape, Looking
<1>4. SaysWhatIsThere'
    BY <1>1, SearchFrame DEF Searching, SaysWhatIsThere, Looking
<1>5. ASSUME Intact', tree'.isDir PROVE SaysAll'
  <2>1. SaysAll /\ Intact /\ tree.isDir
      BY <1>1, <1>5, SearchFrame DEF Searching, Intact
  <2>2. SaidSoFar(check)'
    <3>1. Checks' = Checks
        BY <1>1, SearchFrame
    <3> QED
        BY <1>1, <1>2, <3>1 DEF SaidSoFar
  <2> QED
      BY <1>1, <2>1, <2>2, SearchFrame, SaidStays DEF SaysAll
<1> QED
    BY <1>3, <1>4, <1>5 DEF SearchInv

\* A walk is over; a check for something missing has its verdict.
LEMMA EndSearch ==
    ASSUME Searching, EndWalk PROVE SearchInv'
<1> DEFINE found == IF How("lacks") /\ ~hit THEN {<<m, "target">> : m \in Current.marks} ELSE {}
           c == Checks[check]
<1>1. /\ at = "walk" /\ at' = "check" /\ findings' = findings \cup found
      /\ todo = {} /\ todo' = {} /\ hit' = FALSE
      /\ UNCHANGED <<agent, tree, onDisk>>
    BY DEF EndWalk, Continue, NextCheck
<1>2. check \in DOMAIN Checks /\ check \in Nat \ {0}
    BY <1>1 DEF Searching, SearchShape
<1>3. How("lacks") <=> c.how = "lacks"
    BY <1>2, ChecksKinds DEF How, Current, Searching
<1>4. /\ check' \in Nat \ {0} /\ check' > check
      /\ \A i \in DOMAIN Checks : i < check' => i <= check \/ Checks[i].how = "logs"
  <2>1. check' = check + 1 \/ (How("logs") /\ check' = Len(Checks) + 1)
      BY DEF EndWalk, NextCheck
  <2>2. CASE check' = check + 1
      BY <1>2, <2>2, ChecksKinds DEF Searching
  <2>3. CASE How("logs") /\ check' = Len(Checks) + 1
    <3>1. c.how = "logs"
        BY <2>3 DEF How, Current
    <3>2. \A i \in DOMAIN Checks : i > check => Checks[i].how = "logs"
        BY <1>2, <3>1, ChecksKinds DEF Searching
    <3>3. Len(Checks) \in Nat /\ DOMAIN Checks = 1 .. Len(Checks)
        BY ChecksKinds DEF Searching
    <3> HIDE DEF c
    <3> QED
        BY <1>2, <2>3, <3>2, <3>3
  <2> QED
      BY <2>1, <2>2, <2>3
<1>5. \A x \in found : \E m \in PatternMarks : m \in c.marks /\ x = <<m, "target">>
    BY <1>2, PatternMarksAre DEF Current
<1>6. c.how = "lacks" /\ ~hit => \A m \in c.marks : <<m, "target">> \in found
    BY <1>3 DEF Current
<1>7. found # {} => c.how = "lacks" /\ ~hit
    BY <1>3
<1> HIDE DEF found, c
<1>8. SearchShape'
  <2>1. ~hit' /\ hit' \in BOOLEAN
      BY <1>1
  <2>2. Present' = Present
      BY <1>1, SearchFrame
  <2>3. tree' \in Trees /\ onDisk' \subseteq Present' /\ todo' \subseteq Present'
      BY <1>1, <2>2 DEF Searching, SearchShape
  <2> QED
      BY <1>1, <1>4, <2>1, <2>3 DEF SearchShape, Looking
<1>9. SaysWhatIsThere'
  <2>1. \A x \in found : \E m \in PatternMarks, p \in Files \cup {"target"} : x = <<m, p>>
      BY <1>5
  <2>2. \A m \in PatternMarks, f \in Files : <<m, f>> \notin found
      BY <1>5, TreesAssumption
  <2>3. \A k : <<"chain", k>> \notin found
      BY <1>5, PatternsAreNoVerdicts DEF Searching, Verdicts
  <2> QED
      BY <1>1, <2>1, <2>2, <2>3, SoundFindings DEF Searching, Looking
<1>10. ASSUME Intact', tree'.isDir PROVE SaysAll'
  <2>1. SaysAll /\ Intact /\ tree.isDir
      BY <1>1, <1>10, SearchFrame DEF Searching, Intact
  <2>2. SaidSoFar(check)
      BY <1>1, <2>1 DEF SaysAll
  <2>3. Checks' = Checks /\ \A i : With(i)' = With(i)
      BY <1>1, SearchFrame
  <2>4. c.how = "lacks" => (~hit <=> With(check) = {})
      BY <1>1, <2>2 DEF SaidSoFar, c
  <2>5. ASSUME NEW i, i = check PROVE Said(i)'
    <3>1. c.how = "each" => \A f \in With(check) : \A m \in c.marks \cap tree.marks[f] :
              <<m, f>> \in findings
        BY <1>1, <2>2 DEF SaidSoFar, c
    <3>2. c.how = "first" /\ With(check) # {} =>
              \E f \in With(check), m \in c.marks : <<m, f>> \in findings
        BY <1>1, <2>2 DEF SaidSoFar, c
    <3>3. c.how = "lacks" /\ With(check) = {} => \A m \in c.marks : <<m, "target">> \in found
        BY <1>6, <2>4
    <3> QED
        BY <1>1, <2>3, <2>5, <3>1, <3>2, <3>3 DEF Said, c
  <2>6. \A i \in DOMAIN Checks : i < check => Said(i)'
    <3>1. \A i \in DOMAIN Checks : i < check => Said(i)
        BY <2>1 DEF SaysAll
    <3> QED
        BY <1>1, <3>1, SaidStays
  <2>7. \A i \in DOMAIN Checks : Checks[i].how = "logs" => Said(i)'
      BY <2>3 DEF Said
  <2>8. \A i \in DOMAIN Checks : i < check' => Said(i)'
    <3>1. \A i \in DOMAIN Checks : i \in Nat
        BY ChecksKinds DEF Searching
    <3>2. \A i \in DOMAIN Checks : i <= check => i < check \/ i = check
        BY <1>2, <3>1
    <3> QED
        BY <1>4, <2>5, <2>6, <2>7, <3>2
  <2>9. ASSUME NEW i \in DOMAIN Checks, NEW m \in Checks[i].marks,
               Checks[i].how = "lacks", <<m, "target">> \in findings'
        PROVE  i < check' /\ With(i) = {}
    <3>1. CASE <<m, "target">> \in findings
      <4>1. i < check /\ With(i) = {}
          BY <2>1, <2>9, <3>1 DEF SaysAll
      <4>2. i \in Nat
          BY ChecksKinds DEF Searching
      <4> QED
          BY <1>2, <1>4, <4>1, <4>2
    <3>2. CASE <<m, "target">> \in found
      <4>1. m \in c.marks /\ c.how = "lacks" /\ ~hit
          BY <1>5, <1>7, <3>2
      <4>2. i = check
        <5> SUFFICES ASSUME i # check PROVE FALSE
            OBVIOUS
        <5>1. Checks[i].marks \cap Checks[check].marks = {}
            BY <1>2, <2>9, <4>1, ChecksKinds DEF Searching, c
        <5> QED
            BY <4>1, <5>1 DEF c
      <4> QED
          BY <1>4, <2>4, <4>1, <4>2
    <3> QED
        BY <1>1, <2>9, <3>1, <3>2
  <2> QED
      BY <1>1, <2>3, <2>8, <2>9 DEF SaysAll
<1> QED
    BY <1>8, <1>9, <1>10 DEF SearchInv

\* A walk that raises is one of a clone from which something has gone.
LEMMA RaiseSearch ==
    ASSUME Searching, WalkRaises PROVE SearchInv'
<1>1. /\ at = "walk" /\ ~(todo \subseteq onDisk)
      /\ UNCHANGED <<agent, tree, onDisk>>
      /\ \/ at' = "raised" /\ findings' = {} /\ UNCHANGED <<check, todo, hit>>
         \/ /\ at' = "check" /\ findings' = findings
            /\ check' = check + 1 /\ todo' = {} /\ hit' = FALSE
    BY DEF WalkRaises, Continue, NextCheck, walk
<1>2. Present' = Present
    BY <1>1, SearchFrame
<1>3. SearchShape'
  <2>1. check' \in Nat \ {0}
      BY <1>1 DEF Searching, SearchShape
  <2>2. tree' \in Trees /\ onDisk' \subseteq Present' /\ todo' \subseteq Present'
      BY <1>1, <1>2 DEF Searching, SearchShape
  <2>3. hit' \in BOOLEAN /\ (at' = "check" => ~hit')
      BY <1>1 DEF Searching, SearchShape
  <2> QED
      BY <1>1, <2>1, <2>2, <2>3 DEF SearchShape, Looking
<1>4. SaysWhatIsThere'
    BY <1>1, SearchFrame DEF Searching, SaysWhatIsThere, Looking
<1>5. ~Intact'
    BY <1>1, <1>2 DEF Searching, SearchShape, Intact
<1> QED
    BY <1>3, <1>4, <1>5 DEF SearchInv

\* Every step of an attack path that a readable Python file holds has been told
\* when the checks of the red team are over.
LEMMA StepsTold ==
    ASSUME Searching, agent = "red_team", SaysAll, check > Len(Checks),
           NEW k, NEW f \in PythonOf(k), NEW m \in Steps, m \in tree.marks[f]
    PROVE  <<m, f>> \in findings
<1>1. PICK j \in DOMAIN Checks : m \in Checks[j].marks
    BY RedLooksForSteps
<1>2. Checks[j].globs = {"py"} /\ Checks[j].how = "each" /\ j < check
    BY <1>1, ChecksKinds DEF Searching, SearchShape
<1>3. f \in With(j)
    BY <1>1, <1>2 DEF With, HasPattern, PythonOf, Present
<1> QED
    BY <1>1, <1>2, <1>3 DEF SaysAll, Said

\* What the red team has told of the files with a key is in its Python files.
LEMMA TitlesAreThere ==
    ASSUME Searching, agent = "red_team", NEW k, NEW m \in Titles(findings, k)
    PROVE  m \in Steps /\ \E f \in PythonOf(k) : m \in tree.marks[f]
<1>1. PICK f \in Files : tree.key[f] = k /\ <<m, f>> \in findings
    BY DEF Titles
<1>2. m \in Steps
    BY StepsAre DEF Titles
<1>3. LooksFor(m, f)
    BY <1>1, <1>2, RedLooksForSteps, PatternMarksAre DEF Searching, SaysWhatIsThere
<1>4. PICK i \in DOMAIN Checks : f \in With(i) /\ m \in tree.marks[f]
    BY <1>3 DEF LooksFor
<1>5. Checks[i].globs = {"py"}
    BY <1>4, ChecksKinds DEF Searching
<1> QED
    BY <1>1, <1>2, <1>4, <1>5 DEF With, HasPattern, PythonOf

\* The checks are over; the red team has its chains.
LEMMA EndAllSearch ==
    ASSUME Searching, EndChecks PROVE SearchInv'
<1> DEFINE found == IF agent = "red_team" THEN {<<"chain", k>> : k \in Chained(findings)} ELSE {}
<1>1. /\ at = "check" /\ at' \in {"logs", "return"} /\ findings' = findings \cup found
      /\ at' = "logs" => agent = "blue_team"
      /\ check > Len(Checks) /\ UNCHANGED <<agent, tree, onDisk, check, todo, hit>>
    BY DEF EndChecks, Continue, source, walk
<1>2. \A x \in found : \E k \in Chained(findings) : x = <<"chain", k>> /\ agent = "red_team"
    OBVIOUS
<1>3. agent = "red_team" => \A k \in Chained(findings) : <<"chain", k>> \in found
    OBVIOUS
<1> HIDE DEF found
<1>4. "chain" \notin PatternMarks
    BY PatternsAreNoVerdicts DEF Searching, Verdicts
<1>5. ASSUME NEW k, <<"chain", k>> \in found PROVE k \in Chains
  <2>1. k \in Chained(findings) /\ agent = "red_team"
      BY <1>2, <1>5
  <2>2. PICK m, n \in Titles(findings, k) : StepOf[m] # StepOf[n]
      BY <2>1, ChainedIs
  <2>3. PICK f, g \in PythonOf(k) : m \in tree.marks[f] /\ n \in tree.marks[g]
      BY <2>1, TitlesAreThere
  <2>4. HasTwoSteps(PythonOf(k))
      BY <2>1, <2>2, <2>3, TitlesAreThere, StepsAre DEF HasTwoSteps
  <2> QED
      BY <2>1, <2>4, ChainedIs DEF Chains
<1>6. SearchShape'
  <2>1. Present' = Present /\ Checks' = Checks
      BY <1>1, SearchFrame
  <2> QED
      BY <1>1, <2>1 DEF Searching, SearchShape, Looking
<1>7. SaysWhatIsThere'
  <2>1. at' = "logs" => found = {}
      BY <1>1, <1>2
  <2>2. \A m \in PatternMarks, f \in Files : <<m, f>> \notin found
      BY <1>2, <1>4
  <2> QED
      BY <1>1, <1>5, <2>1, <2>2, SoundFindings DEF Searching, Looking
<1>8. ASSUME Intact', tree'.isDir PROVE SaysAll'
  <2>1. SaysAll /\ Intact /\ tree.isDir
      BY <1>1, <1>8, SearchFrame DEF Searching, Intact
  <2>2. \A i \in DOMAIN Checks : \A m \in Checks[i].marks : <<m, "target">> \notin found
      BY <1>2, <1>4, PatternMarksAre
  <2>3. ASSUME agent = "red_team", NEW k \in Chains
        PROVE  <<"chain", k>> \in findings'
    <3>1. k \in Keys \ {""} /\ HasTwoSteps(PythonOf(k))
        BY DEF Chains
    <3>2. PICK f, g \in PythonOf(k) :
              \E m \in tree.marks[f] \cap DOMAIN StepOf, n \in tree.marks[g] \cap DOMAIN StepOf :
                  StepOf[m] # StepOf[n]
        BY <3>1 DEF HasTwoSteps
    <3>3. PICK m \in tree.marks[f] \cap Steps, n \in tree.marks[g] \cap Steps :
                   StepOf[m] # StepOf[n]
        BY <3>2, StepsAre
    <3>4. <<m, f>> \in findings /\ <<n, g>> \in findings
        BY <1>1, <2>1, <2>3, StepsTold
    <3>5. m \in Titles(findings, k) /\ n \in Titles(findings, k)
        BY <3>3, <3>4, StepsAre DEF Titles, PythonOf
    <3>6. k \in Chained(findings)
        BY <3>1, <3>3, <3>5, ChainedIs
    <3> QED
        BY <1>1, <1>3, <2>3, <3>6
  <2>4. at' # "walk"
      BY <1>1
  <2> QED
      BY <1>1, <2>1, <2>2, <2>3, <2>4, SearchFrame, SaidStays DEF SaysAll
<1> QED
    BY <1>6, <1>7, <1>8 DEF SearchInv

\* Later steps say nothing that a pattern could have, nor of chains.
LEMMA LaterSearch ==
    ASSUME Searching, UNCHANGED <<agent, tree, onDisk, check, todo, hit>>,
           at \in {"logs", "return"}, at' \in {"logs", "return", "done"},
           NEW found, findings' = findings \cup found,
           \A x \in found : \E v \in Verdicts \ {"chain"} : \E p : x = <<v, p>>,
           at' = "logs" => found = {} /\ at = "logs",
           agent = "red_team" => at = "return"
    PROVE  SearchInv'
<1>1. PatternMarks \cap Verdicts = {}
    BY PatternsAreNoVerdicts DEF Searching
<1>2. SearchShape'
  <2>1. Present' = Present /\ Checks' = Checks
      BY SearchFrame
  <2> QED
      BY <2>1 DEF Searching, SearchShape, Looking
<1>3. SaysWhatIsThere'
  <2>1. \A m \in PatternMarks, f \in Files : <<m, f>> \notin found
      BY <1>1
  <2>2. \A k : <<"chain", k>> \notin found
      OBVIOUS
  <2> QED
      BY <2>1, <2>2, SoundFindings DEF Searching, Looking
<1>4. ASSUME Intact', tree'.isDir PROVE SaysAll'
  <2>1. SaysAll /\ Intact /\ tree.isDir
      BY <1>4, SearchFrame DEF Searching, Intact
  <2>2. \A i \in DOMAIN Checks : \A m \in Checks[i].marks : <<m, "target">> \notin found
      BY <1>1, PatternMarksAre
  <2>3. at' # "walk"
      OBVIOUS
  <2> QED
      BY <2>1, <2>2, <2>3, SearchFrame, SaidStays DEF SaysAll
<1> QED
    BY <1>2, <1>3, <1>4 DEF SearchInv

(* The verdict on the logs.                                                  *)

\* The keys at a threshold are those with as many copies.
LEMMA AtLeastIs ==
    ASSUME NEW b, Bag(b), NEW n \in Nat \ {0}, NEW k
    PROVE  k \in AtLeast(b, n) <=> Copies(b, k) >= n
BY DEF Bag, AtLeast, Copies

\* A line of some files is a line of one of them, and a line of a log.
LEMMA LinesInAre ==
    ASSUME tree \in Trees, NEW read \in SUBSET Files, NEW l \in LinesIn(read)
    PROVE  l[1] \in read /\ l[1] \in Files /\ LineAt(l) \in LogLine
BY LinesAre DEF LinesIn, LineAt

\* A part of the lines counted is finite, so that it has a size.
LEMMA CountedIsFinite ==
    ASSUME NEW c, NEW lines, Counted(c, lines), NEW S \in SUBSET lines
    PROVE  IsFiniteSet(S) /\ Cardinality(S) \in Nat
BY FS_Subset, FS_CardinalityType DEF Counted

\* The failed logins counted for a file and an address are those of the file.
LEMMA FailuresJudged ==
    ASSUME tree \in Trees, NEW read \in SUBSET Files, NEW c, Counted(c, LinesIn(read))
    PROVE  /\ \A f \in Files, s \in Sources :
                 <<f, s>> \in AtLeast(c.failed, BruteForceThreshold) <=>
                     f \in read /\ s \in BruteForce(f)
           /\ \A k \in AtLeast(c.failed, BruteForceThreshold) :
                 \E f \in read, s \in Sources : k = <<f, s>>
<1>1. BruteForceThreshold \in Nat \ {0}
    BY LimitsAssumption
<1>2. \A k : k \in AtLeast(c.failed, BruteForceThreshold) <=>
                 Cardinality(Failures(LinesIn(read), k)) >= BruteForceThreshold
    BY <1>1, AtLeastIs DEF Counted
<1>3. ASSUME NEW k PROVE /\ Cardinality(Failures(LinesIn(read), k)) \in Nat
                         /\ Cardinality(Failures(LinesIn(read), k)) = 0 <=>
                                Failures(LinesIn(read), k) = {}
  <2>1. Failures(LinesIn(read), k) \in SUBSET LinesIn(read)
      BY DEF Failures
  <2> QED
      BY <2>1, CountedIsFinite, FS_EmptySet
<1>4. ASSUME NEW k \in AtLeast(c.failed, BruteForceThreshold)
      PROVE  \E f \in read, s \in Sources : k = <<f, s>>
  <2>1. Cardinality(Failures(LinesIn(read), k)) >= BruteForceThreshold
      BY <1>2
  <2>2. Failures(LinesIn(read), k) # {}
      BY <1>1, <1>3, <2>1
  <2>3. PICK l \in LinesIn(read) : <<l[1], LineAt(l).source>> = k
      BY <2>2 DEF Failures
  <2>4. l[1] \in read /\ LineAt(l).source \in Sources
      BY LinesInAre DEF LogLine
  <2> QED
      BY <2>3, <2>4
<1>5. ASSUME NEW f \in Files, NEW s \in Sources, f \in read
      PROVE  Failures(LinesIn(read), <<f, s>>) =
                 {l \in LinesIn({f}) : LineAt(l).failed /\ LineAt(l).source = s}
    BY <1>5 DEF Failures, LinesIn
<1>6. ASSUME NEW f \in Files, NEW s \in Sources
      PROVE  <<f, s>> \in AtLeast(c.failed, BruteForceThreshold) <=>
                 f \in read /\ s \in BruteForce(f)
  <2>1. CASE f \in read
      BY <1>2, <1>5, <2>1 DEF BruteForce, FailedFrom
  <2>2. CASE f \notin read
      BY <1>4, <2>2
  <2> QED
      BY <2>1, <2>2
<1> QED
    BY <1>4, <1>6

\* So are the probes, by address in all files, and by file without an address.
LEMMA ProbesJudged ==
    ASSUME tree \in Trees, NEW read \in SUBSET Files, NEW c, Counted(c, LinesIn(read))
    PROVE  /\ \A k \in Files \cup Sources :
                 k \in AtLeast(c.probes, ScannerThreshold) <=> k \in Scanners(read)
           /\ AtLeast(c.probes, ScannerThreshold) \subseteq Files \cup Sources
<1>1. ScannerThreshold \in Nat \ {0}
    BY LimitsAssumption
<1>2. \A k : k \in AtLeast(c.probes, ScannerThreshold) <=>
                 Cardinality(Probings(LinesIn(read), k)) >= ScannerThreshold
    BY <1>1, AtLeastIs DEF Counted
<1>3. ASSUME NEW k PROVE /\ Cardinality(Probings(LinesIn(read), k)) \in Nat
                         /\ Cardinality(Probings(LinesIn(read), k)) = 0 <=>
                                Probings(LinesIn(read), k) = {}
  <2>1. Probings(LinesIn(read), k) \in SUBSET LinesIn(read)
      BY DEF Probings
  <2> QED
      BY <2>1, CountedIsFinite, FS_EmptySet
<1>4. ASSUME NEW k, k \in AtLeast(c.probes, ScannerThreshold)
      PROVE  \E l \in LinesIn(read) : Origin(l) = k
  <2>1. Cardinality(Probings(LinesIn(read), k)) >= ScannerThreshold
      BY <1>2, <1>4
  <2>2. Probings(LinesIn(read), k) # {}
      BY <1>1, <1>3, <2>1
  <2> QED
      BY <2>2 DEF Probings
<1>5. \A l \in LinesIn(read) : /\ l[1] \in read /\ l[1] \in Files /\ LineAt(l).source \in Sources
    BY LinesInAre DEF LogLine
<1>6. Files \cap (Sources \cup {"unknown"}) = {}
    BY TreesAssumption
<1>7. ASSUME NEW k \in Sources, k # "unknown"
      PROVE  k \in AtLeast(c.probes, ScannerThreshold) <=> k \in Scanners(read)
  <2>1. Probings(LinesIn(read), k) = {l \in LinesIn(read) : LineAt(l).probe /\ LineAt(l).source = k}
      BY <1>5, <1>6, <1>7 DEF Probings, Origin
  <2>2. k \notin read
      BY <1>6
  <2> QED
      BY <1>2, <1>7, <2>1, <2>2 DEF Scanners, ProbesFrom
<1>8. ASSUME NEW k \in Files, k \in read
      PROVE  k \in AtLeast(c.probes, ScannerThreshold) <=> k \in Scanners(read)
  <2>1. Probings(LinesIn(read), k) =
            {l \in LinesIn({k}) : LineAt(l).probe /\ LineAt(l).source = "unknown"}
    <3>1. \A l \in LinesIn(read) : Origin(l) = k <=> LineAt(l).source = "unknown" /\ l[1] = k
        BY <1>5, <1>6 DEF Origin
    <3>2. \A l : l \in LinesIn({k}) <=> l \in LinesIn(read) /\ l[1] = k
        BY <1>8 DEF LinesIn
    <3> QED
        BY <3>1, <3>2 DEF Probings
  <2>2. k \notin Sources
      BY <1>6
  <2> QED
      BY <1>2, <1>8, <2>1, <2>2 DEF Scanners, ProbesFrom
<1>9. ASSUME NEW k \in Files \cup {"unknown"}, k \notin read
      PROVE  k \notin AtLeast(c.probes, ScannerThreshold) /\ k \notin Scanners(read)
  <2>1. \A l \in LinesIn(read) : Origin(l) # k
      BY <1>5, <1>6, <1>9 DEF Origin
  <2>2. k \notin Sources \ {"unknown"}
      BY <1>6
  <2> QED
      BY <1>4, <1>9, <2>1, <2>2 DEF Scanners
<1>10. "unknown" \notin read
    BY <1>6
<1>11. AtLeast(c.probes, ScannerThreshold) \subseteq Files \cup Sources
    BY <1>4, <1>5 DEF Origin
<1>12. \A k \in Files \cup Sources :
           k \in AtLeast(c.probes, ScannerThreshold) <=> k \in Scanners(read)
    BY <1>7, <1>8, <1>9, <1>10
<1> QED
    BY <1>11, <1>12

\* What is found in a line is one of the two things it is looked through for.
LEMMA EventsAreMarks ==
    ASSUME tree \in Trees, NEW read \in SUBSET Files, NEW c, Counted(c, LinesIn(read))
    PROVE  /\ \A x \in c.found : \E m \in LineMarks, f \in read : x = <<m, f>>
           /\ c.found # {} <=> \E l \in LinesIn(read) : LineAt(l).marks # {}
<1>1. \A x : x \in c.found <=> \E l \in LinesIn(read) : \E m \in LineAt(l).marks : x = <<m, l[1]>>
    BY DEF Counted
<1>2. \A l \in LinesIn(read) : l[1] \in read /\ LineAt(l).marks \subseteq LineMarks
    BY LinesInAre DEF LogLine
<1>3. \A x \in c.found : \E m \in LineMarks, f \in read : x = <<m, f>>
    BY <1>1, <1>2
<1>4. ASSUME c.found # {} PROVE \E l \in LinesIn(read) : LineAt(l).marks # {}
    BY <1>1, <1>4
<1>5. ASSUME NEW l \in LinesIn(read), LineAt(l).marks # {} PROVE c.found # {}
  <2>1. PICK m : m \in LineAt(l).marks
      BY <1>5
  <2>2. <<m, l[1]>> \in c.found
      BY <1>1, <2>1
  <2> QED
      BY <2>2
<1> QED
    BY <1>3, <1>4, <1>5

(* The steps of the discovery and of the reading.                            *)

\* Log files are files that were there when the run began.
LEMMA AllLogsPresent ==
    LogFiles \subseteq Present /\ Present \subseteq Files
BY DEF LogFiles, Present

\* No log has been discovered or read before the run begins.
LEMMA LogsBegin ==
    ASSUME agent \in PatternAgents, InitRun, InitSource PROVE LogInv
<1>1. /\ at = "start" /\ logs = <<>> /\ ingested = <<0, {}>> /\ counted = Nothing /\ check = 1
    BY DEF InitRun, InitSource
<1>2. Discovery
  <2>1. logs \in Seq(Files) /\ IsInjective(logs) /\ Range(logs) = {} /\ Len(logs) = 0
      BY <1>1 DEF IsInjective, Range
  <2>2. MaxLogFiles \in Nat \ {0}
      BY LimitsAssumption
  <2>3. \A i \in DOMAIN Checks : ~(i < check)
      BY <1>1, ChecksKinds
  <2> QED
      BY <1>1, <2>1, <2>2, <2>3 DEF Discovery
<1>3. Reading
  <2>1. Taken = {} /\ ingested[1] = 0 /\ ingested[2] = {} /\ Len(logs) = 0
      BY <1>1 DEF Taken
  <2>2. Counted(counted, LinesIn(ingested[2]))
      BY <1>1, <2>1, NothingCounts
  <2> QED
      BY <1>1, <2>1, <2>2 DEF Reading
<1> QED
    BY <1>2, <1>3 DEF LogInv

\* What a step that leaves the logs alone has to show.
LEMMA DiscoveryStays ==
    ASSUME agent = "blue_team", SearchShape, Discovery, UNCHANGED <<agent, tree, logs>>,
           tree.isDir /\ (\/ at' \in {"start", "check"} /\ check' <= Len(Checks)
                          \/ at' = "walk" /\ (todo' # {} \/ Checks[check'].how # "logs")) =>
               Len(logs) < MaxLogFiles,
           Intact' /\ tree.isDir /\ Len(logs) < MaxLogFiles =>
               /\ \A i \in DOMAIN Checks : Checks[i].how = "logs" /\ i < check' =>
                      Globbed(i) \subseteq Range(logs)
               /\ at' = "walk" /\ Checks[check'].how = "logs" =>
                      Globbed(check') \subseteq Range(logs) \cup todo',
           at' = "walk" => check' \in DOMAIN Checks
    PROVE  Discovery'
<1>1. /\ Checks' = Checks /\ LogFiles' = LogFiles /\ Len(Checks) \in Nat
      /\ DOMAIN Checks = 1 .. Len(Checks)
      /\ \A i : Globbed(i)' = Globbed(i)
    BY SearchFrame, ChecksKinds DEF PatternAgents
<1>2. at' = "walk" => (How("logs")' <=> Checks[check'].how = "logs")
    BY <1>1 DEF How, Current
<1>3. Globbed(check)' = Globbed(check')
  <2>1. Present' = Present
      BY SearchFrame
  <2> QED
      BY <1>1, <2>1 DEF Globbed
<1> QED
    BY <1>1, <1>2, <1>3 DEF Discovery

\* Steps that leave the counts alone.
LEMMA ReadingStays ==
    ASSUME agent = "blue_team", Reading, Discovery, onDisk \subseteq Present,
               onDisk' \subseteq onDisk,
           UNCHANGED <<agent, tree, logs, ingested, counted>>,
           at' \in Looking => at \in Looking,
           at' \in {"return", "done"} /\ logs # <<>> =>
               at \in {"return", "done"} /\ findings' = findings
    PROVE  Reading'
<1>1. Taken' = Taken
    BY DEF Taken
<1>2. Intact' => Intact
    BY SearchFrame DEF Intact
<1>3. \A l : LineAt(l)' = LineAt(l)
    BY DEF LineAt, Lines
<1>4. Counted(counted, LinesIn(ingested[2]))'
  <2>1. LinesIn(ingested[2])' = LinesIn(ingested[2])
      BY DEF LinesIn, Lines
  <2>2. Counted(counted, LinesIn(ingested[2]))
      BY DEF Reading
  <2> QED
      BY <1>3, <2>1, <2>2 DEF Counted, Failures, Probings, Origin
<1>5. findings' = findings /\ LogsSaid(ingested[2]) => LogsSaid(ingested[2])'
  <2>1. Suspicious(ingested[2])' <=> Suspicious(ingested[2])
      BY DEF Suspicious, Scanners, ProbesFrom, LinesIn, LineAt, Lines, BruteForce, FailedFrom
  <2>2. Scanners(ingested[2])' = Scanners(ingested[2])
      BY DEF Scanners, ProbesFrom, LinesIn, LineAt, Lines
  <2>3. \A f : BruteForce(f)' = BruteForce(f)
      BY DEF BruteForce, FailedFrom, LinesIn, LineAt, Lines
  <2> QED
      BY <2>1, <2>2, <2>3 DEF LogsSaid
<1> QED
    BY <1>1, <1>2, <1>4, <1>5 DEF Reading

\* Steps of the discovery: nothing has been read yet.
LEMMA ReadingAwaits ==
    ASSUME agent = "blue_team", Reading, UNCHANGED <<agent, tree, ingested, counted>>,
           at \in Looking, at' \in Looking, Len(logs') \in Nat
    PROVE  Reading'
<1>1. ingested' = <<0, {}>> /\ counted' = Nothing
    BY DEF Reading
<1>2. Taken' = {} /\ ingested'[1] = 0 /\ ingested'[2] = {}
    BY <1>1 DEF Taken
<1>3. Counted(counted, LinesIn(ingested[2]))'
  <2>1. Counted(Nothing, LinesIn({}))'
      BY NothingCounts, PTL
  <2> QED
      BY <1>1, <2>1
<1> QED
    BY <1>1, <1>2, <1>3 DEF Reading, Looking

\* The sequence of a finite set has each of its elements once.
LEMMA SetToSeqIs ==
    ASSUME NEW S, IsFiniteSet(S)
    PROVE  /\ SetToSeq(S) \in Seq(S) /\ IsInjective(SetToSeq(S))
           /\ Len(SetToSeq(S)) = Cardinality(S)
<1> DEFINE n == Cardinality(S)
           f == CHOOSE g \in [1 .. n -> S] : IsInjective(g)
<1>1. n \in Nat /\ ExistsBijection(1 .. n, S)
    BY FS_CardinalityType
<1>2. \E g \in [1 .. n -> S] : IsInjective(g)
    BY <1>1 DEF ExistsBijection, Bijection, Injection, IsInjective
<1>3. f \in [1 .. n -> S] /\ IsInjective(f)
  <2> HIDE DEF n
  <2> QED
      BY <1>2
<1>4. SetToSeq(S) = f
    BY DEF SetToSeq
<1> HIDE DEF f, n
<1> QED
    BY <1>1, <1>3, <1>4 DEF n

\* A target that is a file is the only log file.
LEMMA FileAlone ==
    ASSUME tree \in Trees, ~tree.isDir, onDisk \subseteq Present
    PROVE  /\ SetToSeq(onDisk) \in Seq(Files) /\ IsInjective(SetToSeq(onDisk))
           /\ Range(SetToSeq(onDisk)) \subseteq LogFiles
           /\ Len(SetToSeq(onDisk)) <= MaxLogFiles
<1>1. \A f, g \in onDisk : f = g
    BY TreesAssumption DEF Present
<1>2. onDisk \subseteq Files /\ IsFiniteSet(onDisk)
    BY TreesAssumption, FS_Subset DEF Present
<1>3. /\ SetToSeq(onDisk) \in Seq(onDisk) /\ IsInjective(SetToSeq(onDisk))
      /\ Len(SetToSeq(onDisk)) = Cardinality(onDisk)
    BY <1>2, SetToSeqIs
<1>4. ~(Cardinality(onDisk) >= 2) /\ Cardinality(onDisk) \in Nat
    BY <1>1, <1>2, TwoOrMore, FS_CardinalityType
<1>5. MaxLogFiles \in Nat \ {0}
    BY LimitsAssumption
<1> DEFINE s == SetToSeq(onDisk)
<1> HIDE DEF s
<1>6. s \in Seq(onDisk) => s \in Seq(Files) /\ Range(s) \subseteq onDisk
    BY <1>2 DEF Range
<1>7. SetToSeq(onDisk) \in Seq(Files) /\ Range(SetToSeq(onDisk)) \subseteq onDisk
    BY <1>3, <1>6 DEF s
<1> QED
    BY <1>3, <1>4, <1>5, <1>7 DEF LogFiles

\* A check that is skipped.
LEMMA SkipLogs ==
    ASSUME Searching, agent = "blue_team", Discovery, Reading, SkipCheck PROVE LogInv'
<1>1. /\ at = "check" /\ at' = "check" /\ check' = check + 1 /\ check <= Len(Checks)
      /\ logs' = IF How("logs") /\ ~tree.isDir /\ logs = <<>> THEN SetToSeq(onDisk) ELSE logs
      /\ UNCHANGED <<agent, tree, onDisk, ingested, counted>>
    BY DEF SkipCheck, Continue, NextCheck
<1>2. LogFiles' = LogFiles /\ Checks' = Checks
    BY <1>1, SearchFrame
<1>3. /\ logs' \in Seq(Files) /\ IsInjective(logs') /\ Range(logs') \subseteq LogFiles
      /\ Len(logs') <= MaxLogFiles
    BY <1>1, FileAlone DEF Discovery, Searching, SearchShape
<1>4. ~(Intact /\ tree.isDir)
  <2>1. \A i \in 1 .. 7 : Checks[i].how # "broken"
      BY BlueChecksAre DEF Lacks, First, Discover, Check
  <2>2. Len(Checks) = 7
      BY BlueChecksAre
  <2>3. check \in 1 .. 7
      BY <1>1, <2>2 DEF Searching, SearchShape
  <2>4. Current.how # "broken"
      BY <2>1, <2>3 DEF Current
  <2> QED
      BY <2>4, WholeIsDir DEF SkipCheck, How, Searching, SearchShape
<1>5. Discovery'
  <2>1. tree.isDir => Len(logs') < MaxLogFiles
      BY <1>1 DEF Discovery
  <2>2. Intact' => Intact
      BY <1>1, SearchFrame DEF Intact
  <2> QED
      BY <1>1, <1>2, <1>3, <1>4, <2>1, <2>2 DEF Discovery
<1>6. Reading'
    BY <1>1, <1>3, ReadingAwaits DEF Looking
<1> QED
    BY <1>5, <1>6 DEF LogInv

\* A walk starts.
LEMMA StartLogs ==
    ASSUME Searching, agent = "blue_team", Discovery, Reading, StartWalk PROVE LogInv'
<1>1. /\ at = "check" /\ at' = "walk" /\ check <= Len(Checks)
      /\ todo' = {f \in onDisk : tree.kind[f] \in Checks[check].globs}
      /\ UNCHANGED <<agent, tree, onDisk, check, logs, ingested, counted>>
    BY DEF StartWalk, Continue, events, Current
<1>2. check \in DOMAIN Checks
    BY <1>1, ChecksKinds DEF Searching, SearchShape
<1>3. tree.isDir => Len(logs) < MaxLogFiles
    BY <1>1 DEF Discovery
<1>4. Intact' => Intact /\ Globbed(check) \subseteq todo'
    BY <1>1, SearchFrame DEF Intact, Globbed
<1>5. Intact /\ tree.isDir /\ Len(logs) < MaxLogFiles =>
          \A i \in DOMAIN Checks : Checks[i].how = "logs" /\ i < check =>
              Globbed(i) \subseteq Range(logs)
    BY DEF Discovery
<1>6. Discovery'
    BY <1>1, <1>2, <1>3, <1>4, <1>5, DiscoveryStays DEF Searching
<1>7. Reading'
  <2>1. Len(logs') \in Nat
      BY <1>1 DEF Discovery
  <2> QED
      BY <1>1, <2>1, ReadingAwaits DEF Looking
<1> QED
    BY <1>6, <1>7 DEF LogInv

\* A walk of a check that does not look for logs goes on.
LEMMA WalkLogs ==
    ASSUME Searching, agent = "blue_team", Discovery, Reading, at = "walk", at' = "walk",
           ~How("logs"), UNCHANGED <<agent, tree, onDisk, check, events>>
    PROVE  LogInv'
<1>1. UNCHANGED <<logs, ingested, counted>>
    BY DEF events
<1>2. check \in DOMAIN Checks /\ Checks[check].how # "logs"
    BY ChecksKinds DEF How, Current, Searching, SearchShape
<1>3. tree.isDir => Len(logs) < MaxLogFiles
    BY DEF Discovery
<1>4. Intact' => Intact
    BY SearchFrame DEF Intact
<1>5. Intact /\ tree.isDir /\ Len(logs) < MaxLogFiles =>
          \A i \in DOMAIN Checks : Checks[i].how = "logs" /\ i < check =>
              Globbed(i) \subseteq Range(logs)
    BY DEF Discovery
<1>6. Discovery'
    BY <1>1, <1>2, <1>3, <1>4, <1>5, DiscoveryStays DEF Searching
<1>7. Reading'
  <2>1. Len(logs') \in Nat
      BY <1>1 DEF Discovery
  <2> QED
      BY <1>1, <2>1, ReadingAwaits DEF Looking
<1> QED
    BY <1>6, <1>7 DEF LogInv

\* A log file is found, unless it was found before.
LEMMA DiscoverLogs ==
    ASSUME Searching, agent = "blue_team", Discovery, Reading, NEW f \in Files, DiscoverLog(f)
    PROVE  LogInv'
<1>1. /\ at = "walk" /\ at' = "walk" /\ f \in todo /\ How("logs")
      /\ logs' = IF f \in onDisk /\ f \notin Range(logs) THEN Append(logs, f) ELSE logs
      /\ todo' = IF Len(logs') >= MaxLogFiles THEN {} ELSE todo \ {f}
      /\ UNCHANGED <<agent, tree, onDisk, check, ingested, counted>>
    BY DEF DiscoverLog, Continue
<1>2. check \in DOMAIN Checks /\ Checks[check].how = "logs"
    BY <1>1 DEF How, Current, Searching, SearchShape
<1>3. /\ LogFiles' = LogFiles /\ Checks' = Checks /\ Present' = Present
      /\ \A i : Globbed(i)' = Globbed(i)
    BY <1>1, SearchFrame
<1>4. f \in Globbed(check) /\ f \in Present /\ tree.kind[f] \in LogKinds
  <2>1. f \in Globbed(check) /\ Checks[check].globs \subseteq LogKinds
      BY <1>1, <1>2, ChecksKinds DEF Searching, SearchShape
  <2> QED
      BY <2>1 DEF Globbed
<1>5. f \in LogFiles
    BY <1>4 DEF LogFiles
<1>6. logs \in Seq(Files) /\ IsInjective(logs) /\ Range(logs) \subseteq LogFiles
          /\ Len(logs) \in Nat
    BY DEF Discovery
<1>7. MaxLogFiles \in Nat \ {0}
    BY LimitsAssumption
<1>8. /\ logs' \in Seq(Files) /\ IsInjective(logs') /\ Range(logs') \subseteq LogFiles
      /\ Range(logs) \subseteq Range(logs') /\ (f \in onDisk => f \in Range(logs'))
      /\ Len(logs') \in Nat /\ Len(logs') >= Len(logs) /\ Len(logs') <= Len(logs) + 1
  <2>1. CASE logs' = logs
      BY <1>1, <1>6, <2>1 DEF Range
  <2>2. CASE f \in onDisk /\ f \notin Range(logs)
    <3>1. logs' = Append(logs, f)
        BY <1>1, <2>2
    <3>2. /\ logs' \in Seq(Files) /\ Len(logs') = Len(logs) + 1
          /\ Range(logs') = Range(logs) \cup {f} /\ IsInjective(logs')
        BY <1>6, <2>2, <3>1, AppendAdds
    <3> QED
        BY <1>5, <1>6, <3>2
  <2> QED
      BY <1>1, <2>1, <2>2
<1>9. tree.isDir => Len(logs) < MaxLogFiles
    BY <1>1 DEF Discovery
<1>10. Len(logs') <= MaxLogFiles
  <2>1. CASE tree.isDir
      BY <1>6, <1>7, <1>8, <1>9, <2>1
  <2>2. CASE ~tree.isDir
    <3>1. logs' = logs \/ (f \notin Range(logs) /\ f \in onDisk)
        BY <1>1
    <3>2. logs = <<>> => Len(logs) = 0
        OBVIOUS
    <3>3. logs # <<>> => f \in Range(logs)
      <4> SUFFICES ASSUME logs # <<>> PROVE f \in Range(logs)
          OBVIOUS
      <4>1. 1 \in DOMAIN logs /\ logs[1] \in Range(logs)
          BY <1>6 DEF Range
      <4>2. logs[1] \in Present
          BY <1>6, <4>1, AllLogsPresent
      <4>3. logs[1] = f
          BY <1>4, <2>2, <4>2, TreesAssumption DEF Present, Searching, SearchShape
      <4> QED
          BY <4>1, <4>3
    <3>4. Len(logs) <= MaxLogFiles
        BY DEF Discovery
    <3> QED
        BY <1>7, <1>8, <3>1, <3>2, <3>3, <3>4
  <2> QED
      BY <2>1, <2>2
<1>11. tree.isDir /\ todo' # {} => Len(logs') < MaxLogFiles
    BY <1>1, <1>7, <1>8
<1>12. Intact' => Intact
    BY <1>1, SearchFrame DEF Intact
<1>13. ASSUME Intact, tree.isDir, Len(logs') < MaxLogFiles
       PROVE  /\ \A i \in DOMAIN Checks : Checks[i].how = "logs" /\ i < check =>
                     Globbed(i) \subseteq Range(logs')
              /\ Globbed(check) \subseteq Range(logs') \cup todo'
  <2>1. /\ \A i \in DOMAIN Checks : Checks[i].how = "logs" /\ i < check =>
               Globbed(i) \subseteq Range(logs)
        /\ Globbed(check) \subseteq Range(logs) \cup todo
      BY <1>1, <1>9, <1>13 DEF Discovery
  <2>2. f \in Range(logs')
      BY <1>4, <1>8, <1>13 DEF Intact
  <2>3. todo' = todo \ {f}
      BY <1>1, <1>7, <1>8, <1>13
  <2> QED
      BY <1>8, <2>1, <2>2, <2>3
<1>14. Globbed(check)' = Globbed(check)
    BY <1>1, <1>3 DEF Globbed
<1>15. Discovery'
    BY <1>1, <1>2, <1>3, <1>8, <1>10, <1>11, <1>12, <1>13, <1>14 DEF Discovery, How, Current
<1>16. Reading'
    BY <1>1, <1>8, ReadingAwaits DEF Looking
<1> QED
    BY <1>15, <1>16 DEF LogInv

\* A walk is over; the discovery ends for all globs at its cap.
LEMMA EndLogs ==
    ASSUME Searching, agent = "blue_team", Discovery, Reading, EndWalk PROVE LogInv'
<1>1. /\ at = "walk" /\ at' = "check" /\ todo = {} /\ todo' = {}
      /\ UNCHANGED <<agent, tree, onDisk, logs, ingested, counted>>
      /\ check' = IF How("logs") /\ Len(logs) >= MaxLogFiles THEN Len(Checks) + 1 ELSE check + 1
    BY DEF EndWalk, Continue, NextCheck, events
<1>2. /\ check \in DOMAIN Checks /\ DOMAIN Checks = 1 .. Len(Checks) /\ Len(Checks) \in Nat
      /\ (How("logs") <=> Checks[check].how = "logs")
    BY <1>1, ChecksKinds DEF How, Current, Searching, SearchShape
<1>3. Len(logs) \in Nat /\ MaxLogFiles \in Nat
    BY LimitsAssumption DEF Discovery
<1>4. tree.isDir /\ check' <= Len(Checks) => Len(logs) < MaxLogFiles
  <2>1. ~How("logs") /\ tree.isDir => Len(logs) < MaxLogFiles
      BY <1>1 DEF Discovery
  <2> QED
      BY <1>1, <1>2, <1>3, <2>1
<1>5. Intact' => Intact
    BY <1>1, SearchFrame DEF Intact
<1>6. ASSUME Intact, tree.isDir, Len(logs) < MaxLogFiles, NEW i \in DOMAIN Checks,
             Checks[i].how = "logs", i < check'
      PROVE  Globbed(i) \subseteq Range(logs)
  <2>1. check' = check + 1
      BY <1>1, <1>3, <1>6
  <2>2. i < check \/ i = check
      BY <1>2, <1>6, <2>1
  <2>3. \A j \in DOMAIN Checks : Checks[j].how = "logs" /\ j < check =>
            Globbed(j) \subseteq Range(logs)
      BY <1>6 DEF Discovery
  <2>4. Checks[check].how = "logs" => Globbed(check) \subseteq Range(logs)
      BY <1>1, <1>2, <1>6 DEF Discovery
  <2> QED
      BY <1>6, <2>2, <2>3, <2>4
<1>7. Discovery'
    BY <1>1, <1>4, <1>5, <1>6, DiscoveryStays DEF Searching
<1>8. Reading'
    BY <1>1, <1>3, ReadingAwaits DEF Looking
<1> QED
    BY <1>7, <1>8 DEF LogInv

\* A walk raises.
LEMMA RaiseLogs ==
    ASSUME Searching, agent = "blue_team", Discovery, Reading, WalkRaises PROVE LogInv'
<1>1. /\ at = "walk" /\ ~(todo \subseteq onDisk)
      /\ UNCHANGED <<agent, tree, onDisk, logs, ingested, counted>>
      /\ at' = "raised" \/ (at' = "check" /\ ~How("logs") /\ todo' = {})
    BY DEF WalkRaises, Continue, NextCheck, events
<1>2. ~Intact'
    BY <1>1, SearchFrame DEF Searching, SearchShape, Intact
<1>3. tree.isDir => Len(logs) < MaxLogFiles
    BY <1>1 DEF Discovery
<1>4. Discovery'
    BY <1>1, <1>2, <1>3, DiscoveryStays DEF Searching
<1>5. Reading'
    BY <1>1, ReadingStays DEF Searching, SearchShape, Looking
<1> QED
    BY <1>4, <1>5 DEF LogInv

\* Steps that leave the logs and what was read of them alone.
LEMMA AsideLogs ==
    ASSUME Searching, agent = "blue_team", Discovery, Reading, onDisk' \subseteq onDisk,
           UNCHANGED <<agent, tree, check, logs, ingested, counted>>,
           \/ at' = at /\ todo' = todo
           \/ at' # "walk" /\ (at' \in {"start", "check"} => at \in {"start", "check"}),
           at' \in Looking => at \in Looking,
           at' \in {"return", "done"} /\ logs # <<>> =>
               at \in {"return", "done"} /\ findings' = findings
    PROVE  LogInv'
<1>1. Intact' => Intact
    BY SearchFrame DEF Intact, Searching, SearchShape
<1>2. /\ at' = "walk" => check \in DOMAIN Checks
      /\ at = "walk" => (How("logs") <=> Checks[check].how = "logs")
    BY ChecksKinds DEF Searching, SearchShape, How, Current
<1>3. tree.isDir /\ (\/ at' \in {"start", "check"} /\ check' <= Len(Checks)
                     \/ at' = "walk" /\ (todo' # {} \/ Checks[check'].how # "logs")) =>
          Len(logs) < MaxLogFiles
    BY <1>2 DEF Discovery
<1>4. Intact' /\ tree.isDir /\ Len(logs) < MaxLogFiles =>
          /\ \A i \in DOMAIN Checks : Checks[i].how = "logs" /\ i < check' =>
                 Globbed(i) \subseteq Range(logs)
          /\ at' = "walk" /\ Checks[check'].how = "logs" =>
                 Globbed(check) \subseteq Range(logs) \cup todo'
    BY <1>1, <1>2 DEF Discovery
<1>5. Discovery'
    BY <1>2, <1>3, <1>4, DiscoveryStays DEF Searching
<1>6. Reading'
    BY ReadingStays DEF Searching, SearchShape
<1> QED
    BY <1>5, <1>6 DEF LogInv

\* The next log file is read, or passed over.
LEMMA NextLog ==
    ASSUME Searching, agent = "blue_team", Discovery, Reading, ReadLog PROVE LogInv'
<1> DEFINE f == logs[ingested[1] + 1]
           ok == f \in onDisk \cap tree.readable
           n  == ingested[1]
           read == ingested[2]
<1>1. /\ at = "logs" /\ at' = "logs" /\ n < Len(logs)
      /\ counted' = IF ok THEN Ingest(f, counted) ELSE counted
      /\ ingested' = <<n + 1, IF ok THEN read \cup {f} ELSE read>>
      /\ UNCHANGED <<agent, tree, onDisk, check, todo, logs>>
    BY DEF ReadLog, Continue, walk
<1>2. /\ n \in 0 .. Len(logs) /\ read \subseteq Taken /\ Counted(counted, LinesIn(read))
      /\ Intact => read = Taken \cap tree.readable
    BY DEF Reading
<1>3. logs \in Seq(Files) /\ IsInjective(logs) /\ Range(logs) \subseteq LogFiles
    BY DEF Discovery
<1>4. n + 1 \in DOMAIN logs /\ f \in Files /\ f \in Range(logs)
    BY <1>1, <1>2, <1>3 DEF Range
<1>5. f \notin Taken
  <2> SUFFICES ASSUME NEW j \in 1 .. n, logs[j] = f PROVE FALSE
      BY DEF Taken
  <2>1. j \in DOMAIN logs /\ j # n + 1
      BY <1>1, <1>2, <1>3
  <2> QED
      BY <1>4, <2>1, <1>3 DEF IsInjective
<1>6. ingested'[1] = n + 1 /\ ingested'[2] = (IF ok THEN read \cup {f} ELSE read)
    BY <1>1
<1>7. Taken' = Taken \cup {f}
  <2>1. Taken' = {logs[j] : j \in 1 .. n + 1}
      BY <1>1, <1>6 DEF Taken
  <2>2. 1 .. n + 1 = (1 .. n) \cup {n + 1}
      BY <1>2
  <2> QED
      BY <2>1, <2>2 DEF Taken
<1>8. ingested'[2] \subseteq Taken'
    BY <1>2, <1>6, <1>7
<1>9. Intact' => ingested'[2] = Taken' \cap tree.readable
  <2>1. Intact' => Intact
      BY <1>1, SearchFrame DEF Intact
  <2>2. Intact => f \in onDisk
      BY <1>3, <1>4, AllLogsPresent DEF Intact
  <2> HIDE DEF f
  <2> QED
      BY <1>2, <1>6, <1>7, <2>1, <2>2
<1>10. Counted(counted', LinesIn(ingested'[2]))
  <2>1. CASE ok
    <3>1. f \notin read
        BY <1>2, <1>5
    <3>2. Counted(Ingest(f, counted), LinesIn(read \cup {f}))
        BY <1>2, <1>4, <3>1, IngestCounts DEF Searching, SearchShape
    <3> HIDE DEF f, read
    <3> QED
        BY <1>1, <1>6, <2>1, <3>2
  <2>2. CASE ~ok
    <3> HIDE DEF f, read
    <3> QED
        BY <1>1, <1>2, <1>6, <2>2
  <2> QED
      BY <2>1, <2>2
<1>11. Counted(counted, LinesIn(ingested[2]))'
  <2>1. LinesIn(ingested[2])' = LinesIn(ingested'[2])
      BY <1>1 DEF LinesIn, Lines
  <2>2. \A l : LineAt(l)' = LineAt(l)
      BY <1>1 DEF LineAt, Lines
  <2> QED
      BY <1>10, <2>1, <2>2 DEF Counted, Failures, Probings, Origin
<1>12. Reading'
  <2>1. ingested'[1] \in 0 .. Len(logs')
      BY <1>1, <1>2, <1>3, <1>6
  <2>2. ingested' = <<ingested'[1], ingested'[2]>>
      BY <1>1, <1>6
  <2> QED
      BY <1>1, <1>8, <1>9, <1>11, <2>1, <2>2 DEF Reading, Looking
<1>13. Discovery'
  <2>1. Intact' => Intact
      BY <1>1, SearchFrame DEF Intact
  <2>2. Intact /\ tree.isDir /\ Len(logs) < MaxLogFiles =>
            \A i \in DOMAIN Checks : Checks[i].how = "logs" /\ i < check =>
                Globbed(i) \subseteq Range(logs)
      BY DEF Discovery
  <2> QED
      BY <1>1, <2>1, <2>2, DiscoveryStays DEF Searching
<1> QED
    BY <1>12, <1>13 DEF LogInv

\* The analysis says what the counts say.
LEMMA JudgedLogs ==
    ASSUME Searching, agent = "blue_team", Discovery, Reading, JudgeLogs PROVE LogInv'
<1> DEFINE read == ingested[2]
           A == AtLeast(counted.failed, BruteForceThreshold)
           B == AtLeast(counted.probes, ScannerThreshold)
           suspicious == counted.found \cup {<<"brute_force", k>> : k \in A}
                             \cup {<<"scanning", k>> : k \in B}
           found == IF suspicious = {} THEN {<<"quiet_logs", "target">>}
                    ELSE suspicious \cup {<<"incident", "target">>}
<1>1. /\ at = "logs" /\ at' = "return" /\ findings' = findings \cup found /\ ingested[1] = Len(logs)
      /\ UNCHANGED <<agent, tree, onDisk, check, todo, logs, ingested, counted>>
    BY DEF JudgeLogs, Continue, source, walk, events
<1>2. tree \in Trees /\ read \in SUBSET Files /\ Counted(counted, LinesIn(read))
  <2>1. Taken \subseteq Files
      BY DEF Taken, Reading, Discovery
  <2> QED
      BY <2>1 DEF Searching, SearchShape, Reading
<1>3. \A x \in findings : \E m \in PatternMarks, p \in Files \cup {"target"} : x = <<m, p>>
    BY <1>1 DEF Searching, SaysWhatIsThere
<1>4. PatternMarks \cap Verdicts = {}
    BY PatternsAreNoVerdicts DEF Searching
<1>5. /\ \A x \in counted.found : \E m \in LineMarks, f \in read : x = <<m, f>>
      /\ counted.found # {} <=> \E l \in LinesIn(read) : LineAt(l).marks # {}
    BY <1>2, EventsAreMarks
<1>6. /\ \A f \in Files, s \in Sources : <<f, s>> \in A <=> f \in read /\ s \in BruteForce(f)
      /\ \A k \in A : \E f \in read, s \in Sources : k = <<f, s>>
    BY <1>2, FailuresJudged
<1>7. /\ \A k \in Files \cup Sources : k \in B <=> k \in Scanners(read)
      /\ B \subseteq Files \cup Sources
    BY <1>2, ProbesJudged
<1>8. suspicious # {} <=> Suspicious(read)
  <2>1. A # {} <=> \E f \in read : BruteForce(f) # {}
    <3>1. \A f : BruteForce(f) \subseteq Sources
        BY DEF BruteForce
    <3> HIDE DEF A, read
    <3>2. ASSUME A # {} PROVE \E f \in read : BruteForce(f) # {}
      <4>1. PICK f \in read, s \in Sources : <<f, s>> \in A
          BY <1>6, <3>2
      <4> QED
          BY <1>2, <1>6, <4>1
    <3>3. ASSUME NEW f \in read, BruteForce(f) # {} PROVE A # {}
      <4>1. PICK s \in Sources : s \in BruteForce(f)
          BY <3>1, <3>3
      <4>2. <<f, s>> \in A
          BY <1>2, <1>6, <4>1
      <4> QED
          BY <4>2
    <3> QED
        BY <3>2, <3>3
  <2>2. B # {} <=> Scanners(read) # {}
    <3>1. Scanners(read) \subseteq Files \cup Sources
        BY <1>2 DEF Scanners
    <3> HIDE DEF B, read
    <3> QED
        BY <1>7, <3>1
  <2>3. suspicious # {} <=> counted.found # {} \/ A # {} \/ B # {}
    <3> HIDE DEF A, B
    <3> QED
        OBVIOUS
  <2> HIDE DEF suspicious, A, B, read
  <2> QED
      BY <1>5, <2>1, <2>2, <2>3 DEF Suspicious
<1>9. /\ \A k : <<"brute_force", k>> \in findings' <=> k \in A
      /\ \A k : <<"scanning", k>> \in findings' <=> k \in B
      /\ <<"quiet_logs", "target">> \in findings' <=> suspicious = {}
      /\ <<"incident", "target">> \in findings' <=> suspicious # {}
  <2>1. \A v \in Verdicts : \A p : <<v, p>> \notin findings
      BY <1>3, <1>4
  <2>2. \A v \in Verdicts \ LineMarks : \A p : <<v, p>> \notin counted.found
      BY <1>5
  <2>3. \A v \in {"brute_force", "scanning", "quiet_logs", "incident"} : v \in Verdicts \ LineMarks
      BY DEF Verdicts, LineMarks
  <2>4. \A k : <<"brute_force", k>> \in suspicious <=> k \in A
    <3> HIDE DEF A, B
    <3> QED
        BY <2>2, <2>3
  <2>5. \A k : <<"scanning", k>> \in suspicious <=> k \in B
    <3> HIDE DEF A, B
    <3> QED
        BY <2>2, <2>3
  <2>6. <<"quiet_logs", "target">> \notin suspicious /\ <<"incident", "target">> \notin suspicious
    <3> HIDE DEF A, B
    <3> QED
        BY <2>2, <2>3
  <2> HIDE DEF suspicious, A, B
  <2>7. \A k : <<"brute_force", k>> \in found <=> k \in A
    BY <2>4
  <2>8. \A k : <<"scanning", k>> \in found <=> k \in B
    BY <2>5
  <2>9. /\ <<"quiet_logs", "target">> \in found <=> suspicious = {}
        /\ <<"incident", "target">> \in found <=> suspicious # {}
    BY <2>6
  <2> HIDE DEF found
  <2> QED
    BY <1>1, <2>1, <2>3, <2>7, <2>8, <2>9
<1> HIDE DEF suspicious, found, A, B
<1>10. LogsSaid(ingested[2])'
  <2>1. Suspicious(ingested[2])' <=> Suspicious(read)
      BY <1>1 DEF Suspicious, Scanners, ProbesFrom, LinesIn, LineAt, Lines, BruteForce, FailedFrom
  <2>2. Scanners(ingested[2])' = Scanners(read)
      BY <1>1 DEF Scanners, ProbesFrom, LinesIn, LineAt, Lines
  <2>3. \A f : BruteForce(f)' = BruteForce(f)
      BY <1>1 DEF BruteForce, FailedFrom, LinesIn, LineAt, Lines
  <2>4. ingested'[2] = read
      BY <1>1
  <2> HIDE DEF read
  <2> QED
      BY <1>6, <1>7, <1>8, <1>9, <2>1, <2>2, <2>3, <2>4 DEF LogsSaid
<1>11. Reading'
  <2>1. Taken' = Taken
      BY <1>1 DEF Taken
  <2>2. Intact' => Intact
      BY <1>1, SearchFrame DEF Intact
  <2>3. Counted(counted, LinesIn(ingested[2]))'
    <3>1. LinesIn(ingested[2])' = LinesIn(read)
        BY <1>1 DEF LinesIn, Lines
    <3>2. \A l : LineAt(l)' = LineAt(l)
        BY <1>1 DEF LineAt, Lines
    <3> QED
        BY <1>1, <1>2, <3>1, <3>2 DEF Counted, Failures, Probings, Origin
  <2> QED
      BY <1>1, <1>10, <2>1, <2>2, <2>3 DEF Reading, Looking
<1>12. Discovery'
  <2>1. Intact' => Intact
      BY <1>1, SearchFrame DEF Intact
  <2>2. Intact /\ tree.isDir /\ Len(logs) < MaxLogFiles =>
            \A i \in DOMAIN Checks : Checks[i].how = "logs" /\ i < check =>
                Globbed(i) \subseteq Range(logs)
      BY DEF Discovery
  <2> QED
      BY <1>1, <2>1, <2>2, DiscoveryStays DEF Searching
<1> QED
    BY <1>11, <1>12 DEF LogInv

(* What the agents that look for patterns say.                               *)

\* Every step of the agents that read files keeps both invariants.
LEMMA SearchOfSource ==
    ASSUME Searching, LogInv, StepSource PROVE SearchInv' /\ LogInv'
<1>1. agent = "blue_team" => Discovery /\ Reading
    BY DEF LogInv
<1>2. agent' = agent
    BY SourceStages
<1>3. agent # "blue_team" => LogInv'
    BY <1>2 DEF LogInv
<1>4. CASE Begin
  <2>1. agent = "blue_team" => LogInv'
      BY <1>1, <1>4, AsideLogs DEF Begin, Continue, source, walk, events, Looking
  <2> QED
      BY <1>3, <1>4, <2>1, BeginSearch
<1>5. CASE SkipCheck
    BY <1>1, <1>3, <1>5, SkipSearch, SkipLogs
<1>6. CASE StartWalk
    BY <1>1, <1>3, <1>6, StartSearch, StartLogs
<1>7. CASE EndWalk
    BY <1>1, <1>3, <1>7, EndSearch, EndLogs
<1>8. CASE WalkRaises
    BY <1>1, <1>3, <1>8, RaiseSearch, RaiseLogs
<1>9. CASE EndChecks
  <2>1. agent = "blue_team" => LogInv'
      BY <1>1, <1>9, AsideLogs DEF EndChecks, Continue, source, walk, events, Looking
  <2> QED
      BY <1>3, <1>9, <2>1, EndAllSearch
<1>10. CASE ReadLog
  <2>1. agent = "blue_team"
      BY <1>10 DEF ReadLog, Continue, Searching, SearchShape
  <2>2. SearchInv'
    <3> DEFINE found == {}
    <3>1. findings' = findings \cup found /\ at = "logs" /\ at' = "logs"
          /\ UNCHANGED <<agent, tree, onDisk, check, todo, hit>>
        BY <1>10 DEF ReadLog, Continue, walk
    <3>2. found = {} /\ \A x \in found : \E v \in Verdicts \ {"chain"} : \E p : x = <<v, p>>
        OBVIOUS
    <3>3. agent # "red_team"
        BY <2>1
    <3> HIDE DEF found
    <3> QED
        BY <3>1, <3>2, <3>3, LaterSearch
  <2> QED
      BY <1>1, <1>10, <2>1, <2>2, NextLog
<1>11. CASE JudgeLogs
  <2>1. agent = "blue_team"
      BY <1>11 DEF JudgeLogs, Continue, Searching, SearchShape
  <2>2. SearchInv'
    <3> DEFINE suspicious ==
                   counted.found
                     \cup {<<"brute_force", k>> :
                         k \in AtLeast(counted.failed, BruteForceThreshold)}
                     \cup {<<"scanning", k>> : k \in AtLeast(counted.probes, ScannerThreshold)}
               found == IF suspicious = {} THEN {<<"quiet_logs", "target">>}
                        ELSE suspicious \cup {<<"incident", "target">>}
    <3>1. findings' = findings \cup found /\ at = "logs" /\ at' = "return"
          /\ UNCHANGED <<agent, tree, onDisk, check, todo, hit>>
        BY <1>11 DEF JudgeLogs, Continue, source, walk
    <3>2. \A x \in counted.found : \E m \in LineMarks, f \in ingested[2] : x = <<m, f>>
      <4>1. ingested[2] \in SUBSET Files /\ Counted(counted, LinesIn(ingested[2]))
          BY <1>1, <2>1 DEF Taken, Reading, Discovery
      <4> QED
          BY <4>1, EventsAreMarks DEF Searching, SearchShape
    <3>3. \A x \in found : \E v \in Verdicts \ {"chain"} : \E p : x = <<v, p>>
      <4>1. LineMarks \subseteq Verdicts \ {"chain"}
          BY DEF LineMarks, Verdicts
      <4>2. \A v \in {"brute_force", "scanning", "quiet_logs", "incident"} :
                v \in Verdicts \ {"chain"}
          BY DEF LineMarks, Verdicts
      <4>3. \A x \in suspicious : \E v \in Verdicts \ {"chain"} : \E p : x = <<v, p>>
          BY <3>2, <4>1, <4>2
      <4> HIDE DEF suspicious
      <4> QED
          BY <4>2, <4>3
    <3> HIDE DEF found
    <3> QED
        BY <2>1, <3>1, <3>3, LaterSearch
  <2> QED
      BY <1>1, <1>11, <2>1, <2>2, JudgedLogs
<1>12. CASE \E f \in Files : ReadFile(f)
  <2>1. PICK f \in Files : ReadFile(f)
      BY <1>12
  <2>2. agent = "blue_team" => LogInv'
    <3>1. at = "walk" /\ at' = "walk" /\ ~How("logs")
              /\ UNCHANGED <<agent, tree, onDisk, check, events>>
        BY <2>1 DEF ReadFile, Continue, How
    <3> QED
        BY <1>1, <3>1, WalkLogs
  <2> QED
      BY <1>3, <2>1, <2>2, ReadSearch
<1>13. CASE \E f \in Files : ReadUntilFound(f)
  <2>1. PICK f \in Files : ReadUntilFound(f)
      BY <1>13
  <2>2. agent = "blue_team" => LogInv'
    <3>1. at = "walk" /\ at' = "walk" /\ ~How("logs")
              /\ UNCHANGED <<agent, tree, onDisk, check, events>>
        BY <2>1 DEF ReadUntilFound, Continue, How
    <3> QED
        BY <1>1, <3>1, WalkLogs
  <2> QED
      BY <1>3, <2>1, <2>2, SearchUntilFound
<1>14. CASE \E f \in Files : DiscoverLog(f)
    BY <1>1, <1>3, <1>14, DiscoverSearch, DiscoverLogs
<1>15. ~(StartTool \/ EndTool \/ \E t \in Files \cup {"target"} : RunTool(t))
  <2>1. ~StartTool
      BY DEF StartTool, Searching, ToolAgents, PatternAgents
  <2>2. ~EndTool /\ \A t \in Files \cup {"target"} : ~RunTool(t)
      BY DEF EndTool, RunTool, Continue, Searching, SearchShape, Looking
  <2> QED
      BY <2>1, <2>2
<1> QED
    BY <1>4, <1>5, <1>6, <1>7, <1>8, <1>9, <1>10, <1>11, <1>12, <1>13, <1>14, <1>15 DEF StepSource

\* The end of execute.
LEMMA ReturnSearch ==
    ASSUME Searching, LogInv, NoTarget \/ Return, UNCHANGED source PROVE SearchInv' /\ LogInv'
<1>1. UNCHANGED <<agent, tree, onDisk, check, todo, hit, logs, ingested, counted>>
    BY DEF NoTarget, Return, Continue, source, walk, events
<1>2. agent = "blue_team" => Discovery /\ Reading
    BY DEF LogInv
<1>3. agent # "blue_team" => LogInv'
    BY <1>1 DEF LogInv
<1>4. CASE NoTarget
  <2>1. at = "start" /\ at' = "no_target" /\ findings' = findings
      BY <1>4 DEF NoTarget, Continue
  <2>2. agent = "blue_team" => LogInv'
      BY <1>1, <1>2, <2>1, AsideLogs DEF Looking
  <2>3. SearchShape'
    <3>1. Present' = Present
        BY <1>1, SearchFrame
    <3> QED
        BY <1>1, <2>1, <3>1 DEF Searching, SearchShape, Looking
  <2>4. SaysWhatIsThere'
      BY <1>1, <2>1, SearchFrame DEF Searching, SaysWhatIsThere, Looking
  <2>5. ASSUME Intact', tree'.isDir PROVE SaysAll'
    <3>1. SaysAll
        BY <1>1, <2>5, SearchFrame DEF Searching, Intact
    <3> QED
        BY <1>1, <2>1, <3>1, SearchFrame, SaidStays DEF SaysAll
  <2> QED
      BY <1>3, <2>2, <2>3, <2>4, <2>5 DEF SearchInv
<1>5. CASE Return
  <2> DEFINE found == IF findings = {} /\ agent \in Reassuring
                 THEN {<<"completed", "target">>} ELSE {}
  <2>1. at = "return" /\ at' = "done" /\ findings' = findings \cup found
      BY <1>5 DEF Return, Continue
  <2>2. \A x \in found : \E v \in Verdicts \ {"chain"} : \E p : x = <<v, p>>
      BY DEF Verdicts
  <2>3. agent = "blue_team" /\ logs # <<>> => findings' = findings
    <3> SUFFICES ASSUME agent = "blue_team", logs # <<>> PROVE findings # {}
        BY <2>1
    <3>1. LogsSaid(ingested[2])
        BY <1>2, <2>1 DEF Reading
    <3> QED
        BY <3>1 DEF LogsSaid
  <2> HIDE DEF found
  <2>4. SearchInv'
      BY <1>1, <2>1, <2>2, LaterSearch
  <2>5. agent = "blue_team" => LogInv'
      BY <1>1, <1>2, <2>1, <2>3, AsideLogs DEF Looking
  <2> QED
      BY <1>3, <2>4, <2>5
<1> QED
    BY <1>4, <1>5

\* A file of the clone goes: what was there is not whole any more.
LEMMA RemoveSearch ==
    ASSUME Searching, LogInv, NEW f \in Files, RemoveFile(f) PROVE SearchInv' /\ LogInv'
<1>1. /\ f \in onDisk /\ onDisk' = onDisk \ {f}
      /\ UNCHANGED <<run, agent, at, findings, tree, check, todo, hit, logs, ingested, counted>>
    BY DEF RemoveFile, run, walk, events
<1>2. Present' = Present /\ Checks' = Checks
    BY <1>1, SearchFrame
<1>3. SearchShape'
  <2>1. Globbed(check)' = Globbed(check)
      BY <1>1, <1>2 DEF Globbed
  <2> QED
      BY <1>1, <1>2, <2>1 DEF Searching, SearchShape
<1>4. SaysWhatIsThere'
    BY <1>1, SearchFrame DEF Searching, SaysWhatIsThere
<1>5. ~Intact'
    BY <1>1, <1>2 DEF Searching, SearchShape, Intact
<1>6. agent = "blue_team" => LogInv'
    BY <1>1, AsideLogs DEF LogInv
<1>7. agent # "blue_team" => LogInv'
    BY <1>1 DEF LogInv
<1> QED
    BY <1>3, <1>4, <1>5, <1>6, <1>7 DEF SearchInv

\* Every step keeps both invariants.
LEMMA PatternStep == SearchInv /\ LogInv /\ [Next]_vars => SearchInv' /\ LogInv'
<1> SUFFICES ASSUME SearchInv, LogInv, [Next]_vars PROVE SearchInv' /\ LogInv'
    OBVIOUS
<1>1. agent' = agent
  <2>1. StepSource \/ StepWeb \/ StepApi => agent' = agent
      BY SourceStages, WebStages, ApiStages
  <2>2. NoTarget \/ Return => agent' = agent
      BY DEF NoTarget, Return, Continue
  <2>3. Around \/ UNCHANGED vars => agent' = agent
      BY DEF Around, RemoveFile, WindowReset, vars, run
  <2> QED
      BY <2>1, <2>2, <2>3 DEF Next, Step
<1>2. CASE agent \notin PatternAgents
    BY <1>1, <1>2 DEF SearchInv, LogInv, PatternAgents
<1>3. CASE agent \in PatternAgents
  <2>1. Searching
      BY <1>3 DEF SearchInv, Searching
  <2>2. CASE StepSource
      BY <2>1, <2>2, SearchOfSource
  <2>3. ~StepWeb /\ ~StepApi
      BY <1>3, <2>1, WebStages, ApiStages
         DEF Searching, SearchShape, Looking, PatternAgents, UrlStages
  <2>4. CASE (NoTarget \/ Return) /\ UNCHANGED <<source, web, probing>>
      BY <2>1, <2>4, ReturnSearch
  <2>5. CASE \E f \in Files : RemoveFile(f)
      BY <2>1, <2>5, RemoveSearch
  <2>6. CASE UNCHANGED <<run, source>>
    <3>1. UNCHANGED <<agent, at, findings, tree, onDisk, check, todo, hit, logs, ingested, counted>>
        BY <2>6 DEF run, source, walk, events
    <3>2. agent = "blue_team" => LogInv'
        BY <2>1, <3>1, AsideLogs DEF LogInv
    <3>3. agent # "blue_team" => LogInv'
        BY <3>1 DEF LogInv
    <3>4. SearchShape'
      <4>1. Globbed(check)' = Globbed(check) /\ Present' = Present /\ Checks' = Checks
          BY <3>1, SearchFrame DEF Globbed
      <4> QED
          BY <2>1, <3>1, <4>1 DEF Searching, SearchShape
    <3>5. SaysWhatIsThere'
        BY <2>1, <3>1, SearchFrame DEF Searching, SaysWhatIsThere
    <3>6. ASSUME Intact', tree'.isDir PROVE SaysAll'
      <4>1. SaysAll
          BY <2>1, <3>1, <3>6, SearchFrame DEF Searching, Intact
      <4>2. SaidSoFar(check)' <=> SaidSoFar(check)
        <5>1. Checks' = Checks /\ With(check)' = With(check)
            BY <3>1, SearchFrame DEF With, HasPattern
        <5> QED
            BY <3>1, <5>1 DEF SaidSoFar
      <4> QED
          BY <3>1, <4>1, <4>2, SearchFrame, SaidStays DEF SaysAll
    <3> QED
        BY <3>2, <3>3, <3>4, <3>5, <3>6 DEF SearchInv
  <2>7. WindowReset /\ UNCHANGED <<source, web>> => UNCHANGED <<run, source>>
      BY DEF WindowReset
  <2>8. UNCHANGED vars => UNCHANGED <<run, source>>
      BY DEF vars
  <2> QED
      BY <2>2, <2>3, <2>4, <2>5, <2>6, <2>7, <2>8 DEF Next, Step, Around
<1> QED
    BY <1>2, <1>3

(* The theorem about the agents that look for patterns.                      *)

\* The invariants hold before the run begins.
LEMMA PatternInit == Init => SearchInv /\ LogInv
<1> SUFFICES ASSUME Init PROVE SearchInv /\ LogInv
    OBVIOUS
<1>1. CASE agent \in PatternAgents
    BY <1>1, SearchBegins, LogsBegin DEF Init
<1>2. CASE agent \notin PatternAgents
    BY <1>2 DEF SearchInv, LogInv, PatternAgents
<1> QED
    BY <1>1, <1>2

\* A check for what is missing looks for something.
LEMMA LacksLooksForMarks ==
    ASSUME agent \in PatternAgents, NEW i \in DOMAIN Checks, Checks[i].how = "lacks"
    PROVE  Checks[i].marks # {}
<1>1. agent = "blue_team"
    BY ChecksKinds
<1>2. DOMAIN Checks = 1 .. 7
    BY <1>1, BlueChecksAre
<1>3. i = 1 \/ i = 3
    BY <1>1, <1>2, BlueChecksAre DEF First, Lacks, Discover, Check
<1> QED
    BY <1>1, <1>3, BlueChecksAre DEF Lacks, Check

\* A sequence that repeats nothing is as long as the set of what it holds.
LEMMA DifferentElements ==
    ASSUME NEW S, NEW q \in Seq(S), IsInjective(q)
    PROVE  IsFiniteSet(Range(q)) /\ Cardinality(Range(q)) = Len(q)
<1>1. IsFiniteSet(1 .. Len(q)) /\ Cardinality(1 .. Len(q)) = Len(q)
  <2>1. \A a, b \in Int : /\ IsFiniteSet(a .. b)
                         /\ Cardinality(a .. b) = IF a > b THEN 0 ELSE b - a + 1
      BY FS_Interval
  <2>2. Len(q) \in Nat
      OBVIOUS
  <2> QED
      BY <2>1, <2>2
<1>2. DOMAIN q = 1 .. Len(q) /\ q \in [1 .. Len(q) -> Range(q)]
    BY DEF Range
<1>3. q \in Injection(1 .. Len(q), Range(q))
    BY <1>2 DEF Injection, IsInjective
<1>4. q \in Surjection(1 .. Len(q), Range(q))
    BY <1>2 DEF Surjection, Range
<1> QED
    BY <1>1, <1>3, <1>4, FS_Surjection

\* At the end every check is over, so that what is said is what is there.
LEMMA ReportAlwaysMatches == SearchInv => ReportMatchesTree
<1> SUFFICES ASSUME SearchInv, agent \in PatternAgents, at = "done", check > Len(Checks)
             PROVE  ReportMatchesTree
    BY DEF ReportMatchesTree
<1>1. SearchShape /\ SaysWhatIsThere /\ (Intact /\ tree.isDir => SaysAll)
    BY DEF SearchInv
<1>2. \A f \in Present :
          {m \in PatternMarks : <<m, f>> \in findings} \subseteq tree.marks[f]
    BY <1>1 DEF SaysWhatIsThere, LooksFor, Present
<1>3. ASSUME Intact, tree.isDir, NEW i \in DOMAIN Checks
      PROVE  LET c    == Checks[i]
                 with == {f \in Present : HasPattern(f, c)}
             IN  /\ c.how = "each" =>
                        \A f \in with : \A m \in c.marks \cap tree.marks[f] : <<m, f>> \in findings
                 /\ c.how = "first" =>
                        (with # {} <=> \E f \in with, m \in c.marks : <<m, f>> \in findings)
                 /\ c.how = "lacks" =>
                        (with = {} <=> \A m \in c.marks : <<m, "target">> \in findings)
  <2> DEFINE c    == Checks[i]
             with == {f \in Present : HasPattern(f, c)}
  <2>1. SaysAll
      BY <1>1, <1>3
  <2>2. Said(i)
    <3>1. i < check
        BY <1>1, ChecksKinds DEF SearchShape
    <3> QED
        BY <2>1, <3>1 DEF SaysAll
  <2>3. with = With(i)
      BY DEF With
  <2>5. c.how = "lacks" /\ (\A m \in c.marks : <<m, "target">> \in findings) => with = {}
    <3> SUFFICES ASSUME c.how = "lacks", \A m \in c.marks : <<m, "target">> \in findings
                 PROVE  with = {}
        OBVIOUS
    <3>1. c.marks # {}
        BY LacksLooksForMarks
    <3>2. PICK m \in c.marks : TRUE
        BY <3>1
    <3> QED
        BY <2>1, <2>3, <3>2 DEF SaysAll
  <2>6. c.how = "each" =>
            \A f \in with : \A m \in c.marks \cap tree.marks[f] : <<m, f>> \in findings
      BY <2>2, <2>3 DEF Said
  <2>7. c.how = "first" => (with # {} => \E f \in with, m \in c.marks : <<m, f>> \in findings)
      BY <2>2, <2>3 DEF Said
  <2>8. c.how = "lacks" => (with = {} => \A m \in c.marks : <<m, "target">> \in findings)
      BY <2>2, <2>3 DEF Said
  <2> HIDE DEF with, c
  <2>9. c.how = "first" =>
            (with # {} <=> \E f \in with, m \in c.marks : <<m, f>> \in findings)
      BY <2>7
  <2>10. c.how = "lacks" =>
             (with = {} <=> \A m \in c.marks : <<m, "target">> \in findings)
      BY <2>5, <2>8
  <2>11. /\ c.how = "each" =>
               \A f \in with : \A m \in c.marks \cap tree.marks[f] : <<m, f>> \in findings
         /\ c.how = "first" =>
               (with # {} <=> \E f \in with, m \in c.marks : <<m, f>> \in findings)
         /\ c.how = "lacks" =>
               (with = {} <=> \A m \in c.marks : <<m, "target">> \in findings)
      BY <2>6, <2>9, <2>10
  <2> QED
      BY <2>11 DEF c, with
<1>4. \A k \in Keys : <<"chain", k>> \in findings => k # "" /\ HasTwoSteps(PythonOf(k))
    BY <1>1 DEF SaysWhatIsThere, Chains
<1>5. Intact /\ tree.isDir /\ agent = "red_team" =>
          \A k \in Keys \ {""} : HasTwoSteps(PythonOf(k)) => <<"chain", k>> \in findings
    BY <1>1 DEF SaysAll, Chains
<1> QED
    BY <1>2, <1>3, <1>4, <1>5 DEF ReportMatchesTree

\* Up to the cap every log file of what is whole has been found.
LEMMA AllLogsFound ==
    ASSUME agent = "blue_team", SearchShape, Discovery, Intact, logs # <<>>, check > Len(Checks),
           at \notin Looking
    PROVE  Len(logs) = Min({MaxLogFiles, Cardinality(LogFiles)})
<1>1. /\ logs \in Seq(Files) /\ IsInjective(logs) /\ Range(logs) \subseteq LogFiles
      /\ Len(logs) <= MaxLogFiles /\ MaxLogFiles \in Nat \ {0}
    BY LimitsAssumption DEF Discovery
<1>2. IsFiniteSet(LogFiles) /\ IsFiniteSet(Range(logs))
      /\ Cardinality(LogFiles) \in Nat /\ Cardinality(Range(logs)) \in Nat
  <2>1. LogFiles \subseteq Files /\ Range(logs) \subseteq Files
      BY <1>1, AllLogsPresent
  <2> QED
      BY <2>1, TreesAssumption, FS_Subset, FS_CardinalityType
<1>3. Cardinality(Range(logs)) = Len(logs)
    BY <1>1, DifferentElements
<1>4. Len(logs) <= Cardinality(LogFiles)
    BY <1>1, <1>2, <1>3, FS_Subset
<1>5. Len(logs) < MaxLogFiles => Range(logs) = LogFiles
  <2> SUFFICES ASSUME Len(logs) < MaxLogFiles, NEW f \in LogFiles PROVE f \in Range(logs)
      BY <1>1
  <2>1. CASE tree.isDir
    <3>1. f \in Present /\ tree.kind[f] \in LogKinds
        BY <2>1 DEF LogFiles
    <3>2. PICK i \in DOMAIN Checks : Checks[i].how = "logs" /\ tree.kind[f] \in Checks[i].globs
        BY <3>1, GlobsCover
    <3>3. i < check
        BY ChecksKinds DEF SearchShape, PatternAgents
    <3>4. f \in Globbed(i)
        BY <3>1, <3>2 DEF Globbed
    <3> QED
        BY <2>1, <3>2, <3>3, <3>4 DEF Discovery
  <2>2. CASE ~tree.isDir
    <3>1. Len(logs) # 0
        BY <1>1
    <3>2. 1 \in DOMAIN logs /\ logs[1] \in Range(logs)
        BY <1>1, <3>1 DEF Range
    <3>3. \A g, h \in Present : g = h
        BY <2>2, TreesAssumption DEF SearchShape, Present
    <3> QED
        BY <1>1, <3>2, <3>3, AllLogsPresent
  <2> QED
      BY <2>1, <2>2
<1>6. CASE Len(logs) < MaxLogFiles
    BY <1>1, <1>2, <1>3, <1>4, <1>5, <1>6 DEF Min
<1>7. CASE Len(logs) = MaxLogFiles
    BY <1>1, <1>2, <1>4, <1>7 DEF Min
<1> QED
    BY <1>1, <1>6, <1>7

\* The word on the logs is the one on the files that were read.
LEMMA LogAlwaysJudged == SearchInv /\ LogInv => LogVerdict
<1> SUFFICES ASSUME SearchInv, LogInv, agent = "blue_team", at = "done", logs # <<>>
             PROVE  LogVerdict
    BY DEF LogVerdict
<1>1. SearchShape /\ Discovery /\ Reading
    BY DEF SearchInv, LogInv, PatternAgents
<1>2. LogsSaid(ingested[2]) /\ ingested[1] = Len(logs)
    BY <1>1 DEF Reading
<1>3. check > Len(Checks) /\ at \notin Looking
    BY <1>1 DEF SearchShape, Looking
<1>4. Range(logs) \subseteq LogFiles
    BY <1>1 DEF Discovery
<1>5. Intact => Len(logs) = Min({MaxLogFiles, Cardinality(LogFiles)})
    BY <1>1, <1>3, AllLogsFound
<1>6. Intact => ingested[2] = Range(logs) \cap tree.readable
  <2>1. DOMAIN logs = 1 .. Len(logs)
      BY <1>1 DEF Discovery
  <2>2. Taken = Range(logs)
      BY <1>2, <2>1 DEF Taken, Range
  <2> QED
      BY <1>1, <2>2 DEF Reading
<1> QED
    BY <1>2, <1>4, <1>5, <1>6 DEF LogVerdict, LogsSaid

\* The red, blue and cloud agents say of the files what they hold, and all of it
\* when nothing was removed, and the blue team's word on the logs is what the
\* log files it could read hold.
THEOREM SourceVerdictsAlwaysHold == Spec => []SourceVerdicts
<1> DEFINE Inv == SearchInv /\ LogInv
<1>1. Init => Inv
    BY PatternInit
<1>2. Inv /\ [Next]_vars => Inv'
    BY PatternStep
<1>3. Inv => SourceVerdicts
    BY ReportAlwaysMatches, LogAlwaysJudged DEF SourceVerdicts
<1> QED
    BY <1>1, <1>2, <1>3, PTL DEF Spec
=============================================================================
