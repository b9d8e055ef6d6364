# A TLA+ development of the Security Review (Vigil) backend

This directory holds the specifications, model-checking configurations and machine-checked proofs kept
beside `src/backend/src/security_review`. Paths below are relative to that package unless they start
with `src/`. `PROJECT.json` lists components, runs, mutants, findings, hazards and theorems, and names
for every definition the lines it translates.

1. [The system](#1-the-system) 2. [Plan](#2-plan) 3. [Modules](#3-modules) 4. [Runs](#4-runs)
5. [Fairness](#5-fairness) 6. [Proofs](#6-proofs) 7. [What is left out](#7-what-is-left-out)

## 1. The system

The backend is one FastAPI process (or several behind a load balancer) over one SQL database. Its
endpoints are plain functions, so the framework runs them on a pool of threads; background tasks use
the same pool. There is no lock around a handler and no transaction that spans two calls of a
persistence class.

| Component | State it keeps | Operations | Talks to |
|---|---|---|---|
| Assessment service (`application/assessment_service.py`, `api/routers/assessment.py`) | none between requests; each handler holds an `Assessment` object | create, delete, ingest and delete repository, create and execute scan job, Trivy scan, webhook | store, clone directory, audit log, agents, plan limits, webhook receivers |
| Assessment store (`infrastructure/persistence/sqlite_assessment_repository.py`) | table `assessments`: one JSON payload per row | save (upsert of the whole object), get, list, count, delete | database |
| Repository ingestion (`infrastructure/vcs/…`) | directories `SECURITY_REVIEW_REPO_WORKDIR/<repository id>` | clone | git subprocess |
| Consent audit log | table `consent_audit_log`, append-only | record, list | database |
| Plan limits and billing (`application/billing_service.py`, `infrastructure/billing/payment_provider.py`) | plan and Stripe ids of each organization | enforce limits, change plan, Stripe webhook | user store, payment provider |
| Accounts (`application/auth_service.py`) | tables `organizations`, `users`, `password_reset_tokens` | signup, login, request and perform password reset | user store, reset tokens, e-mail |
| Team (`application/team_service.py`) | same tables | invite, change role, remove member | same |
| Rate limiter (`api/rate_limiter.py`) | a counter and a window per client, in memory or in Redis | increment, check, reset | Redis |
| Status stream (`stream_scan_job_status`) | the last event sent | poll, emit, close | store |
| Auto-remediation (`infrastructure/scanners/auto_remediation_agent.py`) | working tree, index and branches of a clone; the fix branch and its pull request | scan, rewrite, scan again, branch, commit, push, open a pull request | git, gh, Bandit |
| Scanner agents (`core/agent.py`, `infrastructure/scanners/`) | none between executions; one execution holds its findings | execute: walk a directory and its logs (red team, blue team, cloud), start a tool and read its report (white box, dependencies, secrets, Trivy), crawl a site (black box), test an API | clone directory, subprocesses, HTTP targets |
| Start-up, secrets, URL validation, observability, e-mail, UI | configuration | validation, health | environment |

### What is hard here

* **Interleaving.** A handler reads an assessment, works for seconds or minutes, and writes the whole
  object back. Whoever saves last wins; a row deleted meanwhile is inserted again.
* **Check, then act, in two transactions**: both plan limits, the last owner of an organization, the
  uniqueness of an e-mail, the single use of a reset token.
* **Two stores without a common transaction**: a row and its clone directory, a job and its consent
  entry, a plan and the subscription at Stripe.
* **Crashes.** Nothing at start-up looks for jobs left `RUNNING`, repositories left `CLONING` or
  directories without a row.
* **Partial failure**: agents that raise, git that cannot be started, webhooks that cannot be delivered.
* **Duplicated and reordered webhooks** from the payment provider.
* **Time**: fixed windows read with a late clock, or kept by Redis in three calls.
* **A pipeline of commands** that fail or are killed at any point, in a directory that several runs share.
* **Scans of what moves**: a clone is removed while an agent walks it; requests fail one by one; a
  server's rate limit is used up by the agent's own earlier probes and changes the meaning of its answers.

### What makes each part correct

* Assessment service: nobody reads a status that contradicts the jobs beside it, nor findings without
  their completed job; accepted jobs finish; results are visible when the request returns; deleted
  things stay deleted. Abstractly: a ledger in which every change takes effect at once.
* Ingestion: a READY repository has its files; files without a repository do not accumulate; polling ends.
* Audit log: consent is recorded before the scan that it allows, and never lost.
* Plan limits: the caps hold, or are passed by a bounded amount.
* Accounts and team: an organization keeps an owner; a reset token works once; an e-mail names one user.
* Billing: what an organization may do follows what it pays, whatever dies on the way.
* Rate limiter: a bounded number of attempts in any span as long as a window, nobody refused who has attempts
  left, and a window that always ends.
* Auto-remediation: what is proposed is the fix and nothing else, whatever command fails.
* Scanner agents: nothing intrusive without the client's confirmation; what is reported is there, what is
  there and could be read is reported, and what was left out or went wrong is said.
* Status stream: events follow the order of the job's life and the stream ends.

## 2. Plan

The order is that of importance: the assessment service first, because every other part hangs on what
its rows say, then who may use it, who pays, and what protects it.

| Step | Modules | State |
|---|---|---|
| 1. The aggregate and the service | `AssessmentRecord`, `ReviewService`, refined against `ReviewLedger` | done |
| 2. Theorems of the service | `ReviewServiceProofs`, `ReviewSerialProofs` | all its safety properties, and the refinement |
| 3. Accounts and team | `Accounts`, refined against `TeamDirectory`; `AccountsProofs` | done; all safety properties and the refinement proved |
| 4. Billing | `StripeBilling`; `StripeBillingProofs` | done; all safety properties proved |
| 5. Limiter, stream, remediation | `RateLimiter`, `ScanStream` (composed with `ReviewService`), `Remediation` over `TimeoutPatch`; `RateLimiterProofs`, `ScanStreamProofs`, `RemediationProofs` | done; all safety properties proved |
| 6. Scanner agents | `AgentRun`, shared by `SourceAgents`, `BlackBoxAgent` and `ApiSecurityAgent`, composed in `Agents`; `AgentsProofs` | done; all safety properties proved |
| 7. Billing and limits together | plan changes composed with the two limit checks of `ReviewService`, whose plan is constant now; the mock provider | open |
| 8. Domain entities and start-up | state machines of `domain/finding` and `domain/repository`, column migration by several processes at once | open |

Every safety property that a passing run checks is also a theorem; only liveness is left to TLC. Of the plan,
steps 7 and 8 are open. The theorem worth stating first for step 7 is `OvershootBounded` with a plan that may
change between the check of a limit and the insertion.

## 3. Modules

All models of requests share one scheme. A **worker** is a thread that serves one request; `pc[w]` is
where it is in its handler. Each call of a persistence class opens its own connection and transaction,
so **each is one action**, and every other thread may act between two of them. What a handler computes
between two calls belongs to the action that follows or precedes it. `Request(w)` are the actions that
take up a new request, `Step(w)` those that go on with one, `Abort(w)` (only with `Faults`) ends a
request anywhere: the process dies, or a driver raises something no handler catches, and nothing is
rolled back but the transaction that was open. Identifiers are drawn once and never again, as `uuid4`.
Operators marked `Mutant:` are not part of the models: each is a plausible mistake in the definition
below it, and shows that a property notices it.

`AssessmentRecord` is the value in the `payload` column: `Assessment.from_dict` and `to_dict` carry it
unchanged, so reading is `payload[a]`. Lists are functions from identifiers to a status, `"none"` when
there is no entry. `READY` and `local_path` are assigned together and are one thing here. The
findings of a job are one element, because one `extend` adds them.

`ReviewService` has the tables (`stored`, `payload`, `audit`), the directories (`disk`), what webhook
receivers were told (`notified`), and per worker the object it holds (`copy[w]`).

| Handler | Actions, in order |
|---|---|
| create assessment | `EnforceAssessmentLimit`, `InsertAssessment` |
| delete assessment | `ReadForDeletion`, `DeleteRow`, `CleanupClones` |
| delete repository | `ReadForRemoval`, `SaveRemoval`, `CleanupClones` |
| ingest repository | `ReadForIngestion`, `SaveNewRepository`, then in the background `ReloadRepository`, `SaveCloning`, `RefuseClone` or `BeginClone` and `EndClone`, `SaveIngestion` |
| create scan job | `EnforceScanJobLimit`, `ReadForScanJob`, `RejectScanJob` or (`RecordConsent`,) `SaveNewJob`, `ReloadJob`, `SaveRunning`, `FinishScan`, `NotifyWebhook` |
| Trivy scan | `ReadForTrivyScan`, `SaveTrivyJob`, `FinishScan`, `NotifyWebhook`; the `-async` endpoint is *create scan job* without consent |

`Save` is the upsert of the whole object: this is how an old copy overwrites a newer row, and how a
row that was deleted comes back. `Serial` is a restriction of the *clients*, not of the code: they wait
for one request on an assessment, background part included, before they send the next; requests on
other assessments still interleave. `gone` and `notified` are histories that only properties read.

`ReviewLedger` is the abstract service: rows, the stage of each job and repository, each change at
once. `ScanStream` adds the polling generator of `stream_scan_job_status`: an event when the job's
status differs from the last one sent, an end when it is terminal, an error event when the job has
gone, and silence after `MaxPolls` (600 in the code).

`Accounts` has `users`, `row` (whose columns stay after a deletion, so that properties can speak of
former members), links (`tokenUser`, `expired`, `spent`, `mailed`) and the history `applied`. A
password is named by what set it: the signup, the placeholder of an invitation, or a link. `CreateUser`
holds both the insertion and the `IntegrityError` that the UNIQUE column raises. `TeamDirectory` is the
abstract team: members and roles that change at once and never without an owner.

`StripeBilling` has the three columns of an organization, Stripe's side (`checkout`: a session, then
its subscription, both under one name; `outbox`: webhooks not yet answered), and the requests between
the two. `Disciplined` restricts clients to one plan change at a time; `Ordered` restricts Stripe to
one webhook at a time, in order. Webhooks are delivered *at least* once in either case: an unanswered
event is delivered again.

`RateLimiter` measures every interval relative to now, in ticks of a fraction of a second. In memory
the clock is read (`ReadClock`) before the lock is taken (`Count`); in Redis there are `Incr`,
`Expire`, `Ttl`. Counts above the limit are not told apart. Two histories serve the properties: `recent`
holds the passes, each with its age in ticks and a number that tells apart those of one tick, as far back as
a property looks; `owed` is the earliest moment at which some refused client was told to come back.

`Remediation` runs the agent in clones of one remote. A branch is the list of the runs whose commits
are on it; `commit[r]` are the files of a commit; the working tree and the index are separate, and
`write_text` is two steps because it truncates first. A command may do its work and still count as
failed (killed at its timeout). `TimeoutPatch` is the rewriting of source text: a call is a list of
tokens, and what the regular expression captures ends at the first closing parenthesis.

`Agents` is one execution of the agent that `AgentFactory.create` chose, under the same scheme: each
request, file or tool is one action, and around them a request deletes the clone file by file
(`RemoveFile`) and the server's window ends (`WindowReset`). `AgentRun` is what all agents have: where
execute is (`at`), the findings so far, the kinds of request `sent`. An exception that a method catches
at its end is where that method continues; one that nothing catches ends in `"raised"`.

* `SourceAgents`. A file is the set of **marks** that some pattern would match in it, and has a kind
  that globs select. Each method `_analyze_…` or `_check_…` is one operator that says which globs it
  walks, which marks it looks for, and *how*: report each, report that there is none (`Lacks`), stop at the
  first, raise at once (`Broken`), or collect log files. `StartWalk`, `ReadFile`, `ReadUntilFound` and
  `EndWalk` run them one after the other, in any order of files; a file that has gone is passed over,
  since each loop has its own `except` around the read, and a directory that has gone ends the walk (`WalkRaises`).
  The `key` of a file is what `_chain_attack_paths` groups findings by: the path up to its first colon. It is the
  file itself, unless a directory above it has a colon in its name, or the path begins with a drive or a colon.
  `ReadLog` takes the lines of a log one after the other (`Ingest`) and counts in bags, as the code counts in
  a `Counter`; the properties count otherwise, as the sizes of sets of lines (`LinesIn`), each named by its
  file and number. `RunTool` chooses an ending of the subprocess
  and what could be listed of its report; `ran` is the history of both.
* `BlackBoxAgent`. A site gives each URL its links and flaws; a request fails or is answered. `queue`,
  `visited` and `pages` are the variables of `_crawl`; `Among` keeps the links to the site's host, in the
  order of the page; `crawled` and `lost` are histories.
* `ApiSecurityAgent`. A target gives each request its usual answer; the server may fail, answer with an
  error, and refuse with 429 once `budget` is used up. A URL that `httpx` cannot parse (`parses`) fails every
  request, and raises where its origin is needed. `index` is the counter of the loop under way,
  `failures` and `reset` are histories; in `sent`, the request without a token (`baseline`) is another kind than
  the crafted tokens that follow it.

The `MC…` modules add symmetry sets and the small sets of texts and targets.

## 4. Runs

`Serial`, `Faults` and so on refer to the constants above. Deadlock is checked only for the limiter:
in the other models identifiers run out, or clients may simply stop.

| Run | States | What it shows |
|---|---|---|
| `concurrent` | 648,000 | Two threads on three assessments (cap 1, two jobs), every interleaving, death anywhere. A reader never sees a status its jobs contradict (`StatusMatchesJobs`) or findings without their job (`FindingsMatchJobs`); consent precedes scans and survives deletions (`ConsentBeforeScan`); the cap is passed by at most one row per other thread, resurrected rows included (`OvershootBounded`). |
| `serial` | 244,000 | Two assessments, two jobs, one repository, one request per assessment at a time, death anywhere: the service **implements the ledger**; results are in the store when the request returns; webhooks told the truth; finished jobs (by the ledger) and deletions are final; READY repositories and scan targets have their files (`ClonesOnDisk`). |
| `serial_fair` | 522,000 | The same without deaths, under fairness, with a viewer: jobs finish, no clone is orphaned, events come in the order of the job's life, and a stream that ends as finished has told the outcome. |
| `account_races` | 314,000 | Two organizations, three users, three addresses, one link, any interleaving, deaths: an address names one user, everyone has an organization that exists (in `TypeOK`), a link changes only its own user's password, a link is not spent in vain, users are removed and roles change only by a request whose sender was an owner of that organization when it was authorised. |
| `team` | 21,000 | One change of a team and one use of a link at a time: an owner always remains, the team implements the directory, whoever is invited is sent a link, and who changes the team is still its owner when the change is made. |
| `billing` | 170,000 | Two organizations, three sessions, one death: Stripe ids stay where they belong, plan and recorded subscription follow what is paid once everything has arrived, and payment activates the plan. |
| `limiter` | 65,000 | Two threads, one client, both backends, windows of two seconds of two ticks, delays up to two ticks: how many attempts pass in a span as long as a window, who is refused, how far `Retry-After` is to be believed, and that a full window ends. |
| `remediation` | 729,000 | Three runs in two clones of two files, every command failing or killed, runs dying: nothing is committed on the cloned branch, a reported pull request carries its fix, commits hold whole files. |
| `agents` | 159,000 | One execution of each agent on eight directories, six sites and fifteen APIs, clones removed under it, every request and tool failing or not: nothing intrusive without confirmation, verdicts match what was there (`SourceVerdicts`, `ApiVerdicts`), the crawl is breadth-first and complete below its cap, trouble and what was left out are told, with the exceptions the properties name, and execute ends. |

Three runs end in a violation, because the code does not do what the repository says of it:

| Run | Property | What happens |
|---|---|---|
| `lost_scan` | `ScanVisibleOnReturn` | Two scans of one assessment at once: the later save drops the other's results. |
| `orphan_subscription` | `DowngradeCancels` | Two sessions paid, then back to Free by a request: only the recorded subscription is cancelled, the other goes on being paid. |
| `misplaced_timeout` | `FixesPreserveBehavior` | The timeout is added to an inner call, or after a trailing comma. |

### Bounds, and why they are enough

* **Two workers.** The races here are between one read and one write of *another* request; a third
  thread adds more of the same. `concurrent` (one job, 101,815 states) and `limiter` (533,718) also
  pass with three. `OvershootBounded` is proved for any number.
* **Identifiers.** Two jobs are needed for one to overwrite the other, three assessments for the cap
  of one to be passed and one more to come back, three users for an owner, a second one and an
  outsider (`team`, with one organization, needs two), three sessions for two organizations of which one pays twice, three runs so that two follow
  one another in a clone while a third pushes from elsewhere. One link is enough for `SpentLinkWasApplied`; `PasswordFromOwnLink` needs the rows it must not reach, not a second link.
* **`MaxPolls` = 4.** One poll for each status and one that finds nothing new.
* **`MaxDeaths` = 1** (`billing`): a death at every point of a request; the second would repeat the first
  after the webhook has made it good.
* **Ticks.** Two per second let rounding down and rounding up differ; a delay as long as half a window
  lets a late clock fall on both sides of an end.
* **Agents.** Three files hold two steps of an attack path, two marks of one step, two files with one key and
  one without any, a file two globs match and one that cannot be read; the log limits are small enough (`MaxLogFiles` 2, `MaxLines` 3, both
  thresholds 2) to be reached and missed. The sites have four pages, the last two links away, and the
  crawl stops at three (`MaxCrawlPages`). Two hidden endpoints and two tokens let one be reported and one not; a burst of
  three (`ProbeCount`) meets limits of two and three, one below its length and one not.
* **Symmetry** is used only in runs without temporal properties that need fairness.

### What the restricted runs hide

`Serial`, `Disciplined` and `Ordered` are promises of clients or of Stripe which the code does not
enforce. Without them these properties are false for this code, and TLC shows how:

* two concurrent demotions or removals leave an organization **without an owner**
  (`OwnerRemains`, `ImplementsDirectory`), although `src/README.md:164-165` excludes it;
* a save that was under way when its assessment was deleted **inserts the row again**
  (`DeletedStaysDeleted`), and of two scans at once one is lost (`lost_scan`);
* a link opened twice at the same moment changes the password twice, since it is marked as used only
  after the password was set;
* a status stream follows the row back when an older copy is saved over it: it repeats a status, or ends as
  finished with an outcome that later readers do not find (`EventsInOrder`, `StreamTellsOutcome`);
* webhooks out of order leave the wrong plan (`PlanFollowsPayment`), because an event is applied
  without comparing its subscription with the recorded one; `ProWasPaid` (of no run, but proved) and `IdsStayInOrganization`
  hold in any order (435,850 states);
* two runs of the remediation in one clone commit each other's half-written file (`CommitsAreWhole`,
  `PullRequestCarriesFix`); the cloned branch stays untouched even then.

Other behaviour that the models show and no property forbids: a death leaves jobs `RUNNING`,
repositories `CLONING` and directories without a row, and nothing at start-up looks for them; an
exception of ingestion other than `RepositoryIngestionError` leaves `CLONING` for ever; a clone that is
killed leaves its partial directory; a request that dies between INCR and EXPIRE leaves a counter that
never expires, the one exception `WindowEnds` makes; with a late clock the limiter in memory lets three
windows' worth pass in one (`BurstBounded` states 3 for memory and 2 for Redis, and neither bound can be
lowered); a stream that runs out of polls ends without a word; a remediation whose push failed is
never tried again in that clone, since the next baseline scan finds nothing to fix; the synchronous
Trivy endpoint never asks for the plan's limit on scan jobs (`application/assessment_service.py:399`,
against `src/README.md:72-73`).

Of the agents, where the properties name exceptions (paths under `infrastructure/scanners/`):

* no CloudFormation template is ever looked at: the check joins two generators with `|`, and swallows the
  `TypeError` (`cloud_security_agent.py:90`);
* when a clone goes under the blue team, the discovery of logs raises to the service, and a check that
  something is lacking loses its verdict (`blue_team_agent.py:247`); logs that cannot be read count as
  ingested, and "no suspicious activity" may be said of them (`:110-111`, `:219`); failed logins count per
  file and address (`:117`), where `src/README.md:380` says "5+ failed-auth log lines from the same source
  IP": as many as the threshold, spread over two logs (a rotated one, say), are not told. `LogVerdict` states
  what the code does, and cannot be read as the README's claim;
* a chain is told under the path up to its first colon (`red_team_agent.py:272`), so that files may share one
  and be told as one chain, where `src/README.md:344-345` says "when multiple weaknesses land in the same
  file"; there is none of files whose path begins with a colon (`:273-274`). `ReportMatchesTree` states the
  chain of a key, not of a file;
* Safety without JSON, and tools without a report file, look like a clean target;
* one malformed link ends the whole crawl in silence (`black_box_agent.py:196`, `:226`), and a request
  of the crawl or of a probe that fails is passed over; what the pages that *were* got show is told;
* probes use up the server's limit: a server that needs no token is said to accept crafted ones when
  only the answer without a token was a 429 (`api_security_agent.py:288`), and "no rate limiting" is said of a
  limit not below the length of the burst, or when a failure ends the burst early (`:246`);
* when the request without a token fails, no token is crafted, and nothing is said of it (`:276-279`);
* a specification with a base path is compared without it, so documented endpoints count as hidden
  (`:424-426`); a published specification that is no object ends all remaining tests (`:389-390`); a
  specification file that does not exist reads as clean (`:473-474`).

## 5. Fairness

* `ReviewService`, `Accounts`: weak fairness of `Step(w)` for each worker. A thread that has begun a
  request goes on: git, Bandit, Trivy and HTTP calls run under timeouts, and database calls return or
  raise. There is none for `Request`: clients owe nothing.
* `StripeBilling`: the same, and weak fairness of delivering *some* pending webhook, since Stripe repeats
  what is not answered.
* `RateLimiter`: time passes (`Tick`), and requests that have begun go on.
* `ScanStream`: the service is scheduled as above; viewers poll or leave.
* `Agents`: weak fairness of execute's own steps: requests and tools run under timeouts, loops are over
  finite lists, and the thread of the scan job goes on. None for the removal of clones, or for the window of a server.
* `Remediation`: none, it has safety properties only.

The liveness properties hold without deaths (`Faults = FALSE`), except `PaymentActivates` and
`WindowEnds`, which hold with them: a webhook is repeated, and a window ends by itself.

## 6. Proofs

16,212 obligations, checked by tlapm with Z3, Zenon and LS4, for every value of the constants. The last
column names what a theorem supposes besides `Spec`: `Serial`, `Disciplined` and `Ordered` are the promises
of clients and of Stripe of section 4. TLC finds each of these theorems false when one of its
suppositions is dropped.

| Module | Theorem | Says | Supposes |
|---|---|---|---|
| `ReviewServiceProofs` | `TypeCorrect` | `[]TypeOK` | |
| | `StatusAlwaysMatchesJobs` | `[]StatusMatchesJobs` | |
| | `FindingsAlwaysMatchJobs` | `[]FindingsMatchJobs` | |
| | `ConsentPrecedesScan` | `[]ConsentBeforeScan` | |
| | `OvershootIsBounded` | `[]OvershootBounded` | |
| `ReviewSerialProofs` | `ServiceImplementsLedger` | `ImplementsLedger` | `Serial` |
| | `ScanAlwaysVisibleOnReturn` | `[]ScanVisibleOnReturn` | `Serial` |
| | `DeletedAlwaysStaysDeleted` | `[]DeletedStaysDeleted` | `Serial` |
| | `ClonesAlwaysOnDisk` | `[]ClonesOnDisk` | `Serial` |
| | `WebhooksAlwaysMatchRecord` | `[]WebhookMatchesRecord` | `Serial` |
| | `NoCloneIsOrphaned` | `[]NoOrphanClone` | `Serial`, `~Faults` |
| `AccountsProofs` | `TypeCorrect` | `[]TypeOK` | |
| | `EmailAlwaysNamesOneUser` | `[]EmailNamesOneUser` | |
| | `PasswordsComeFromOwnLinks` | `[]PasswordFromOwnLink` | |
| | `SpentLinksWereApplied` | `[]SpentLinkWasApplied` | |
| | `ChangesAlwaysStayInOrganization` | `ChangesStayInOrganization`, of each step | |
| | `OwnerAlwaysRemains` | `[]OwnerRemains` | `Serial` |
| | `TeamsFollowDirectory` | `ImplementsDirectory` | `Serial` |
| `StripeBillingProofs` | `TypeCorrect` | `[]TypeOK` | |
| | `ProAlwaysPaid` | `[]ProWasPaid` | |
| | `IdsAlwaysStayInOrganization` | `[]IdsStayInOrganization` | |
| | `PlanAlwaysFollowsPayment` | `[]PlanFollowsPayment` | `Disciplined`, `Ordered` |
| `ScanStreamProofs` | `ViewerDisturbsNothing` | `StreamSpec => Spec`: what holds of the service holds beside viewers | |
| | `EventsAlwaysInOrder` | `[]EventsInOrder` | `Serial` |
| | `StreamAlwaysTellsOutcome` | `[]StreamTellsOutcome` | `Serial` |
| `RateLimiterProofs` | `BurstAlwaysBounded` | `[]BurstBounded` | |
| | `RefusedOnlyWhenUsedUp` | `[]RefusedOnlyAfterUse` | |
| | `RetryAfterAlwaysHolds` | `[]RetryAfterHolds` | |
| `RemediationProofs` | `ClonedBranchStaysUntouched` | `[]ClonedBranchUntouched` | |
| | `CommitsAlwaysWhole` | `[]CommitsAreWhole` | `Serial` |
| | `PullRequestsCarryFixes` | `[]PullRequestCarriesFix` | `Serial` |
| `AgentsProofs` | `ProbesAlwaysNeedConsent` | `[]ProbesNeedConsent` | |
| | `ApiVerdictsAlwaysHold` | `[]ApiVerdicts` | |
| | `CrawlAlwaysBreadthFirst` | `[]CrawlIsBreadthFirst` | |
| | `TroubleAlwaysTold` | `[]TroubleIsTold` | |
| | `SourceVerdictsAlwaysHold` | `[]SourceVerdicts` | |

Assumptions, all named in the modules that declare the constants, where TLC evaluates them:

* `ReviewService`: `WorkersAssumption` (finitely many threads; the pool is bounded), `CapAssumption` (caps
  are positive), `FlagAssumption`, `NoneAssumption` and, in `AssessmentRecord`, `ExternalAssumption` (a null
  is no identifier, an external target is no clone), `IdentifiersAssumption` (assessments and repositories
  are named by different UUIDs: `gone` holds both).
* `Accounts`: `NoneAssumption`, `FlagAssumption`, `PasswordNames` (the two other origins of a password are
  no links).
* `StripeBilling`: `NoneAssumption`, `EventsAssumption` (no event is the null), `FlagAssumption`,
  `DeathsAssumption`.
* `Remediation`: `RemediationAssumption` (the flags), `SourcesAssumption`: a source text is a sequence of
  calls. The theorems hold for *any* such texts, where the run has five.
* `ScanStream`: `PollsAssumption` (a positive number of polls).
* `RateLimiter`: `LimiterAssumption`. The limit, the ticks of a second and the seconds of a window are
  positive, and a request is not delayed between two of its steps by more than a window; any number of
  threads and clients.
* `Agents`: `LimitsAssumption`, `CrawlAssumption`, `ProbeAssumption` (the limits of the logs, the crawl and the
  burst are positive; there are finitely many URLs), `TreesAssumption` (finitely many files; a path is no
  address; the lines of a log form a sequence; a target that is no directory is one file; a directory holds a
  file, because the model does not tell an empty one from one that has gone), `SitesAssumption` (the links of a page
  form a sequence, and one that cannot be parsed has no host), `ApisAssumption` (the answers a target can give,
  and that a URL has well-known paths to ask for). The theorems hold for *any* such directories, sites and APIs.

TLC checked each inductive invariant below on the bounds of the runs before it was proved.

### The service, under every interleaving

* **`TypeInv`** adds to `TypeOK` what kind of item a worker holds at each `pc` (`WorkerShape`): without it,
  `SetJob(copy[w], item[w], …)` is not well-typed.
* **Status and findings.** `StatusMatchesJobs` is not inductive: a handler may write back *any* object it
  has held, at any time later, over anything. The strengthening `ExplainedInv` therefore speaks of every
  **record**, the stored ones and the copies: each is explained (`StatusExplained`, `FindingsExplained`),
  except that the record a worker is working on has its job at the stage that `pc[w]` says (`Stage`); and a
  drawn job belongs to one worker only (`Ownership`), so that no other record can be moved on by him.
  The module begins with the lemmas about the aggregate: what each change does to the fields, and that it
  keeps a record explained.
* **Consent.** `ConsentInv`: every authorised job in any record is in the log under that record's
  assessment, save the one whose entry its worker is about to write. The log only grows, so the lemma
  `ConsentStep` reduces each action to its own worker and row.
* **Overshoot.** Counting stored rows is not inductive, since a copy can bring a deleted row back. `RowsInv`
  counts the stored rows together with the assessments that busy workers hold unsaved, and bounds each step
  by the finite-set lemmas.

### The service, one request per assessment

* **`SerialInv`** of `ReviewSerialProofs` says what `Serial` is worth. Two workers are never on the same
  assessment (`Alone`). An identifier is held by one assessment only, in rows and copies alike (`Apart`),
  and everything held was drawn (`Known`): without these, a request on another assessment could delete a
  directory this one relies on. A copy that a worker is about to save is the row but for the one item he
  moves (`InStep`, with one conjunct for each handler). A row in the table was never deleted, holds no
  deleted repository and has its clones on disk (`RowInv`).
* A step of one worker on one assessment is a `Turn`; `TurnKeeps` shows that it keeps everything that the
  invariant says of the others, so that each action is left with its own worker and its own row.
* **The refinement.** `RowStep` says of every action, the death of a request included, that it changes
  nothing the ledger sees, inserts or deletes one row, or moves one job or one repository by one stage. The
  ledger's actions are matched with these alternatives and not with the actions of the service.
* **Webhooks.** `Told` adds that a job a receiver was told of is no worker's any more, so that its entry can
  only disappear.
* **Directories.** `Claimed` adds that every directory is of a READY repository in a row, or of one in the
  hands of a request at one of three places (`ClaimedBy`). A death takes the hands away, hence `~Faults`.

### Accounts

* **`Inv`** holds under every interleaving. A drawn user, and a drawn link, is in the hands of one request
  until it is inserted (`DrawnOnce`, `Apart`), so an insertion overwrites nobody. A change that has passed
  its checks is of a member of its sender's organization, and a link in use was mailed to the user it
  changes (`Authorised`). Users never move between organizations, which is why what was checked is still
  true when it is used. `SenderInv` adds that whoever sent a change that has been authorised was an owner of that
  organization, and under `Serial` still is (`SentByOwner`); the action property follows for one step.
* **`TeamInv`** is for `OwnerRemains`. The count of owners is read in one transaction and the change made in
  another; `KeepsOwner` says that between the two there *is* another owner, and `TeamApart`, which `Serial`
  gives, that no other request takes him away. `Founding` says that a signup's organization is empty until
  its owner is in it, `Inviting` that an invitation adds to a team that exists. The same facts make each
  step one of the directory, or a stutter.

### Billing

* **`Inv`** says what each request and each event is going to write (`ClientShape`, `EventShape`): a
  customer of that organization, a subscription it has paid; and that only paid sessions have events. This
  is enough for `ProWasPaid` and `IdsStayInOrganization` in any order of requests and webhooks.
* **`OrderedInv`** is for `PlanFollowsPayment`. The first event is the only one in hands (`OneEvent`), a
  deletion is behind its payment (`InOrder`), an organization has at most one session that is open or active
  (`OneLive`), a client's request knows the columns as they are (`OneClient`). `Agree` relates columns,
  sessions and queue: whatever differs between plan and payment has its event in the queue (`Activated`,
  `Deactivated`). `EventDone` says what the handling of an event has written so far; a request that dies
  leaves half of it, and the event in the queue, so that `Agree` still holds.

### Status stream

* **`StreamInv`** relates what was sent to where the job is: nothing sent but a beginning of its life
  (`Begun`), and the job at the stage that was sent or past it (`Ahead`), unless its assessment is gone for good.
  The invariants of the service are not proved again: by `ViewerDisturbsNothing` they hold beside viewers,
  and `RowStep` says that a step moves one job forward or leaves it alone. That a deleted row does not come
  back is what `Serial` gives.

### Rate limiter

* **`LimiterInv`** has four parts for each client (`ClientOK`). `WindowOK` says what a window can be for each
  backend. `BurstOK` divides the passes of the history into those of this window, those of the one before
  (only in memory, where a late clock may begin a window before the last one has ended) and older ones: each part is no
  larger than the limit, and the older ones are out of every span as long as a window that begins when this
  window ends. `UseOK` says that what a window has counted is in the history while a request can still count in it.
  `PromiseOK` says that the window is over when the earliest promise is due, up to the slack.
* The bounds of `BurstBounded` are sizes of unions of these parts; the lemmas on ageing (`Older`) and adding a
  pass (`Passed`) say that the numbers keep passes of the same tick apart.

### Remediation

* **`Inv`** adds to `ClonedBranchUntouched` that whoever adds or commits stands on the fix branch (`OnFix`),
  which no later run leaves, whatever fails.
* **`SerialInv`**: one run at a time in a clone (`Alone`), so the text in its hands is what was cloned
  (`Rewriting`), and its fixes are, by its place in the pipeline, in the tree, the index, its commit, the
  remote (`Progress`). A later run finds files that were rewritten before: `RewriteOnce` proves that
  rewriting a rewritten text changes nothing, for any text, from the definition of what the regular
  expression captures (`Captured`). `Histories` says that no later commit of the branch undoes a fix.

### Agents

* **Probes.** `ProbesNeedConsent` says nothing of where execute is; `ConsentInv` of `AgentsProofs` adds the
  places that only a confirmed test reaches. `ContinueKeeps` is the lemma for one step of execute, and each
  action is an instance of it; nothing is assumed of directories, sites, APIs or bounds.
* **APIs.** `ApiVerdicts` judges at the end what was answered at the time. `ApiInv` says for each stage what it
  has said of the candidates, tokens and paths before `index`, what was sent before it, and how much of the
  server's budget is left, because an answer of 429 depends on how many probes came earlier. Each stage has a conjunct
  (`SpecSought`, `HiddenProbed`, `BurstSent`, `TokensSent`, `PathsChecked`), and `StagesTried` says that none of
  them was left out on the way to where execute is.
* **Crawl.** `Within[n]` are the URLs at most `n` links away over pages that were got. `CrawlInv` says that
  for every `n` the queue, like the list of requests, has those within `n` before the others, and that
  everything linked from a page that was got is visited or waits; so an empty queue means that the crawl is `Complete`.
  `Within` grows with each page: a new page reaches nothing nearer than itself, which is why the order of
  earlier requests stays right.
* **Tools and pages.** `ToolInv` and `ReportInv` carry `TroubleIsTold` from the run that was in trouble, and
  from the page that was looked at, to the end: what a form, a reflected value or an error on it shows
  (`PageTold`) is in the findings, or the probe for it was not answered.
* **Patterns.** `SearchInv` says what each check that is over has said (`Said`), and what the one that walks has
  said of the files it has taken (`SaidSoFar`), as long as nothing was removed; whatever was removed, what is said
  of a file is what some check looks for in it (`LooksFor`). The keys with a chain are `Chains`, those whose
  Python files hold two different steps: `TwoOrMore` turns the number of steps in the code into two marks,
  `TitlesAreThere` and `StepsTold` these marks into files of the key and back.
* **Logs.** `Discovery` says that the files discovered are different ones and, below the cap, all those whose
  globs have been walked. `Reading` says that the bags hold exactly the lines taken (`Counted`): each count is
  the size of the set of lines that count for its key, so that `AtLeast` in the code and the thresholds in the
  property are the same question.

What `Within` and `Ingest` compute is proved by induction. The library's induction theorems cannot be used
here, since they take an operator as a parameter; `NatSetInduction` says the same of a *set* of
numbers and is proved from the finite-set theorems. It shows that the recursive functions exist and
satisfy their equations, and carries the invariants over the lines of a log and over distances.

Each preservation proof has one step per action, or one lemma per action where these are long, under lemmas
for what actions share (`Begin…`, `Goto…`, `Finish…`, `Save…`).

### Only model-checked

* Liveness, and the fairness under it: `JobsFinish`, `InviteeGetsLink`, `PaymentActivates`, `WindowEnds`,
  `AgentFinishes`. The prover does not treat ENABLED.
* That the code's promises fail where section 4 says so (`lost_scan`, `orphan_subscription`,
  `misplaced_timeout`): TLC's counterexamples are the evidence.

## 7. What is left out

* **Data that no property tells apart**: names, descriptions, timestamps, error messages, the contents
  of findings, the order of lists.
* **Read-only endpoints** (lists, reports, usage): they read one row in one transaction; what they can
  see is what the invariants about `payload` say.
* **The plan of an organization** is constant in `ReviewService`; the unlimited plan and the anonymous
  organization skip the limit checks, which is `MaxAssessments` larger than the set of identifiers.
* **The database** is taken to run each transaction atomically; isolation inside one is not modelled.
  Each method issues its reads and writes within one connection.
* **`shutil.rmtree`** is taken to remove the directory. Its errors are
  passed over in silence, and what could not be removed stays without a row.
* **Access tokens and password hashes**: signing and hashing are libraries; `CurrentUser` models what
  follows once a token has been accepted. Revocation does not exist in the code.
* **The mock payment provider** activates each plan at once, in one step; the constructor's checks of
  the Stripe configuration are functions of the environment.
* **Of the agents**: severities, texts and regular expressions (a mark is what they match); the
  looking up of the white-box target below other directories (`_resolve_target_path`); the comparison of
  origins by host and port alone, and the status codes that no branch tells apart. A directory without any
  file, of which the checks for something lacking would report at once, is not told from one that has gone.
* **Start-up**: `initialize` creates tables and adds missing columns; two processes that start at once
  can both find a column missing, and one of the two ALTER statements fails
  (`infrastructure/persistence/sqlite_assessment_repository.py:42-50`). The models begin after start-up.
* **Observability, e-mail transport, user interface**: I/O without state that the program reads back.
