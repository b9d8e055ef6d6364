-------------------------- MODULE ApiSecurityAgent --------------------------
(* The API agent (infrastructure/scanners/api_security_agent.py).  A URL is  *)
(* asked for plainly and, with the client's confirmation, probed: its        *)
(* published specification is looked for, then endpoints that it does not    *)
(* document, a rate limit, and the acceptance of crafted tokens.  A file is  *)
(* read as a specification, and its server probed for such endpoints.        *)
(* A server may fail, answer with an error, and admit only so many requests  *)
(* until its window is reset, a limit that earlier probes use up.            *)
EXTENDS AgentRun, FiniteSetsExt, SequencesExt

CONSTANTS
    Apis,        \* what a target can be
    Candidates,  \* _HIDDEN_ENDPOINT_CANDIDATES
    Tokens,      \* _MALICIOUS_JWT_CLAIMS
    ProbeCount   \* _RATE_LIMIT_PROBE_COUNT

ASSUME ProbeAssumption == ProbeCount \in Nat \ {0}

(* A URL has a list of well-known paths to ask for, or is one that httpx     *)
(* cannot parse; only a limited server admits a number of requests.          *)
ASSUME ApisAssumption ==
    /\ Candidates \in Seq(Range(Candidates))
    /\ Tokens \in Seq(Range(Tokens)) /\ Tokens # <<>>
    /\ \A x \in Apis :
          /\ {x.usual} \cup {x.live[c] : c \in Range(Candidates)}
                \subseteq {"ok", "redirect", "denied", "missing"}
          /\ x.limit \in Nat /\ (x.limited <=> x.limit > 0)
          /\ x.specs \in Seq({"none", "other", "no_object", "spec"})
          /\ x.isUrl => x.specs # <<>>
          /\ x.parses \in BOOLEAN
          /\ x.paths \in Seq({"open", "secured", "no_object"})
          /\ x.token \in {"none", "sound", "no_object", "unsigned", "no_expiry"}

VARIABLES
    api,         \* the target
    budget,      \* the requests a limited server still admits
    index,       \* of the loop under way
    last,        \* last_response
    documented,  \* documented_paths
    burst,       \* the answers to the burst, and whether one was a 429
    baseline,    \* the answer without a token
    failures,    \* the stages with a request that failed
    reset        \* whether the window was reset during the burst

server == <<api, budget, failures, reset>>
memory == <<last, documented, burst, baseline>>
probing == <<server, index, memory>>

InitApi ==
    /\ api \in Apis
    /\ budget = api.limit
    /\ index = 1
    /\ last = "none"
    /\ documented = {}
    /\ burst = [answers |-> 0, limited |-> FALSE]
    /\ baseline = "none"
    /\ failures = {}
    /\ reset = FALSE

(***************************************************************************)
(* The server.  Answers: "ok", "redirect", "denied" (401, 403), "missing"  *)
(* (404), "limited" (429), "error" (any other status from 400), "fail".    *)
(***************************************************************************)

Answers(usual) ==
    IF ~api.parses THEN {"fail"}
    ELSE IF api.limited /\ budget = 0 THEN {"limited", "fail"}
    ELSE {usual, "error", "fail"}

Active == {"spec", "hidden", "burst", "baseline", "tokens"}

Answer(reply) ==
    /\ budget' = IF reply = "fail" \/ budget = 0 THEN budget ELSE budget - 1
    /\ failures' = IF reply \in {"fail", "error"} THEN failures \cup ({at} \cap Active) ELSE failures
    /\ UNCHANGED <<api, reset>>

WindowReset ==
    /\ agent = "api_security" /\ api.limited
    /\ budget' = api.limit /\ budget # api.limit
    /\ reset' = (reset \/ at = "burst")
    /\ UNCHANGED <<run, api, failures, index, memory>>

(***************************************************************************)
(* _test_api_endpoint                                                      *)
(***************************************************************************)

Get(usual, reply) == reply \in Answers(usual) /\ Answer(reply)

GetPlain ==
    /\ agent = "api_security" /\ api.isUrl
    /\ \E reply \in Answers(api.usual) :
          /\ Get(api.usual, reply)
          /\ Continue("start", "headers",
                      IF reply = "ok" /\ api.named THEN {<<"no_auth", "target">>} ELSE {}, {"get"})
          /\ last' = IF reply = "fail" THEN last ELSE reply
    /\ UNCHANGED <<index, documented, burst, baseline>>

GetHeaders ==
    /\ \E reply \in Answers(api.usual) :
          /\ Get(api.usual, reply)
          /\ Continue("headers", "claims",
                      IF reply # "fail" /\ api.bare THEN {<<"headers", "target">>} ELSE {}, {"get"})
          /\ last' = IF reply = "fail" THEN last ELSE reply
    /\ UNCHANGED <<index, documented, burst, baseline>>

(* The outer except: what was found before stays, the rest is not tried.     *)
GiveUp(stage, kinds) == Continue(stage, "return", {<<"error", "target">>}, kinds)

(* _check_exposed_jwt_claims: a token in the usual page; one whose parts are *)
(* JSON, and no objects, raises.  last_response is not read again.           *)
InspectClaims ==
    /\ IF last # api.usual \/ api.token \in {"none", "sound"} THEN Continue("claims", "cors", {}, {})
       ELSE IF api.token = "no_object" THEN GiveUp("claims", {})
       ELSE Continue("claims", "cors", {<<api.token, "target">>}, {})
    /\ last' = "none"
    /\ UNCHANGED <<server, index, documented, burst, baseline>>

GetFromOrigin ==
    /\ \E reply \in Answers(api.usual) :
          /\ Get(api.usual, reply)
          /\ Continue("cors", "active",
                      IF reply # "fail" /\ api.anyOrigin THEN {<<"cors", "target">>} ELSE {}, {"get"})
    /\ UNCHANGED <<index, memory>>

Skipped == {<<"skipped", "target">>}

\* Mutant: the tests that need no confirmation go on to the others.
DecideActiveAlways ==
    /\ Continue("active", "spec", {}, {})
    /\ UNCHANGED probing

\* Mutant: without the confirmation the rest is left out in silence.
DecideActiveSilently ==
    /\ Continue("active", IF authorized THEN "spec" ELSE "return", {}, {})
    /\ UNCHANGED probing

(* The origin of a URL that cannot be parsed is not had: httpx.URL raises.   *)
DecideActive ==
    /\ IF ~authorized THEN Continue("active", "return", Skipped, {})
       ELSE IF api.parses THEN Continue("active", "spec", {}, {})
       ELSE GiveUp("active", {})
    /\ UNCHANGED probing

(***************************************************************************)
(* _fetch_openapi_spec: one well-known path after the other.               *)
(***************************************************************************)

FetchSpec ==
    LET kind  == api.specs[index]
        usual == IF kind = "none" THEN "missing" ELSE "ok"
    IN  /\ index <= Len(api.specs)
        /\ \E reply \in Answers(usual) :
              /\ Get(usual, reply)
              /\ IF reply = "ok" /\ kind = "spec"
                 THEN /\ Continue("spec", "hidden", {<<"spec", "target">>}, {"spec"})
                      /\ documented' = api.listed
                      /\ index' = 1
                 ELSE IF reply = "ok" /\ kind = "no_object"
                 THEN GiveUp("spec", {"spec"}) /\ UNCHANGED <<documented, index>>
                 ELSE /\ Continue("spec", "spec", {}, {"spec"})
                      /\ index' = index + 1
                      /\ UNCHANGED documented
        /\ UNCHANGED <<last, burst, baseline>>

\* Mutant: without a specification no endpoint is undocumented.
NoSpecNoProbes ==
    /\ index > Len(api.specs)
    /\ Continue("spec", "burst", {}, {})
    /\ index' = 1
    /\ UNCHANGED <<server, memory>>

NoSpec ==
    /\ index > Len(api.specs)
    /\ Continue("spec", "hidden", {}, {})
    /\ index' = 1
    /\ UNCHANGED <<server, memory>>

(***************************************************************************)
(* _probe_hidden_endpoints                                                 *)
(***************************************************************************)

Candidate == Candidates[index]
Exists    == {"ok", "redirect", "denied"}

SkipDocumented ==
    /\ index <= Len(Candidates) /\ Candidate \in documented
    /\ Continue("hidden", "hidden", {}, {})
    /\ index' = index + 1
    /\ UNCHANGED <<server, memory>>

\* Mutant: whatever answers is there.
ProbeHiddenAnyAnswer ==
    /\ index <= Len(Candidates) /\ Candidate \notin documented
    /\ \E reply \in Answers(api.live[Candidate]) :
          /\ Get(api.live[Candidate], reply)
          /\ Continue("hidden", "hidden",
                      IF reply # "fail" THEN {<<"hidden", Candidate>>} ELSE {}, {"hidden"})
    /\ index' = index + 1
    /\ UNCHANGED memory

\* Mutant: what asks for credentials is not there.
ProbeHiddenOpenOnly ==
    /\ index <= Len(Candidates) /\ Candidate \notin documented
    /\ \E reply \in Answers(api.live[Candidate]) :
          /\ Get(api.live[Candidate], reply)
          /\ Continue("hidden", "hidden",
                      IF reply \in Exists \ {"denied"} THEN {<<"hidden", Candidate>>} ELSE {}, {"hidden"})
    /\ index' = index + 1
    /\ UNCHANGED memory

ProbeHidden ==
    /\ index <= Len(Candidates) /\ Candidate \notin documented
    /\ \E reply \in Answers(api.live[Candidate]) :
          /\ Get(api.live[Candidate], reply)
          /\ Continue("hidden", "hidden",
                      IF reply \in Exists THEN {<<"hidden", Candidate>>} ELSE {}, {"hidden"})
    /\ index' = index + 1
    /\ UNCHANGED memory

EndHidden ==
    /\ index > Len(Candidates)
    /\ Continue("hidden", IF api.isUrl THEN "burst" ELSE "return", {}, {})
    /\ index' = 1
    /\ UNCHANGED <<server, memory>>

(***************************************************************************)
(* _check_rate_limiting                                                    *)
(***************************************************************************)

\* Mutant: a 429 is an answer as any other.
BurstOverlooks ==
    /\ index <= ProbeCount
    /\ \E reply \in Answers(api.usual) :
          /\ Get(api.usual, reply)
          /\ burst' = IF reply = "fail" THEN burst ELSE [burst EXCEPT !.answers = @ + 1]
          /\ index' = IF reply = "fail" THEN ProbeCount + 1 ELSE index + 1
    /\ Continue("burst", "burst", {}, {"burst"})
    /\ UNCHANGED <<last, documented, baseline>>

(* A failure or a 429 ends the burst.                                        *)
Burst ==
    /\ index <= ProbeCount
    /\ \E reply \in Answers(api.usual) :
          /\ Get(api.usual, reply)
          /\ burst' = IF reply = "fail" THEN burst
                      ELSE [answers |-> burst.answers + 1, limited |-> reply = "limited"]
          /\ index' = IF reply \in {"fail", "limited"} THEN ProbeCount + 1 ELSE index + 1
    /\ Continue("burst", "burst", {}, {"burst"})
    /\ UNCHANGED <<last, documented, baseline>>

\* Mutant: a burst that was cut short is not judged.
JudgeFullBurst ==
    /\ index > ProbeCount
    /\ Continue("burst", "baseline",
                IF burst.answers = ProbeCount /\ ~burst.limited
                THEN {<<"no_rate_limit", "target">>} ELSE {}, {})
    /\ UNCHANGED probing

JudgeBurst ==
    /\ index > ProbeCount
    /\ Continue("burst", "baseline",
                IF burst.answers > 0 /\ ~burst.limited THEN {<<"no_rate_limit", "target">>} ELSE {}, {})
    /\ UNCHANGED probing

(***************************************************************************)
(* _check_jwt_handling                                                     *)
(***************************************************************************)

\* Mutant: an answer that refuses the request ends the test, too.
GetBaselineAccepted ==
    /\ \E reply \in Answers(api.usual) :
          /\ Get(api.usual, reply)
          /\ Continue("baseline", IF reply = "ok" THEN "tokens" ELSE "return", {}, {"baseline"})
          /\ baseline' = reply
    /\ index' = 1
    /\ UNCHANGED <<last, documented, burst>>

(* The answer without a token; if there is none, no token is crafted.        *)
GetBaseline ==
    /\ \E reply \in Answers(api.usual) :
          /\ Get(api.usual, reply)
          /\ Continue("baseline", IF reply = "fail" THEN "return" ELSE "tokens", {}, {"baseline"})
          /\ baseline' = reply
    /\ index' = 1
    /\ UNCHANGED <<last, documented, burst>>

Refused == {"denied", "missing", "limited", "error"}

Token == Tokens[index]
WithToken == IF Token \in api.accepts THEN "ok" ELSE api.usual

\* Mutant: the answer without a token is not considered.
ProbeTokenAlone ==
    /\ index <= Len(Tokens)
    /\ \E reply \in Answers(WithToken) :
          /\ Get(WithToken, reply)
          /\ Continue("tokens", "tokens", IF reply = "ok" THEN {<<"weak_token", Token>>} ELSE {}, {"token"})
    /\ index' = index + 1
    /\ UNCHANGED memory

(* A crafted token, on a server that ignores it where it needs none.         *)
ProbeToken ==
    /\ index <= Len(Tokens)
    /\ \E reply \in Answers(WithToken) :
          /\ Get(WithToken, reply)
          /\ Continue("tokens", "tokens",
                      IF reply = "ok" /\ baseline \in Refused THEN {<<"weak_token", Token>>} ELSE {},
                      {"token"})
    /\ index' = index + 1
    /\ UNCHANGED memory

EndTokens ==
    /\ index > Len(Tokens)
    /\ Continue("tokens", "return", {}, {})
    /\ UNCHANGED probing

(***************************************************************************)
(* _analyze_openapi_spec                                                   *)
(***************************************************************************)

(* A file that does not exist is silence; one that cannot be parsed, or is   *)
(* no object, is an error.                                                   *)
OpenSpec ==
    /\ agent = "api_security" /\ ~api.isUrl
    /\ \/ api.file = "absent" /\ Continue("start", "return", {}, {})
       \/ api.file = "garbage" /\ GiveUp("start", {})
       \/ /\ api.file = "spec"
          /\ Continue("start", "paths", IF api.bare THEN {<<"no_schemes", "target">>} ELSE {}, {})
    /\ UNCHANGED probing

(* An operation without security is reported once per path.                  *)
CheckPath ==
    /\ index <= Len(api.paths)
    /\ \/ api.paths[index] = "open" /\ index' = index + 1
            /\ Continue("paths", "paths", {<<"unprotected", index>>}, {})
       \/ api.paths[index] = "secured" /\ index' = index + 1
            /\ Continue("paths", "paths", {}, {})
       \/ api.paths[index] = "no_object" /\ GiveUp("paths", {}) /\ UNCHANGED index
    /\ UNCHANGED <<server, memory>>

(* The first server of the specification; the ValueError of a URL that       *)
(* urljoin cannot parse is passed over.                                      *)
DecideServer ==
    /\ index > Len(api.paths)
    /\ \/ /\ api.serves \in {"url", "malformed"} /\ authorized
          /\ Continue("paths", IF api.serves = "url" THEN "hidden" ELSE "return", {}, {})
          /\ documented' = api.listed
       \/ /\ \/ api.serves = "none" /\ Continue("paths", "return", {}, {})
             \/ api.serves = "no_object" /\ GiveUp("paths", {})
             \/ /\ api.serves \in {"url", "malformed"} /\ ~authorized
                /\ Continue("paths", "return", Skipped, {})
          /\ UNCHANGED documented
    /\ index' = 1
    /\ UNCHANGED <<server, last, burst, baseline>>

StepApi ==
    \/ GetPlain \/ GetHeaders \/ InspectClaims \/ GetFromOrigin \/ DecideActive
    \/ FetchSpec \/ NoSpec \/ SkipDocumented \/ ProbeHidden \/ EndHidden
    \/ Burst \/ JudgeBurst \/ GetBaseline \/ ProbeToken \/ EndTokens
    \/ OpenSpec \/ CheckPath \/ DecideServer

-----------------------------------------------------------------------------
(* Properties                                                              *)

Reports(what, where) == <<what, where>> \in findings
Quiet(stage) == stage \notin failures /\ ~api.limited
Tested == agent = "api_security" /\ at = "done" /\ ~Reports("error", "target")

(* There is a server to probe, and the specification that was read, if any,  *)
(* does not list an endpoint.                                                *)
HasServer   == api.isUrl \/ (api.file = "spec" /\ api.serves = "url")
Unlisted(c) == ~api.isUrl \/ Reports("spec", "target") => c \notin api.listed

\* "No rate limiting detected" of a server that has a limit means that the limit
\* is not below the length of the burst, that its window was reset meanwhile, or
\* that a failure ended the burst early; of one that has none it is said, however
\* early a failure ended the burst, unless not one of its requests was answered.
RateVerdict ==
    Tested /\ api.isUrl /\ authorized =>
        IF api.limited
        THEN Reports("no_rate_limit", "target") =>
                \/ api.limit >= ProbeCount
                \/ reset
                \/ burst.answers < ProbeCount /\ "burst" \in failures
        ELSE Reports("no_rate_limit", "target") \/ (burst.answers = 0 /\ "burst" \in failures)

\* "Potential JWT validation weakness" is said of a server that takes the crafted
\* token, or of one that takes none at all whose answer without a token was a 429
\* or an error; it is said of every server that needs a token and takes a crafted
\* one, unless a request failed or the earlier probes can have used up a limit.
TokenVerdict ==
    Tested /\ api.isUrl /\ authorized =>
        \A t \in Range(Tokens) :
            /\ Reports("weak_token", t) =>
                  \/ t \in api.accepts /\ api.usual # "ok"
                  \/ api.usual = "ok" /\ baseline \in {"limited", "error"}
            /\ t \in api.accepts /\ api.usual = "denied" /\ Quiet("baseline") /\ Quiet("tokens") =>
                  Reports("weak_token", t)

\* "Hidden/undocumented endpoint discovered" is said of an endpoint that is there
\* and that the specification does not list, or of which no specification could be
\* got, and of each of them whenever the client has confirmed and no error is
\* told, unless a probe failed or a limit was reached.  A specification that
\* lists its paths below a base path documents others than those it is compared
\* with (documents, not listed).
HiddenVerdict ==
    agent = "api_security" /\ at = "done" =>
        \A c \in Range(Candidates) :
            /\ Reports("hidden", c) => api.live[c] \in Exists /\ Unlisted(c)
            /\ Tested /\ authorized /\ HasServer /\ Quiet("hidden")
                  /\ api.live[c] \in Exists /\ Unlisted(c) => Reports("hidden", c)
            /\ Reports("hidden", c) /\ c \in api.documents =>
                  \/ api.documents # api.listed
                  \/ api.isUrl /\ ("spec" \in failures \/ api.limited
                                     \/ \A i \in DOMAIN api.specs : api.specs[i] # "spec")

\* The verdicts on an API, each as good as the server's answers allow.
ApiVerdicts == RateVerdict /\ TokenVerdict /\ HiddenVerdict

\* A test of an API that ends without an error has tried every kind of test, or
\* tells that a part was skipped, but for one: if the request without a token
\* fails, no token is crafted and nothing is told (api_security_agent.py:276-279).
\* Nor is anything told of requests that fail, of a file that does not exist, and
\* of a specification's server whose URL cannot be parsed.
SkippedIsTold ==
    Tested =>
        /\ authorized /\ api.isUrl =>
              /\ {"get", "spec", "burst", "baseline"} \subseteq sent
              /\ "hidden" \in sent \/ \A c \in Range(Candidates) : ~Unlisted(c)
              /\ "token" \in sent \/ baseline = "fail"
        /\ ~authorized /\ (api.isUrl \/ (api.file = "spec" /\ api.serves \in {"url", "malformed"})) =>
              Reports("skipped", "target")
        /\ ~api.isUrl /\ api.file = "spec" =>
              \A i \in DOMAIN api.paths : api.paths[i] = "open" <=> Reports("unprotected", i)
=============================================================================
