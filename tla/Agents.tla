------------------------------- MODULE Agents -------------------------------
(* A scan job's agent, from the choice of AgentFactory.create to the end of  *)
(* execute, whichever agent it is: the parts that read a directory, crawl a  *)
(* site and test an API share what every agent has (AgentRun).               *)
EXTENDS SourceAgents, BlackBoxAgent, ApiSecurityAgent

vars == <<run, source, web, probing>>

SourceAgent == PatternAgents \cup ToolAgents

(* What the chosen agent does not look at has a fixed value.                 *)
Idle(chosen, value, values) == chosen \/ value = CHOOSE v \in values : TRUE

Init ==
    /\ InitRun /\ InitSource /\ InitWeb /\ InitApi
    /\ Idle(agent \in SourceAgent, tree, Trees)
    /\ Idle(agent = "black_box", site, Sites)
    /\ Idle(agent = "api_security", api, Apis)

(* The agent's own steps.                                                    *)
Step ==
    \/ StepSource /\ UNCHANGED <<web, probing>>
    \/ StepWeb /\ UNCHANGED <<source, probing>>
    \/ StepApi /\ UNCHANGED <<source, web>>
    \/ (NoTarget \/ Return) /\ UNCHANGED <<source, web, probing>>

(* What happens around it: the clone is removed, the server's window ends.   *)
Around ==
    /\ ~Ended
    /\ \/ agent \in SourceAgent /\ (\E f \in Files : RemoveFile(f)) /\ UNCHANGED <<web, probing>>
       \/ WindowReset /\ UNCHANGED <<source, web>>

Next == Step \/ Around

(* The thread of the scan job goes on.                                       *)
Spec == Init /\ [][Next]_vars /\ WF_vars(Step)

-----------------------------------------------------------------------------

Intrusive == {"crawl", "probe", "spec", "hidden", "burst", "token"}

\* Agents that probe intrusively "should only do so when authorized is True"
\* (core/agent.py:18-19; src/README.md:116-117 names crawling, injection probes,
\* rate-limit and JWT tests): no crawl, no changed parameter, no probe of an
\* endpoint, no burst and no crafted token without the confirmation, whatever the
\* target is and answers.
ProbesNeedConsent == sent \cap Intrusive # {} => authorized

\* Trouble with a tool, and a test of a site or an API that an agent leaves out, is
\* in its findings, but for what each part names; that one request failed is not.
TroubleIsTold == ToolTroubleIsTold /\ CrawlIsReported /\ SkippedIsTold

\* Every agent ends, whatever fails, answers or disappears, even if the clone goes
\* or the window of the server is reset again and again.
AgentFinishes == <>Ended
=============================================================================
