------------------------------ MODULE AgentRun ------------------------------
(* What every execution of a scanner agent has: the agent that               *)
(* AgentFactory.create chose for a scan job, whether the client confirmed    *)
(* that the target may be tested, where Agent.execute is, the kinds of       *)
(* request it has sent, and the list of findings it will return.  A finding  *)
(* is a pair: what was found, and where.                                     *)
EXTENDS Naturals, Sequences

VARIABLES
    agent,       \* the agent that runs
    authorized,  \* ScanJob.target_authorization_confirmed
    at,          \* where execute is
    sent,        \* the kinds of request sent so far
    findings     \* the findings so far

run == <<agent, authorized, at, sent, findings>>

PatternAgents == {"red_team", "blue_team", "cloud_security"}
ToolAgents    == {"white_box", "dependency_security", "secret_detection", "trivy"}
Agents        == PatternAgents \cup ToolAgents \cup {"black_box", "api_security"}

(* The agents that add a finding when they have none.                        *)
Reassuring == Agents \ ToolAgents

InitRun ==
    /\ agent \in Agents
    /\ authorized \in BOOLEAN
    /\ at = "start"
    /\ sent = {}
    /\ findings = {}

Ended == at \in {"done", "raised", "no_target"}

(* execute goes on, with some findings more and some requests sent.          *)
Continue(from, to, found, kinds) ==
    /\ at = from
    /\ at' = to
    /\ findings' = findings \cup found
    /\ sent' = sent \cup kinds
    /\ UNCHANGED <<agent, authorized>>

(* A scan job without a target.                                              *)
NoTarget == Continue("start", "no_target", {}, {})

(* The end of execute: "... completed" if nothing was found.                 *)
Return ==
    Continue("return", "done",
             IF findings = {} /\ agent \in Reassuring THEN {<<"completed", "target">>} ELSE {}, {})
=============================================================================
