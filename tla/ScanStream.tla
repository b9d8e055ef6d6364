----------------------------- MODULE ScanStream -----------------------------
(***************************************************************************)
(* GET .../scan-jobs/{id}/stream over the assessment service: a viewer that *)
(* polls the store while the requests of ReviewService run, and sends an   *)
(* event whenever the job has changed (api/routers/assessment.py).  It     *)
(* holds no lock and shares nothing with the request that runs the job but *)
(* the row.                                                                *)
(***************************************************************************)
EXTENDS ReviewService, SequencesExt

CONSTANT MaxPolls    \* 600 in the code

ASSUME PollsAssumption == MaxPolls \in Nat \ {0}

VARIABLES
    stream,    \* "closed", "open", or how it ended
    watched,   \* the <<assessment, job>> it follows
    polls,     \* polls made so far
    sent       \* history: the statuses sent, in order

viewer == <<stream, watched, polls, sent>>

StreamInit ==
    /\ Init
    /\ stream = "closed"
    /\ watched = <<None, None>>
    /\ polls = 0
    /\ sent = <<>>

\* get_scan_job: the job of a stored assessment, or KeyError.
Found(a, j) == a \in stored /\ payload[a].job[j] # "none"

Open(a, j) ==
    /\ stream = "closed" /\ Found(a, j)
    /\ stream' = "open"
    /\ watched' = <<a, j>>
    /\ UNCHANGED <<polls, sent, vars>>

\* Mutant: an event at every poll, changed or not.
PollRepeating ==
    LET a == watched[1]
        s == payload[a].job[watched[2]]
    IN  /\ stream = "open" /\ polls < MaxPolls
        /\ Found(a, watched[2])
        /\ sent' = Append(sent, s)
        /\ stream' = IF s \in Terminal THEN "finished" ELSE "open"
        /\ polls' = polls + 1
        /\ UNCHANGED <<watched, vars>>

\* Mutant: a job that is not pending any more has ended.
PollEndingEarly ==
    LET a == watched[1]
        s == payload[a].job[watched[2]]
    IN  /\ stream = "open" /\ polls < MaxPolls
        /\ Found(a, watched[2])
        /\ sent' = IF sent # <<>> /\ Last(sent) = s THEN sent ELSE Append(sent, s)
        /\ stream' = IF s # "pending" THEN "finished" ELSE "open"
        /\ polls' = polls + 1
        /\ UNCHANGED <<watched, vars>>

\* An event if the job has changed; the stream ends with a finished job.
Poll ==
    LET a == watched[1]
        s == payload[a].job[watched[2]]
    IN  /\ stream = "open" /\ polls < MaxPolls
        /\ Found(a, watched[2])
        /\ sent' = IF sent # <<>> /\ Last(sent) = s THEN sent ELSE Append(sent, s)
        /\ stream' = IF s \in Terminal THEN "finished" ELSE "open"
        /\ polls' = polls + 1
        /\ UNCHANGED <<watched, vars>>

\* The assessment was deleted: an error event ends the stream.
PollGone ==
    /\ stream = "open" /\ polls < MaxPolls
    /\ ~Found(watched[1], watched[2])
    /\ stream' = "error"
    /\ UNCHANGED <<watched, polls, sent, vars>>

\* The last poll has been made: the stream ends without a word.
RunOut ==
    /\ stream = "open" /\ polls = MaxPolls
    /\ stream' = "ran out"
    /\ UNCHANGED <<watched, polls, sent, vars>>

Watch == \/ \E a \in Assessments, j \in Jobs : Open(a, j)
         \/ Poll \/ PollGone \/ RunOut

StreamNext == (Next /\ UNCHANGED viewer) \/ Watch

\* The service is scheduled as in FairSpec; viewers owe nothing.
StreamSpec == StreamInit /\ [][StreamNext]_<<vars, viewer>> /\ Fairness

-----------------------------------------------------------------------------
(* Properties that need one request at a time per assessment.              *)

\* A viewer sees the life of the job in its order, each status once and
\* nothing after the outcome, however its polls fall between the saves.
EventsInOrder ==
    \E upto \in SUBSET {1, 2} : \E outcome \in {<<>>} \cup {<<s>> : s \in Terminal} :
        sent = (IF 1 \in upto THEN <<"pending">> ELSE <<>>)
                   \o (IF 2 \in upto THEN <<"running">> ELSE <<>>) \o outcome

\* A stream that ends as finished has told the outcome, and it is the outcome
\* that every later reader of the job finds.
StreamTellsOutcome ==
    stream = "finished" =>
        /\ Last(sent) \in Terminal
        /\ watched[1] \in stored => payload[watched[1]].job[watched[2]] = Last(sent)
=============================================================================
