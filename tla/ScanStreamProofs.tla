-------------------------- MODULE ScanStreamProofs --------------------------
(***************************************************************************)
(* Theorems about ScanStream: a viewer disturbs nothing, so what is proved *)
(* about the service holds beside it; and while clients keep one request   *)
(* in flight per assessment, a viewer is told the life of the job in its   *)
(* order and the outcome that stays.                                       *)
(***************************************************************************)
EXTENDS ScanStream, ReviewSerialProofs

-----------------------------------------------------------------------------
(* The service beside a viewer is the service.                             *)

\* The stream endpoint only reads: whatever is proved about the service holds
\* for the service with its viewers.
THEOREM ViewerDisturbsNothing == StreamSpec => Spec
<1>1. StreamInit => Init
  BY DEF StreamInit
<1>2. [StreamNext]_<<vars, viewer>> => [Next]_vars
  BY DEF StreamNext, Watch, Open, Poll, PollGone, RunOut
<1> QED
  BY <1>1, <1>2, PTL DEF StreamSpec, Spec

-----------------------------------------------------------------------------
(* What happens to the job that is watched.                                *)

\* A stage of a job, and itself or one that may follow it.
Onward(s, t) == s = t \/ <<s, t>> \in JobStages

\* A stored job goes on, or goes with its assessment, and that is for ever.
Follows(a, j) ==
    /\ a \in stored /\ payload[a].job[j] # "none" =>
           \/ a \in stored' /\ Onward(payload[a].job[j], payload'[a].job[j])
           \/ a \notin stored' /\ a \in gone'
    /\ a \notin stored /\ a \in gone => a \notin stored' /\ a \in gone'

\* No step of the service takes a job back or brings a deleted one again.
LEMMA JobsFollow ==
    ASSUME TypeInv, SerialInv, [Next]_vars, NEW a \in Assessments, NEW j \in Jobs
    PROVE  Follows(a, j)
<1>1. CASE UNCHANGED vars
  BY <1>1 DEF vars, Follows, Onward
<1>2. ASSUME NEW w \in Workers, Request(w) \/ Step(w) \/ Abort(w)
      PROVE  Follows(a, j)
  <2>1. RowStep(w) /\ payload \in [Assessments -> Assessment]
    BY <1>2, StepRow DEF TypeInv, TypeOK
  <2>2. CASE UNCHANGED <<stored, payload, gone>>
    BY <2>2 DEF Follows, Onward
  <2>3. ASSUME NEW x \in Assessments, CreatesRow(x)
        PROVE  Follows(a, j)
    BY <2>1, <2>3 DEF CreatesRow, Follows, Onward
  <2>4. ASSUME NEW x \in Assessments, DeletesRow(x)
        PROVE  Follows(a, j)
    BY <2>1, <2>4 DEF DeletesRow, Follows, Onward
  <2>5. ASSUME NEW x \in Assessments, NEW r \in Repos, NEW b \in Assessment, NEW from, NEW to,
               MovesRepo(x, r, b, from, to), gone \subseteq gone'
        PROVE  Follows(a, j)
    BY <2>1, <2>5 DEF MovesRepo, RepoMove, Follows, Onward
  <2>6. ASSUME NEW x \in Assessments, NEW i, NEW b \in Assessment, NEW m \in JobStages,
               MovesJob(x, i, b, m[1], m[2])
        PROVE  Follows(a, j)
    <3>1. m = <<m[1], m[2]>>
      BY DEF JobStages
    <3>2. payload[x].job \in [Jobs -> ScanStatus]
      BY <2>1 DEF Assessment
    <3>3. x = a => Onward(payload[a].job[j], payload'[a].job[j])
      BY <2>1, <2>6, <3>1, <3>2 DEF MovesJob, JobMove, Onward
    <3> QED
      BY <2>1, <2>6, <3>3 DEF MovesJob, Follows, Onward
  <2> QED
    BY <2>1, <2>2, <2>3, <2>4, <2>5, <2>6 DEF RowStep
<1> QED
  BY <1>1, <1>2 DEF Next

-----------------------------------------------------------------------------
(* The inductive invariant.                                                *)

\* What may have been sent before the outcome.
Begun == {<<>>, <<"pending">>, <<"running">>, <<"pending", "running">>}

\* The job of the stream, wherever the service has brought it since the last
\* event: at the stage that was sent, or at one that comes after it.
Ahead ==
    LET s == payload[watched[1]].job[watched[2]] IN
    /\ s # "none"
    /\ sent \in {<<"running">>, <<"pending", "running">>} => s # "pending"
    /\ stream = "finished" => s = Last(sent)

StreamInv ==
    /\ stream = "closed" => sent = <<>>
    /\ stream # "closed" => watched \in Assessments \X Jobs
    /\ stream # "finished" => sent \in Begun
    /\ stream = "finished" => \E b \in Begun, s \in Terminal : sent = Append(b, s)
    /\ stream # "closed" => IF watched[1] \in stored THEN Ahead ELSE watched[1] \in gone

\* What was sent before the outcome ends as it says.
LEMMA BegunLast ==
    ASSUME NEW b \in Begun
    PROVE  /\ b # <<>> /\ Last(b) = "pending" => b = <<"pending">>
           /\ b # <<>> /\ Last(b) = "running" => b \in {<<"running">>, <<"pending", "running">>}
           /\ b # <<>> => Last(b) \in {"pending", "running"}
           /\ \A s : Last(Append(b, s)) = s /\ Append(b, s) # <<>>
<1>1. CASE b = <<>>
  BY <1>1 DEF Last
<1>2. CASE b = <<"pending">>
  BY <1>2 DEF Last
<1>3. CASE b = <<"running">>
  BY <1>3 DEF Last
<1>4. CASE b = <<"pending", "running">>
  BY <1>4 DEF Last
<1> QED
  BY <1>1, <1>2, <1>3, <1>4 DEF Begun

\* How the announcements of a job can have begun, and go on.
LEMMA BegunGrows ==
    ASSUME NEW b \in Begun
    PROVE  /\ b \notin {<<"running">>, <<"pending", "running">>} =>
                  /\ Append(b, "running") \in {<<"running">>, <<"pending", "running">>}
                  /\ b = <<>> \/ b = <<"pending">>
           /\ b = <<>> => Append(b, "pending") = <<"pending">>
<1>1. Append(<<>>, "running") = <<"running">> /\ Append(<<>>, "pending") = <<"pending">>
  OBVIOUS
<1>2. Append(<<"pending">>, "running") = <<"pending", "running">>
  <2>1. Append(<<"pending">>, "running") = <<"pending">> \o <<"running">>
    OBVIOUS
  <2>2. \A c : c = <<"pending", "running">> => c = <<"pending">> \o <<"running">>
    OBVIOUS
  <2> QED
    BY <2>1, <2>2
<1> QED
  BY <1>1, <1>2 DEF Begun

\* The service's steps keep the invariant of a viewer that waits ...
LEMMA ServiceKeepsStream ==
    ASSUME TypeInv, SerialInv, StreamInv, [Next]_vars, UNCHANGED viewer
    PROVE  StreamInv'
<1>1. CASE stream = "closed"
  BY <1>1 DEF StreamInv, viewer
<1>2. CASE stream # "closed"
  <2>1. watched[1] \in Assessments /\ watched[2] \in Jobs /\ watched' = watched
    BY <1>2 DEF StreamInv, viewer
  <2>2. Follows(watched[1], watched[2])
    BY <2>1, JobsFollow
  <2>3. CASE watched[1] \notin stored
    BY <1>2, <2>1, <2>2, <2>3 DEF StreamInv, viewer, Follows
  <2>4. CASE watched[1] \in stored
    <3>1. Ahead
      BY <1>2, <2>4 DEF StreamInv
    <3>2. watched[1] \in stored' \/ watched[1] \in gone'
      BY <2>2, <2>4, <3>1 DEF Follows, Ahead
    <3>3. ASSUME watched[1] \in stored'
          PROVE  Ahead'
      <4>1. Onward(payload[watched[1]].job[watched[2]], payload'[watched[1]].job[watched[2]])
        BY <2>2, <2>4, <3>1, <3>3 DEF Follows, Ahead
      <4>2. stream = "finished" => Last(sent) \in Terminal
        <5> SUFFICES ASSUME stream = "finished" PROVE Last(sent) \in Terminal
          OBVIOUS
        <5>1. PICK b \in Begun, s \in Terminal : sent = Append(b, s)
          BY DEF StreamInv
        <5>2. Last(Append(b, s)) = s
          BY BegunLast
        <5> QED
          BY <5>1, <5>2
      <4> QED
        BY <2>1, <3>1, <4>1, <4>2 DEF Ahead, viewer, Onward, JobStages, Terminal
    <3> QED
      BY <1>2, <2>1, <3>2, <3>3 DEF StreamInv, viewer
  <2> QED
    BY <2>3, <2>4
<1> QED
  BY <1>1, <1>2

\* ... and so does the viewer.
LEMMA PollKeepsStream ==
    ASSUME TypeInv, StreamInv, Poll
    PROVE  StreamInv'
<1>1. PICK s : s = payload[watched[1]].job[watched[2]]
  OBVIOUS
<1>2. /\ stream = "open" /\ watched' = watched
      /\ watched[1] \in stored /\ s # "none" /\ stored' = stored /\ payload' = payload
      /\ sent' = IF sent # <<>> /\ Last(sent) = s THEN sent ELSE Append(sent, s)
      /\ stream' = IF s \in Terminal THEN "finished" ELSE "open"
  BY <1>1 DEF Poll, Found, vars
<1>3. sent \in Begun /\ watched \in Assessments \X Jobs
  BY <1>2 DEF StreamInv
<1>4. sent \in {<<"running">>, <<"pending", "running">>} => s # "pending"
  BY <1>1, <1>2 DEF StreamInv, Ahead
<1>5. s \in {"pending", "running"} \cup Terminal
  <2>1. payload[watched[1]].job \in [Jobs -> ScanStatus]
    BY <1>3 DEF TypeInv, TypeOK, Assessment
  <2>2. s \in ScanStatus
    BY <1>1, <1>2, <1>3, <2>1
  <2> QED
    BY <1>2, <2>2 DEF ScanStatus, Terminal
<1>6. CASE s \in Terminal
  <2>1. sent' = Append(sent, s)
    BY <1>2, <1>3, <1>6, BegunLast DEF Terminal
  <2>2. Last(sent') = s
    BY <1>3, <2>1, BegunLast
  <2>3. sent' \notin {<<"running">>, <<"pending", "running">>}
    <3>1. Last(<<"running">>) = "running" /\ Last(<<"pending", "running">>) = "running"
      BY DEF Last
    <3> QED
      BY <1>6, <2>2, <3>1 DEF Terminal
  <2> QED
    BY <1>1, <1>2, <1>3, <1>6, <2>1, <2>2, <2>3 DEF StreamInv, Ahead
<1>7. CASE s = "running"
  <2>1. sent' \in {<<"running">>, <<"pending", "running">>}
    BY <1>2, <1>3, <1>7, BegunLast, BegunGrows
  <2> QED
    BY <1>1, <1>2, <1>3, <1>7, <2>1 DEF StreamInv, Ahead, Begun, Terminal
<1>8. CASE s = "pending"
  <2>1. sent' = <<"pending">>
    BY <1>2, <1>3, <1>4, <1>8, BegunLast, BegunGrows
  <2>2. <<"pending">> \notin {<<"running">>, <<"pending", "running">>}
    OBVIOUS
  <2> QED
    BY <1>1, <1>2, <1>3, <1>8, <2>1, <2>2 DEF StreamInv, Ahead, Begun, Terminal
<1> QED
  BY <1>5, <1>6, <1>7, <1>8

\* What the viewer does keeps the invariant of the stream.
LEMMA ViewerKeepsStream ==
    ASSUME TypeInv, StreamInv, Watch
    PROVE  StreamInv'
<1>1. ASSUME NEW a \in Assessments, NEW j \in Jobs, Open(a, j)
      PROVE  StreamInv'
  <2>1. sent' = <<>> /\ <<>> \in Begun
    BY <1>1 DEF Open, StreamInv, Begun
  <2> QED
    BY <1>1, <2>1 DEF Open, Found, StreamInv, Ahead, vars
<1>2. CASE PollGone
  BY <1>2 DEF PollGone, StreamInv, Found, Ahead, vars
<1>3. CASE RunOut
  BY <1>3 DEF RunOut, StreamInv, Ahead, vars
<1> QED
  BY <1>1, <1>2, <1>3, PollKeepsStream DEF Watch

\* So it holds in every state.
LEMMA StreamAlways ==
    ASSUME Serial
    PROVE  StreamSpec => []StreamInv
<1>1. StreamInit => StreamInv
  BY DEF StreamInit, StreamInv, Begun
<1>2. TypeInv /\ SerialInv /\ StreamInv /\ [StreamNext]_<<vars, viewer>> => StreamInv'
  <2>1. ASSUME TypeInv, SerialInv, StreamInv, UNCHANGED <<vars, viewer>>
        PROVE  StreamInv'
    BY <2>1, ServiceKeepsStream
  <2> QED
    BY <2>1, ServiceKeepsStream, ViewerKeepsStream DEF StreamNext
<1> QED
  BY <1>1, <1>2, ViewerDisturbsNothing, SerialAlways, PTL DEF StreamSpec

\* A viewer sees the life of the job in its order, each status once and nothing
\* after the outcome.
THEOREM EventsAlwaysInOrder ==
    ASSUME Serial
    PROVE  StreamSpec => []EventsInOrder
<1>1. StreamInv => EventsInOrder
  <2> SUFFICES ASSUME StreamInv
               PROVE  EventsInOrder
    OBVIOUS
  <2>1. PICK b \in Begun, t \in {<<>>} \cup {<<s>> : s \in Terminal} : sent = b \o t
    <3>1. CASE stream # "finished"
      <4>1. sent \in Begun /\ sent = sent \o <<>>
        BY <3>1 DEF StreamInv, Begun
      <4> QED
        BY <4>1
    <3>2. CASE stream = "finished"
      <4>1. PICK b \in Begun, s \in Terminal : sent = Append(b, s)
        BY <3>2 DEF StreamInv
      <4>2. Append(b, s) = b \o <<s>>
        BY DEF Begun
      <4> QED
        BY <4>1, <4>2
    <3> QED
      BY <3>1, <3>2
  <2>2. PICK upto \in SUBSET {1, 2} :
            b = (IF 1 \in upto THEN <<"pending">> ELSE <<>>)
                    \o (IF 2 \in upto THEN <<"running">> ELSE <<>>)
    <3>1. b = <<>> => b = <<>> \o <<>>
      OBVIOUS
    <3>2. b = <<"pending">> => b = <<"pending">> \o <<>>
      OBVIOUS
    <3>3. b = <<"running">> => b = <<>> \o <<"running">>
      OBVIOUS
    <3>4. b = <<"pending", "running">> => b = <<"pending">> \o <<"running">>
      OBVIOUS
    <3>5. {} \in SUBSET {1, 2} /\ {1} \in SUBSET {1, 2} /\ {2} \in SUBSET {1, 2}
          /\ {1, 2} \in SUBSET {1, 2}
      OBVIOUS
    <3>6. CASE b = <<>>
      BY <3>1, <3>5, <3>6
    <3>7. CASE b = <<"pending">>
      BY <3>2, <3>5, <3>7
    <3>8. CASE b = <<"running">>
      <4>1. {2} \in SUBSET {1, 2} /\ 1 \notin {2} /\ 2 \in {2}
        OBVIOUS
      <4>2. b = (IF 1 \in {2} THEN <<"pending">> ELSE <<>>)
                    \o (IF 2 \in {2} THEN <<"running">> ELSE <<>>)
        BY <3>3, <3>8, <4>1
      <4> QED
        BY <4>1, <4>2
    <3>9. CASE b = <<"pending", "running">>
      BY <3>4, <3>5, <3>9
    <3> QED
      BY <3>6, <3>7, <3>8, <3>9 DEF Begun
  <2>3. sent = (IF 1 \in upto THEN <<"pending">> ELSE <<>>)
                   \o (IF 2 \in upto THEN <<"running">> ELSE <<>>) \o t
    BY <2>1, <2>2
  <2> QED
    BY <2>3 DEF EventsInOrder
<1> QED
  BY <1>1, StreamAlways, PTL

\* A stream that ends as finished has told the outcome, and every later reader
\* of the job finds that outcome.
THEOREM StreamAlwaysTellsOutcome ==
    ASSUME Serial
    PROVE  StreamSpec => []StreamTellsOutcome
<1>1. StreamInv => StreamTellsOutcome
  <2> SUFFICES ASSUME StreamInv, stream = "finished" PROVE StreamTellsOutcome
    BY DEF StreamTellsOutcome
  <2>1. PICK b \in Begun, s \in Terminal : sent = Append(b, s)
    BY DEF StreamInv
  <2>2. Last(Append(b, s)) = s /\ Append(b, s) # <<>>
    BY BegunLast
  <2>3. watched[1] \in stored => payload[watched[1]].job[watched[2]] = Last(sent)
    BY DEF StreamInv, Ahead
  <2> QED
    BY <2>1, <2>2, <2>3 DEF StreamTellsOutcome
<1> QED
  BY <1>1, StreamAlways, PTL

=============================================================================
