---------------------------- MODULE RateLimiter ----------------------------
(* The fixed-window limiter in front of signup, login and forgot-password    *)
(* (api/rate_limiter.py).  The counters are kept in memory, where the clock  *)
(* is read before the lock is taken, or in Redis, where INCR, EXPIRE and TTL *)
(* are three calls.  Requests run in threads and may die between two steps.  *)
(*                                                                           *)
(* The code uses only differences of times, so the model keeps what is left  *)
(* or gone of each interval, in ticks of a fraction of a second; Tick moves  *)
(* all of them.  A request waits at most MaxDelay ticks between two steps.   *)
EXTENDS Integers, FiniteSets

CONSTANTS
    Workers,        \* threads of the servers
    Clients,        \* addresses, the keys of the counters
    MaxAttempts,    \* attempts allowed in a window
    Second,         \* ticks in a second
    WindowSeconds,  \* length of a window in seconds
    MaxDelay,       \* bound on the ticks a request waits between two steps
    Faults          \* whether a request may die

ASSUME LimiterAssumption ==
    /\ MaxAttempts \in Nat \ {0}
    /\ Second \in Nat \ {0}
    /\ WindowSeconds \in Nat \ {0}
    /\ MaxDelay \in Nat
    /\ MaxDelay <= WindowSeconds * Second
    /\ Faults \in BOOLEAN

VARIABLES
    backend,  \* "memory" or "redis", chosen when the process starts
    counter,  \* the window of each client
    at,       \* where each request is
    key,      \* the client of each request
    count,    \* what INCR answered to each request
    waited,   \* ticks since the last step of each request
    recent,   \* history: the passes of each client, <<how many ticks ago, number>>
    owed      \* history: the earliest Retry-After of the window, in ticks from now

vars == <<backend, counter, at, key, count, waited, recent, owed>>

Window == WindowSeconds * Second

(* A window: how many attempts it has counted and how much of it is left.    *)
(* The code tells counts apart only up to the first one refused.             *)
Counted(n) == IF n <= MaxAttempts THEN n + 1 ELSE n

NoWindow == [count |-> 0, left |-> 0, expires |-> TRUE]

(* The history of passes goes back as far as the properties look; those of   *)
(* one tick are numbered from 0.                                             *)
Horizon == Window + MaxDelay

JustNow(passes) == {p \in passes : p[1] = 0}
Passed(passes)  == passes \cup {<<0, Cardinality(JustNow(passes))>>}
Older(passes)   == {<<p[1] + 1, p[2]>> : p \in {q \in passes : q[1] + 1 < Horizon}}

Init ==
    /\ backend \in {"memory", "redis"}
    /\ counter = [c \in Clients |-> NoWindow]
    /\ at = [w \in Workers |-> "Idle"]
    /\ key \in [Workers -> Clients]
    /\ count = [w \in Workers |-> 0]
    /\ waited = [w \in Workers |-> 0]
    /\ recent = [c \in Clients |-> {}]
    /\ owed = [c \in Clients |-> {}]

Go(w, label) ==
    /\ at' = [at EXCEPT ![w] = label]
    /\ waited' = [waited EXCEPT ![w] = 0]

(* check: the attempt numbered n in its window is let through or refused.    *)
LetThrough(c, n) ==
    recent' = IF n <= MaxAttempts THEN [recent EXCEPT ![c] = Passed(@)] ELSE recent

Earliest(S) == {p \in S : \A q \in S : p <= q}

(* A refusal tells the client to come back in s seconds.                     *)
Promise(earlier, s) == Earliest(earlier \cup {s * Second})

(***************************************************************************)
(* In memory                                                               *)
(***************************************************************************)

(* increment: the time is read before the lock is taken.                     *)
ReadClock(w) ==
    /\ backend = "memory" /\ at[w] = "Idle"
    /\ \E c \in Clients : key' = [key EXCEPT ![w] = c]
    /\ Go(w, "Count")
    /\ UNCHANGED <<backend, counter, count, recent, owed>>

(* What the request believes to be left of the window: its clock is late.    *)
LeftFor(w, c) == counter[c].left + waited[w]

\* Mutant: the window is taken for over one second before its end.
WindowForEndingEarly(w, c) ==
    IF counter[c].count = 0 \/ LeftFor(w, c) <= Second
    THEN [count |-> 1, left |-> Window - waited[w], expires |-> TRUE]
    ELSE [counter[c] EXCEPT !.count = Counted(@)]

\* Mutant: a window that is over goes on counting.
WindowForWithoutRestart(w, c) ==
    IF counter[c].count = 0
    THEN [count |-> 1, left |-> Window - waited[w], expires |-> TRUE]
    ELSE [counter[c] EXCEPT !.count = Counted(@)]

(* The window that the request counts in: the stored one, or a new one that  *)
(* starts at the time the request has read.                                  *)
WindowFor(w, c) ==
    IF counter[c].count = 0 \/ LeftFor(w, c) <= 0
    THEN [count |-> 1, left |-> Window - waited[w], expires |-> TRUE]
    ELSE [counter[c] EXCEPT !.count = Counted(@)]

\* Mutant: what is gone of the window in place of what is left.
RetryAfterElapsed(remaining) ==
    IF Window - remaining < Second THEN 1 ELSE (Window - remaining) \div Second

(* retry_after: whole seconds, at least one.                                 *)
RetryAfter(remaining) ==
    IF remaining < Second THEN 1 ELSE remaining \div Second

Count(w) ==
    LET c   == key[w]
        win == WindowFor(w, c)
    IN  /\ at[w] = "Count"
        /\ counter' = [counter EXCEPT ![c] = win]
        /\ LetThrough(c, win.count)
        /\ owed' = [owed EXCEPT ![c] =
                LET earlier == IF win.count = 1 THEN {} ELSE @
                IN  IF win.count > MaxAttempts
                    THEN Promise(earlier, RetryAfter(win.left + waited[w]))
                    ELSE earlier]
        /\ Go(w, "Idle")
        /\ UNCHANGED <<backend, key, count>>

(***************************************************************************)
(* In Redis                                                                *)
(***************************************************************************)

\* Mutant: the test of count = 1 is missing, every attempt renews the window.
IncrRenewing(w) ==
    /\ backend = "redis" /\ at[w] = "Idle"
    /\ \E c \in Clients :
        LET n == Counted(counter[c].count) IN
        /\ key' = [key EXCEPT ![w] = c]
        /\ count' = [count EXCEPT ![w] = n]
        /\ counter' = [counter EXCEPT ![c] =
                IF n = 1 THEN [count |-> 1, left |-> 0, expires |-> FALSE]
                         ELSE [@ EXCEPT !.count = n]]
        /\ LetThrough(c, n)
        /\ Go(w, "Expire")
    /\ UNCHANGED <<backend, owed>>

(* INCR creates a key without expiry; whoever created it goes on to EXPIRE.  *)
Incr(w) ==
    /\ backend = "redis" /\ at[w] = "Idle"
    /\ \E c \in Clients :
        LET n == Counted(counter[c].count) IN
        /\ key' = [key EXCEPT ![w] = c]
        /\ count' = [count EXCEPT ![w] = n]
        /\ counter' = [counter EXCEPT ![c] =
                IF n = 1 THEN [count |-> 1, left |-> 0, expires |-> FALSE]
                         ELSE [@ EXCEPT !.count = n]]
        /\ LetThrough(c, n)
        /\ Go(w, IF n = 1 THEN "Expire" ELSE "Ttl")
    /\ UNCHANGED <<backend, owed>>

Expire(w) ==
    /\ at[w] = "Expire"
    /\ counter' = [counter EXCEPT ![key[w]].left = Window, ![key[w]].expires = TRUE]
    /\ Go(w, "Ttl")
    /\ UNCHANGED <<backend, key, count, recent, owed>>

(* TTL answers in whole seconds, rounded to one of the neighbours; it has    *)
(* no positive answer for a key that is gone or has no expiry.               *)
Ttls(c) ==
    LET t == counter[c].left
    IN  IF ~counter[c].expires THEN {-1} ELSE {t \div Second, (t + Second - 1) \div Second}

Ttl(w) ==
    LET c == key[w] IN
    /\ at[w] = "Ttl"
    /\ \E ttl \in Ttls(c) :
        owed' = [owed EXCEPT ![c] =
            IF count[w] > MaxAttempts /\ counter[c].count > 0
            THEN Promise(@, IF ttl > 0 THEN ttl ELSE WindowSeconds)
            ELSE @]
    /\ Go(w, "Idle")
    /\ UNCHANGED <<backend, counter, key, count, recent>>

(***************************************************************************)
(* Time, deaths and resets                                                 *)
(***************************************************************************)

(* Redis removes a key when its time is over.  A window in memory stays until *)
(* the next attempt; how long it has been over matters only to late clocks.  *)
Later(win) ==
    IF win.count = 0 \/ ~win.expires THEN win
    ELSE IF backend = "redis" /\ win.left = 1 THEN NoWindow
    ELSE [win EXCEPT !.left = IF @ > -MaxDelay THEN @ - 1 ELSE @]

(* A promise is over with its window.                                        *)
PromisesLater(c) ==
    LET win == Later(counter[c])
    IN  IF win.expires /\ win.left <= 0 THEN {}
        ELSE {IF p > -Window THEN p - 1 ELSE p : p \in owed[c]}

Tick ==
    /\ \A w \in Workers : at[w] # "Idle" => waited[w] < MaxDelay
    /\ waited' = [w \in Workers |-> IF at[w] = "Idle" THEN 0 ELSE waited[w] + 1]
    /\ counter' = [c \in Clients |-> Later(counter[c])]
    /\ recent' = [c \in Clients |-> Older(recent[c])]
    /\ owed' = [c \in Clients |-> PromisesLater(c)]
    /\ UNCHANGED <<backend, at, key, count>>

(* The process dies, or Redis cannot be reached any more.                    *)
Die(w) ==
    /\ Faults /\ at[w] # "Idle"
    /\ Go(w, "Idle")
    /\ UNCHANGED <<backend, counter, key, count, recent, owed>>

(* reset: the tests empty the counters between requests; the history that    *)
(* the properties speak of starts again.                                     *)
Reset ==
    /\ \A w \in Workers : at[w] = "Idle"
    /\ counter' = [c \in Clients |-> NoWindow]
    /\ recent' = [c \in Clients |-> {}]
    /\ owed' = [c \in Clients |-> {}]
    /\ UNCHANGED <<backend, at, key, count, waited>>

Request(w) == Count(w) \/ Expire(w) \/ Ttl(w)

Next ==
    \/ \E w \in Workers : ReadClock(w) \/ Incr(w) \/ Request(w) \/ Die(w)
    \/ Tick \/ Reset

Spec == Init /\ [][Next]_vars

(* Time passes and requests that have begun go on; nobody has to begin one,  *)
(* die or reset.                                                             *)
FairSpec == Spec /\ WF_vars(Tick) /\ \A w \in Workers : WF_vars(Request(w))

(***************************************************************************)
(* Properties                                                              *)
(***************************************************************************)

LetThroughIn(c, span) == Cardinality({p \in recent[c] : p[1] < span})

(* A key that will never expire: the request that made it died before EXPIRE. *)
Unexpiring(c) ==
    /\ ~counter[c].expires
    /\ \A w \in Workers : at[w] = "Expire" => key[w] # c

(* In any span as long as a window no more attempts pass than two windows    *)
(* allow, however the requests of INCR and EXPIRE interleave; in memory the  *)
(* clock read before the lock can make it three, since a late request starts *)
(* its window in the past (rate_limiter.py:44-50, 72-74).                    *)
BurstBounded ==
    \A c \in Clients :
        LetThroughIn(c, Window) <= (IF backend = "redis" THEN 2 ELSE 3) * MaxAttempts

(* An attempt of c that is about to be counted exceeds its window.           *)
WouldBeRefused(c) ==
    IF backend = "redis" THEN Counted(counter[c].count) > MaxAttempts
    ELSE \E w \in Workers :
            at[w] = "Count" /\ key[w] = c /\ WindowFor(w, c).count > MaxAttempts

(* Nobody is refused who has not used up his attempts: whenever an attempt   *)
(* would be refused, a whole window's worth has passed within a window and   *)
(* the longest delay, unless a death left a key without expiry               *)
(* (rate_limiter.py:46-50, 72-74, 124).                                      *)
RefusedOnlyAfterUse ==
    \A c \in Clients :
        WouldBeRefused(c) =>
            Unexpiring(c) \/ LetThroughIn(c, Window + MaxDelay) >= MaxAttempts

(* How early Retry-After may be: its seconds are whole, and in Redis a       *)
(* refusal may overtake the EXPIRE of the window that refuses it.            *)
Slack == IF backend = "redis" /\ MaxDelay >= Second THEN MaxDelay ELSE Second - 1

(* Retry-After can be believed up to Slack: when that time has passed, the   *)
(* window that refused the attempt is over (rate_limiter.py:52, 75-76).      *)
RetryAfterHolds ==
    \A c \in Clients : \A p \in owed[c] :
        Unexpiring(c) \/ (IF counter[c].expires THEN counter[c].left ELSE Window) <= p + Slack

(* A client that has used up a window is let in again, unless a request died *)
(* between INCR and EXPIRE: then the key stays for ever and the client is    *)
(* locked out until somebody deletes it (rate_limiter.py:72-74).             *)
WindowEnds ==
    \A c \in Clients :
        counter[c].count >= MaxAttempts ~>
            \/ counter[c].count = 0 \/ (counter[c].expires /\ counter[c].left <= 0)
            \/ Unexpiring(c)
=============================================================================
