------------------------- MODULE RateLimiterProofs -------------------------
(***************************************************************************)
(* Theorems about RateLimiter, for any number of requests and clients, any *)
(* window and any limit, in memory and in Redis, with clocks that are late *)
(* and requests that die: how many attempts pass within a window, who is   *)
(* refused, and how far Retry-After can be believed.                       *)
(***************************************************************************)
EXTENDS RateLimiter, FiniteSetTheorems, FunctionTheorems, TLAPS

-----------------------------------------------------------------------------
(* The inductive invariant.  Clients share nothing, so it speaks of one     *)
(* client at a time: its window win, the passes R and promises P of the    *)
(* history, and the delays X of the requests that are about to EXPIRE.     *)

Backends == {"memory", "redis"}
AWindow  == [count : 0 .. MaxAttempts + 1, left : Int, expires : BOOLEAN]
Passes   == SUBSET ((0 .. Horizon - 1) \X Nat)

\* The passes of a tick are numbered one after the other.
Numbered(R) == \A p \in JustNow(R) : p[2] < Cardinality(JustNow(R))

\* The attempts a window has let through once it has counted n.
Spent(n) == IF n <= MaxAttempts THEN n ELSE MaxAttempts

WindowOK(b, win, R, P, X) ==
    /\ win.left <= Window /\ -MaxDelay <= win.left
    /\ win.count = 0 => win = NoWindow /\ P = {} /\ (b = "memory" => R = {})
    /\ b = "memory" => win.expires
    /\ b = "redis" /\ win.count > 0 /\ win.expires => win.left >= 1
    /\ win.expires => X = {}

\* The passes are those of this window, of the one before, and older ones:
\* when this window ends, the older ones are out of every span that begins
\* then, and those of the one before are so after the longest delay.
BurstOK(b, win, R) ==
    \E S \in SUBSET R : \E T \in SUBSET R :
        /\ Cardinality(S) <= Spent(win.count)
        /\ Cardinality(T) <= MaxAttempts /\ (b = "redis" => T = {})
        /\ Cardinality({p \in R \ (S \cup T) : p[1] < Window}) <= MaxAttempts
        /\ win.count > 0 /\ win.expires =>
               /\ \A p \in R \ (S \cup T) : Window <= p[1] + win.left
               /\ \A p \in T : Window <= p[1] + win.left + MaxDelay

\* The attempts that a window has let through are all in the history, as long
\* as a request can still count in it.
UseOK(b, win, R, X) ==
    \/ win.count = 0
    \/ ~win.expires /\ X = {}
    \/ b = "memory" /\ win.left = -MaxDelay
    \/ \E S \in SUBSET R :
           /\ Spent(win.count) <= Cardinality(S)
           /\ win.expires => \A p \in S : p[1] + win.left <=
                                              Window + (IF b = "redis" THEN MaxDelay ELSE 0)
           /\ ~win.expires => \A p \in S, x \in X : p[1] <= x

\* A promise is kept up to the slack; one that was made before the EXPIRE is
\* early by the delay of that request.
Late(b) == IF b = "redis" /\ MaxDelay >= Second THEN MaxDelay ELSE Second - 1

PromiseOK(b, win, P, X) ==
    /\ win.expires => \A p \in P : win.left <= p + Late(b)
    /\ ~win.expires => \A p \in P, x \in X : Window <= p + x

ClientOK(b, win, R, P, X) ==
    /\ WindowOK(b, win, R, P, X)
    /\ BurstOK(b, win, R)
    /\ UseOK(b, win, R, X)
    /\ PromiseOK(b, win, P, X)

Expiring(c) == {w \in Workers : at[w] = "Expire" /\ key[w] = c}
Delays(c)   == {waited[w] : w \in Expiring(c)}

TypeInv ==
    /\ backend \in Backends
    /\ counter \in [Clients -> AWindow]
    /\ at \in [Workers -> {"Idle", "Count", "Expire", "Ttl"}]
    /\ key \in [Workers -> Clients]
    /\ count \in [Workers -> 0 .. MaxAttempts + 1]
    /\ waited \in [Workers -> 0 .. MaxDelay]
    /\ recent \in [Clients -> Passes]
    /\ owed \in [Clients -> SUBSET Int]
    /\ \A c \in Clients : IsFiniteSet(recent[c]) /\ Numbered(recent[c])
    /\ \A w \in Workers : at[w] # "Idle" => (backend = "memory" <=> at[w] = "Count")
    /\ \A c \in Clients : \A v, w \in Expiring(c) : v = w

LimiterInv ==
    /\ TypeInv
    /\ \A c \in Clients : ClientOK(backend, counter[c], recent[c], owed[c], Delays(c))

-----------------------------------------------------------------------------
(* The constants, and the history of passes.                               *)

\* The spans of time, and the limit, as numbers.
LEMMA Spans ==
    /\ Window \in Nat /\ 1 <= Window /\ MaxDelay \in Nat /\ MaxDelay <= Window
    /\ MaxAttempts \in Nat /\ 1 <= MaxAttempts
    /\ Horizon = Window + MaxDelay
BY LimiterAssumption DEF Window, Horizon

\* How a window counts, and what it has let through.
LEMMA SpentFacts ==
    /\ \A n \in 0 .. MaxAttempts + 1 :
           /\ Spent(n) \in Nat /\ Spent(n) <= MaxAttempts
           /\ n <= MaxAttempts => Spent(n) = n
           /\ Counted(n) \in 1 .. MaxAttempts + 1
           /\ Counted(n) = 1 <=> n = 0
           /\ Counted(n) <= MaxAttempts => Counted(n) = n + 1 /\ n <= MaxAttempts
           /\ Counted(n) > MaxAttempts => Spent(Counted(n)) = MaxAttempts /\ n >= MaxAttempts
           /\ n >= MaxAttempts => Counted(n) > MaxAttempts /\ Spent(n) = MaxAttempts
    /\ Spent(0) = 0 /\ Spent(1) = 1
BY Spans DEF Spent, Counted

\* A pass gets a number of its own.
LEMMA PassedIsNew ==
    ASSUME NEW R \in Passes, IsFiniteSet(R), Numbered(R)
    PROVE  \E p \in (0 .. Horizon - 1) \X Nat :
               /\ p[1] = 0 /\ p \notin R /\ Passed(R) = R \cup {p}
               /\ Passed(R) \in Passes /\ IsFiniteSet(Passed(R)) /\ Numbered(Passed(R))
<1>1. IsFiniteSet(JustNow(R)) /\ Cardinality(JustNow(R)) \in Nat
  BY FS_Subset, FS_CardinalityType DEF JustNow
<1>2. PICK k \in Nat : k = Cardinality(JustNow(R))
  BY <1>1
<1>3. PICK p : p = <<0, k>>
  OBVIOUS
<1>4. p \in (0 .. Horizon - 1) \X Nat /\ p[1] = 0 /\ p[2] = k
  BY <1>3, Spans
<1>5. p \notin R
  BY <1>2, <1>4 DEF Numbered, JustNow
<1>6. Passed(R) = R \cup {p}
  BY <1>2, <1>3 DEF Passed
<1>7. Passed(R) \in Passes /\ IsFiniteSet(Passed(R))
  BY <1>4, <1>6, FS_AddElement DEF Passes
<1>8. JustNow(Passed(R)) = JustNow(R) \cup {p} /\ p \notin JustNow(R)
  BY <1>4, <1>5, <1>6 DEF JustNow
<1>9. Cardinality(JustNow(Passed(R))) = k + 1
  BY <1>1, <1>2, <1>8, FS_AddElement
<1>10. \A q \in JustNow(R) : q[2] \in Nat
  BY DEF JustNow, Passes
<1>11. Numbered(Passed(R))
  BY <1>2, <1>4, <1>8, <1>9, <1>10 DEF Numbered
<1> QED
  BY <1>4, <1>5, <1>6, <1>7, <1>11

\* Passes that are a tick older are as many.
LEMMA AgedCount ==
    ASSUME NEW R \in Passes, NEW A \in SUBSET R, IsFiniteSet(A)
    PROVE  LET B == {<<p[1] + 1, p[2]>> : p \in A}
           IN  IsFiniteSet(B) /\ Cardinality(B) = Cardinality(A)
<1>1. PICK B : B = {<<p[1] + 1, p[2]>> : p \in A}
  OBVIOUS
<1>2. PICK f : f = [p \in A |-> <<p[1] + 1, p[2]>>]
  OBVIOUS
<1>3. \A p \in A : p[1] \in Nat /\ p[2] \in Nat /\ p = <<p[1], p[2]>>
  BY Spans DEF Passes
<1>4. f \in Bijection(A, B)
  <2>1. f \in [A -> B] /\ \A t \in B : \E p \in A : f[p] = t
    BY <1>1, <1>2
  <2>2. ASSUME NEW p \in A, NEW q \in A, f[p] = f[q]
        PROVE  p = q
    <3>1. p[1] + 1 = q[1] + 1 /\ p[2] = q[2]
      BY <1>2, <2>2
    <3> QED
      BY <1>3, <3>1
  <2> QED
    BY <2>1, <2>2, Fun_IsBij
<1> QED
  BY <1>1, <1>4, FS_Bijection DEF ExistsBijection

\* The passes of A that are still in the history after a tick.
Kept(A) == {p \in A : p[1] + 1 < Horizon}

\* A tick makes every pass older and forgets the oldest ones.
LEMMA OlderIsPasses ==
    ASSUME NEW R \in Passes, IsFiniteSet(R)
    PROVE  /\ Older(R) \in Passes /\ IsFiniteSet(Older(R)) /\ Numbered(Older(R))
           /\ \A A \in SUBSET R :
                  /\ Older(A) \subseteq Older(R) /\ IsFiniteSet(Older(A))
                  /\ Cardinality(Older(A)) <= Cardinality(A)
                  /\ (\A p \in A : p[1] + 1 < Horizon) => Cardinality(Older(A)) = Cardinality(A)
<1>1. \A p \in R : p[1] \in Nat /\ p[2] \in Nat
  BY Spans DEF Passes
<1>2. Older(R) \in Passes
  BY <1>1, Spans DEF Older, Passes
<1>3. ASSUME NEW A \in SUBSET R
      PROVE  /\ Older(A) \subseteq Older(R) /\ IsFiniteSet(Older(A))
             /\ Cardinality(Older(A)) <= Cardinality(A)
             /\ (\A p \in A : p[1] + 1 < Horizon) => Cardinality(Older(A)) = Cardinality(A)
  <2>1. IsFiniteSet(A) /\ IsFiniteSet(Kept(A)) /\ Cardinality(Kept(A)) <= Cardinality(A)
    BY FS_Subset DEF Kept
  <2>2. Kept(A) \in SUBSET R
    BY DEF Kept
  <2>3. Older(A) = {<<p[1] + 1, p[2]>> : p \in Kept(A)}
    BY DEF Older, Kept
  <2>4. IsFiniteSet(Older(A)) /\ Cardinality(Older(A)) = Cardinality(Kept(A))
    BY <2>1, <2>2, <2>3, AgedCount
  <2>5. (\A p \in A : p[1] + 1 < Horizon) => Kept(A) = A
    BY DEF Kept
  <2>6. Older(A) \subseteq Older(R)
    BY DEF Older
  <2> QED
    BY <2>1, <2>4, <2>5, <2>6
<1>4. IsFiniteSet(Older(R))
  BY <1>3
<1>5. JustNow(Older(R)) = {}
  BY <1>1 DEF JustNow, Older
<1> QED
  BY <1>2, <1>3, <1>4, <1>5 DEF Numbered

\* What is in the older history was in the history, a tick younger.
LEMMA OlderMember ==
    ASSUME NEW R \in Passes, NEW A \in SUBSET R, NEW p \in Older(A)
    PROVE  \E q \in A : q[1] \in Nat /\ p[1] = q[1] + 1 /\ p = <<q[1] + 1, q[2]>>
BY Spans DEF Older, Passes

-----------------------------------------------------------------------------
(* How many attempts pass within a window.                                 *)

\* An attempt that is counted in the window as it stands.
LEMMA BurstCounted ==
    ASSUME NEW b \in Backends, NEW win \in AWindow, NEW R \in Passes, IsFiniteSet(R),
           Numbered(R), BurstOK(b, win, R), win.count > 0,
           NEW next \in AWindow, next = [win EXCEPT !.count = Counted(@)]
    PROVE  BurstOK(b, next, IF next.count <= MaxAttempts THEN Passed(R) ELSE R)
<1>1. PICK S \in SUBSET R, T \in SUBSET R :
        /\ Cardinality(S) <= Spent(win.count)
        /\ Cardinality(T) <= MaxAttempts /\ (b = "redis" => T = {})
        /\ Cardinality({p \in R \ (S \cup T) : p[1] < Window}) <= MaxAttempts
        /\ win.count > 0 /\ win.expires =>
               /\ \A p \in R \ (S \cup T) : Window <= p[1] + win.left
               /\ \A p \in T : Window <= p[1] + win.left + MaxDelay
  BY DEF BurstOK
<1>2. /\ next.count = Counted(win.count) /\ next.left = win.left /\ next.expires = win.expires
      /\ win.count \in Nat
  BY DEF AWindow
<1>3. IsFiniteSet(S) /\ Cardinality(S) \in Nat
  BY FS_Subset, FS_CardinalityType
<1>4. CASE next.count <= MaxAttempts
  <2>1. PICK new : new[1] = 0 /\ new \notin R /\ Passed(R) = R \cup {new}
    BY PassedIsNew
  <2>2. Cardinality(S \cup {new}) <= Spent(next.count)
    <3>1. win.count \in 0 .. MaxAttempts + 1
      BY DEF AWindow
    <3>2. next.count = win.count + 1 /\ win.count <= MaxAttempts
      BY <1>2, <1>4, <3>1, SpentFacts
    <3>3. Spent(win.count) = win.count /\ Spent(next.count) = win.count + 1
      BY <1>4, <3>1, <3>2, SpentFacts, Spans
    <3>4. Cardinality(S \cup {new}) = Cardinality(S) + 1
      BY <1>3, <2>1, FS_AddElement
    <3> QED
      BY <1>1, <1>2, <1>3, <3>3, <3>4
  <2>3. Passed(R) \ ((S \cup {new}) \cup T) = R \ (S \cup T)
    BY <2>1
  <2>4. S \cup {new} \in SUBSET Passed(R) /\ T \in SUBSET Passed(R)
    BY <2>1
  <2> QED
    BY <1>1, <1>2, <1>4, <2>2, <2>3, <2>4 DEF BurstOK
<1>5. CASE ~(next.count <= MaxAttempts)
  <2>1. win.count \in 0 .. MaxAttempts + 1 /\ next.count \in 0 .. MaxAttempts + 1
    BY DEF AWindow
  <2>2. Spent(next.count) = MaxAttempts /\ Spent(win.count) <= MaxAttempts
        /\ Spent(win.count) \in Nat
    BY <1>2, <1>5, <2>1, SpentFacts, Spans
  <2>3. Cardinality(S) <= Spent(next.count)
    BY <1>1, <1>3, <2>2, Spans
  <2> QED
    BY <1>1, <1>2, <1>5, <2>3 DEF BurstOK
<1> QED
  BY <1>4, <1>5

\* A late request starts a new window in memory: what the old one has let
\* through is now of the window before, and older passes no longer count.
LEMMA BurstRestarted ==
    ASSUME NEW win \in AWindow, NEW R \in Passes, IsFiniteSet(R), Numbered(R),
           NEW u \in 0 .. MaxDelay, win.expires,
           BurstOK("memory", win, R), win.count = 0 => R = {},
           win.count = 0 \/ win.left + u <= 0,
           NEW next \in AWindow, next.count = 1, next.left = Window - u
    PROVE  BurstOK("memory", next, Passed(R))
<1>1. PICK S \in SUBSET R, T \in SUBSET R :
        /\ Cardinality(S) <= Spent(win.count)
        /\ Cardinality(T) <= MaxAttempts
        /\ win.count > 0 /\ win.expires =>
               /\ \A p \in R \ (S \cup T) : Window <= p[1] + win.left
               /\ \A p \in T : Window <= p[1] + win.left + MaxDelay
  BY DEF BurstOK
<1>2. PICK new : new[1] = 0 /\ new \notin R /\ Passed(R) = R \cup {new}
  BY PassedIsNew
<1>3. win.count \in Nat /\ win.left \in Int /\ \A p \in R : p[1] \in Nat
  BY Spans DEF AWindow, Passes
<1>4. IsFiniteSet(S) /\ IsFiniteSet(T) /\ Cardinality(S) \in Nat /\ Cardinality(T) \in Nat
  BY FS_Subset, FS_CardinalityType
<1>5. \A p \in R \ (S \cup T) : Window + u <= p[1]
  BY <1>1, <1>3, Spans
<1>6. \A p \in T : Window + u <= p[1] + MaxDelay
  BY <1>1, <1>3, Spans
<1>7. Cardinality({new}) <= Spent(next.count)
  <2>1. Cardinality({new}) = 1
    BY FS_Singleton
  <2> QED
    BY <2>1, SpentFacts
<1>8. Cardinality(S) <= MaxAttempts
  BY <1>1, <1>3, <1>4, Spans DEF Spent
<1>9. Passed(R) \ ({new} \cup S) \subseteq R \ S
  BY <1>2
<1>10. Cardinality({p \in Passed(R) \ ({new} \cup S) : p[1] < Window}) <= MaxAttempts
  <2>1. PICK Q : Q = {p \in Passed(R) \ ({new} \cup S) : p[1] < Window}
    OBVIOUS
  <2>2. Q \subseteq T
    BY <1>3, <1>5, <1>9, <2>1, Spans
  <2>3. Cardinality(Q) \in Nat /\ Cardinality(Q) <= Cardinality(T)
    BY <1>4, <2>2, FS_Subset, FS_CardinalityType
  <2> QED
    BY <1>1, <1>4, <2>1, <2>3, Spans
<1>11. \A p \in Passed(R) \ ({new} \cup S) : Window <= p[1] + next.left
  BY <1>3, <1>5, <1>6, <1>9, Spans
<1>12. \A p \in S : Window <= p[1] + next.left + MaxDelay
  BY <1>3, Spans
<1>13. {new} \in SUBSET Passed(R) /\ S \in SUBSET Passed(R)
  BY <1>2
<1> QED
  BY <1>7, <1>8, <1>10, <1>11, <1>12, <1>13 DEF BurstOK

\* INCR makes a key where there was none.
LEMMA BurstCreated ==
    ASSUME NEW win \in AWindow, NEW R \in Passes, IsFiniteSet(R), Numbered(R),
           BurstOK("redis", win, R), win.count = 0,
           NEW next \in AWindow, next.count = 1, ~next.expires
    PROVE  BurstOK("redis", next, Passed(R))
<1>1. PICK S \in SUBSET R, T \in SUBSET R :
        /\ Cardinality(S) <= Spent(win.count)
        /\ T = {}
        /\ Cardinality({p \in R \ (S \cup T) : p[1] < Window}) <= MaxAttempts
  BY DEF BurstOK
<1>2. PICK new : new[1] = 0 /\ new \notin R /\ Passed(R) = R \cup {new}
  BY PassedIsNew
<1>3. S = {}
  <2>1. IsFiniteSet(S) /\ Cardinality(S) \in Nat
    BY FS_Subset, FS_CardinalityType
  <2>2. Cardinality(S) = 0
    BY <1>1, <2>1, Spans DEF Spent
  <2> QED
    BY <2>1, <2>2, FS_EmptySet
<1>4. Passed(R) \ ({new} \cup {}) = R \ (S \cup T)
  BY <1>1, <1>2, <1>3
<1>5. Cardinality({new}) <= Spent(next.count) /\ Cardinality({}) <= MaxAttempts
  <2>1. Cardinality({new}) = 1 /\ Cardinality({}) = 0
    BY FS_Singleton, FS_EmptySet
  <2> QED
    BY <2>1, SpentFacts, Spans
<1>6. {new} \in SUBSET Passed(R) /\ {} \in SUBSET Passed(R)
  BY <1>2
<1> QED
  BY <1>1, <1>4, <1>5, <1>6 DEF BurstOK

\* EXPIRE gives the key a whole window from now.
LEMMA BurstExpires ==
    ASSUME NEW win \in AWindow, NEW R \in Passes, BurstOK("redis", win, R),
           NEW next \in AWindow, next.count = win.count, next.left = Window
    PROVE  BurstOK("redis", next, R)
<1>1. PICK S \in SUBSET R, T \in SUBSET R :
        /\ Cardinality(S) <= Spent(win.count)
        /\ Cardinality(T) <= MaxAttempts /\ T = {}
        /\ Cardinality({p \in R \ (S \cup T) : p[1] < Window}) <= MaxAttempts
  BY DEF BurstOK
<1>2. \A p \in R : p[1] \in Nat
  BY Spans DEF Passes
<1>3. \A p \in R \ (S \cup T) : Window <= p[1] + next.left
  BY <1>2, Spans
<1> QED
  BY <1>1, <1>3 DEF BurstOK

\* Time passes for a window that goes on ...
LEMMA BurstTick ==
    ASSUME NEW b \in Backends, NEW win \in AWindow, NEW R \in Passes, IsFiniteSet(R),
           BurstOK(b, win, R),
           NEW next \in AWindow, next.count = win.count, next.expires = win.expires,
           win.left - 1 <= next.left
    PROVE  BurstOK(b, next, Older(R))
<1>1. PICK S \in SUBSET R, T \in SUBSET R :
        /\ Cardinality(S) <= Spent(win.count)
        /\ Cardinality(T) <= MaxAttempts /\ (b = "redis" => T = {})
        /\ Cardinality({p \in R \ (S \cup T) : p[1] < Window}) <= MaxAttempts
        /\ win.count > 0 /\ win.expires =>
               /\ \A p \in R \ (S \cup T) : Window <= p[1] + win.left
               /\ \A p \in T : Window <= p[1] + win.left + MaxDelay
  BY DEF BurstOK
<1>2. win.left \in Int /\ next.left \in Int /\ win.count \in Nat /\ Spent(win.count) \in Nat
  BY Spans DEF AWindow, Spent
<1>3. \A A \in SUBSET R :
         /\ Older(A) \in SUBSET Older(R) /\ Cardinality(Older(A)) <= Cardinality(A)
         /\ Cardinality(Older(A)) \in Nat /\ Cardinality(A) \in Nat
  BY OlderIsPasses, FS_CardinalityType, FS_Subset
<1>4. Cardinality(Older(S)) <= Spent(win.count) /\ Cardinality(Older(T)) <= MaxAttempts
  BY <1>1, <1>2, <1>3, Spans
<1>5. b = "redis" => Older(T) = {}
  BY <1>1 DEF Older
<1>6. \A p \in Older(R) \ (Older(S) \cup Older(T)) :
         \E q \in R \ (S \cup T) : q[1] \in Nat /\ p[1] = q[1] + 1 /\ p = <<q[1] + 1, q[2]>>
  <2> SUFFICES ASSUME NEW p \in Older(R) \ (Older(S) \cup Older(T))
               PROVE  \E q \in R \ (S \cup T) :
                          q[1] \in Nat /\ p[1] = q[1] + 1 /\ p = <<q[1] + 1, q[2]>>
    OBVIOUS
  <2>1. PICK q \in R : q[1] + 1 < Horizon /\ p = <<q[1] + 1, q[2]>>
    BY DEF Older
  <2>2. q[1] \in Nat /\ p[1] = q[1] + 1
    BY <2>1, Spans DEF Passes
  <2>3. q \notin S /\ q \notin T
    BY <2>1 DEF Older
  <2> QED
    BY <2>1, <2>2, <2>3
<1>7. Cardinality({p \in Older(R) \ (Older(S) \cup Older(T)) : p[1] < Window}) <= MaxAttempts
  <2>1. PICK Q : Q = {p \in R \ (S \cup T) : p[1] < Window}
    OBVIOUS
  <2>2. PICK Z : Z = {p \in Older(R) \ (Older(S) \cup Older(T)) : p[1] < Window}
    OBVIOUS
  <2>3. Z \subseteq Older(Q)
    <3> SUFFICES ASSUME NEW p \in Z
                 PROVE  p \in Older(Q)
      OBVIOUS
    <3>1. PICK q \in R \ (S \cup T) : q[1] \in Nat /\ p[1] = q[1] + 1 /\ p = <<q[1] + 1, q[2]>>
      BY <1>6, <2>2
    <3>2. q \in Q /\ q[1] + 1 < Horizon
      BY <2>1, <2>2, <3>1, Spans
    <3> QED
      BY <3>1, <3>2 DEF Older
  <2>4. Q \in SUBSET R
    BY <2>1
  <2>5. IsFiniteSet(Older(Q)) /\ Cardinality(Older(Q)) <= Cardinality(Q)
        /\ Cardinality(Older(Q)) \in Nat /\ Cardinality(Q) \in Nat
    BY <1>3, <2>4, OlderIsPasses
  <2>6. Cardinality(Z) <= Cardinality(Older(Q)) /\ Cardinality(Z) \in Nat
    BY <2>3, <2>5, FS_Subset, FS_CardinalityType
  <2>7. Cardinality(Q) <= MaxAttempts
    BY <1>1, <2>1
  <2> QED
    BY <2>2, <2>5, <2>6, <2>7, Spans
<1>8. ASSUME win.count > 0, win.expires
      PROVE  /\ \A p \in Older(R) \ (Older(S) \cup Older(T)) : Window <= p[1] + next.left
             /\ \A p \in Older(T) : Window <= p[1] + next.left + MaxDelay
  <2>1. \A p \in Older(R) \ (Older(S) \cup Older(T)) : Window <= p[1] + next.left
    BY <1>1, <1>2, <1>6, <1>8, Spans
  <2>2. \A p \in Older(T) : \E q \in T : q[1] \in Nat /\ p[1] = q[1] + 1
    BY OlderMember
  <2>3. \A p \in Older(T) : Window <= p[1] + next.left + MaxDelay
    BY <1>1, <1>2, <1>8, <2>2, Spans
  <2> QED
    BY <2>1, <2>3
<1> QED
  BY <1>3, <1>4, <1>5, <1>7, <1>8 DEF BurstOK

\* ... and for one that Redis removes.
LEMMA BurstRemoved ==
    ASSUME NEW win \in AWindow, NEW R \in Passes, IsFiniteSet(R), BurstOK("redis", win, R),
           win.count > 0, win.expires, win.left = 1
    PROVE  BurstOK("redis", NoWindow, Older(R))
<1>1. PICK S \in SUBSET R, T \in SUBSET R :
        /\ Cardinality(S) <= Spent(win.count)
        /\ T = {}
        /\ \A p \in R \ (S \cup T) : Window <= p[1] + win.left
  BY DEF BurstOK
<1>2. PICK Z : Z = {p \in Older(R) \ ({} \cup {}) : p[1] < Window}
  OBVIOUS
<1>3. Z \subseteq Older(S)
  <2> SUFFICES ASSUME NEW p \in Z
               PROVE  p \in Older(S)
    OBVIOUS
  <2>1. PICK q \in R : q[1] + 1 < Horizon /\ p = <<q[1] + 1, q[2]>>
    BY <1>2 DEF Older
  <2>2. q[1] \in Nat /\ p[1] = q[1] + 1
    BY <2>1, Spans DEF Passes
  <2>3. q \in S
    BY <1>1, <1>2, <2>2, Spans
  <2> QED
    BY <2>1, <2>3 DEF Older
<1>4. /\ IsFiniteSet(Older(S)) /\ Cardinality(Older(S)) <= Cardinality(S)
      /\ Cardinality(Older(S)) \in Nat /\ Cardinality(S) \in Nat
  BY OlderIsPasses, FS_CardinalityType, FS_Subset
<1>5. Cardinality(S) <= MaxAttempts
  BY <1>1, <1>4, Spans DEF Spent, AWindow
<1>6. Cardinality(Z) <= MaxAttempts
  BY <1>3, <1>4, <1>5, FS_Subset, FS_CardinalityType, Spans
<1>7. NoWindow.count = 0 /\ ~(NoWindow.count > 0)
  BY DEF NoWindow
<1>8. Cardinality({}) <= Spent(NoWindow.count) /\ Cardinality({}) <= MaxAttempts
  BY <1>7, FS_EmptySet, SpentFacts, Spans
<1>9. {} \in SUBSET Older(R)
  OBVIOUS
<1>10. PICK N \in SUBSET Older(R) : N = {}
  BY <1>9
<1>11. /\ Cardinality(N) <= Spent(NoWindow.count) /\ Cardinality(N) <= MaxAttempts
       /\ Cardinality({p \in Older(R) \ (N \cup N) : p[1] < Window}) <= MaxAttempts
  BY <1>2, <1>6, <1>8, <1>10
<1> QED
  BY <1>7, <1>10, <1>11 DEF BurstOK

\* The bound of BurstBounded for one client.
LEMMA BurstBound ==
    ASSUME NEW b \in Backends, NEW win \in AWindow, NEW R \in Passes, IsFiniteSet(R),
           BurstOK(b, win, R)
    PROVE  Cardinality({p \in R : p[1] < Window}) <= (IF b = "redis" THEN 2 ELSE 3) * MaxAttempts
<1>1. PICK S \in SUBSET R, T \in SUBSET R :
        /\ Cardinality(S) <= Spent(win.count)
        /\ Cardinality(T) <= MaxAttempts /\ (b = "redis" => T = {})
        /\ Cardinality({p \in R \ (S \cup T) : p[1] < Window}) <= MaxAttempts
  BY DEF BurstOK
<1>2. PICK Q : Q = {p \in R \ (S \cup T) : p[1] < Window}
  OBVIOUS
<1>3. PICK Z : Z = {p \in R : p[1] < Window}
  OBVIOUS
<1>4. Z \subseteq (S \cup T) \cup Q
  BY <1>2, <1>3
<1>5. IsFiniteSet(S) /\ IsFiniteSet(T) /\ IsFiniteSet(Q)
  BY <1>2, FS_Subset
<1>6. /\ Cardinality(S) \in Nat /\ Cardinality(T) \in Nat /\ Cardinality(Q) \in Nat
      /\ Cardinality(S \cap T) \in Nat /\ Cardinality((S \cup T) \cap Q) \in Nat
  BY <1>5, FS_CardinalityType, FS_Intersection, FS_Union
<1>7. IsFiniteSet((S \cup T) \cup Q)
      /\ Cardinality((S \cup T) \cup Q) <= Cardinality(S) + Cardinality(T) + Cardinality(Q)
      /\ Cardinality((S \cup T) \cup Q) \in Nat
  <2>1. IsFiniteSet(S \cup T)
        /\ Cardinality(S \cup T) = Cardinality(S) + Cardinality(T) - Cardinality(S \cap T)
    BY <1>5, FS_Union
  <2>2. IsFiniteSet((S \cup T) \cup Q)
        /\ Cardinality((S \cup T) \cup Q) =
               Cardinality(S \cup T) + Cardinality(Q) - Cardinality((S \cup T) \cap Q)
    BY <1>5, <2>1, FS_Union
  <2>3. Cardinality((S \cup T) \cup Q) \in Nat
    BY <2>2, FS_CardinalityType
  <2> QED
    BY <1>6, <2>1, <2>2, <2>3
<1>8. Cardinality(Z) \in Nat
      /\ Cardinality(Z) <= Cardinality(S) + Cardinality(T) + Cardinality(Q)
  <2>1. Cardinality(Z) \in Nat /\ Cardinality(Z) <= Cardinality((S \cup T) \cup Q)
    BY <1>4, <1>7, FS_Subset, FS_CardinalityType
  <2> QED
    BY <1>6, <1>7, <2>1
<1>9. Cardinality(S) <= MaxAttempts /\ Cardinality(Q) <= MaxAttempts
  BY <1>1, <1>2, <1>6, Spans DEF Spent, AWindow
<1>10. b = "redis" => Cardinality(T) = 0
  BY <1>1, FS_EmptySet
<1> QED
  BY <1>1, <1>3, <1>6, <1>8, <1>9, <1>10, Spans

-----------------------------------------------------------------------------
(* Whose attempts have been used up.                                       *)

\* An attempt that is counted is in the history, if it passes.
LEMMA UseCounted ==
    ASSUME NEW b \in Backends, NEW win \in AWindow, NEW R \in Passes, IsFiniteSet(R),
           Numbered(R), NEW X \in SUBSET Nat, UseOK(b, win, R, X), win.count > 0,
           win.left <= Window, b = "memory" => -MaxDelay < win.left,
           NEW next \in AWindow, next = [win EXCEPT !.count = Counted(@)]
    PROVE  UseOK(b, next, IF next.count <= MaxAttempts THEN Passed(R) ELSE R, X)
<1>1. /\ next.count = Counted(win.count) /\ next.left = win.left /\ next.expires = win.expires
      /\ win.count \in 0 .. MaxAttempts + 1 /\ win.left \in Int /\ win.count # 0
      /\ next.count \in 0 .. MaxAttempts + 1
  BY DEF AWindow
<1>2. CASE ~win.expires /\ X = {}
  BY <1>1, <1>2 DEF UseOK
<1>3. CASE ~(~win.expires /\ X = {})
  <2>1. PICK S \in SUBSET R :
           /\ Spent(win.count) <= Cardinality(S)
           /\ win.expires => \A p \in S : p[1] + win.left <=
                                              Window + (IF b = "redis" THEN MaxDelay ELSE 0)
           /\ ~win.expires => \A p \in S, x \in X : p[1] <= x
    BY <1>1, <1>3, Spans DEF UseOK
  <2>2. IsFiniteSet(S) /\ Cardinality(S) \in Nat
    BY FS_Subset, FS_CardinalityType
  <2>3. CASE next.count <= MaxAttempts
    <3>1. PICK new : new[1] = 0 /\ new \notin R /\ Passed(R) = R \cup {new}
      BY PassedIsNew
    <3>2. next.count = win.count + 1 /\ win.count <= MaxAttempts
      BY <1>1, <2>3, SpentFacts
    <3>3. Spent(win.count) = win.count /\ Spent(next.count) = win.count + 1
      BY <1>1, <2>3, <3>2, SpentFacts, Spans
    <3>4. Cardinality(S \cup {new}) = Cardinality(S) + 1
      BY <2>2, <3>1, FS_AddElement
    <3>5. Spent(next.count) <= Cardinality(S \cup {new})
      BY <1>1, <2>1, <2>2, <3>3, <3>4
    <3>6. new[1] + win.left <= Window + (IF b = "redis" THEN MaxDelay ELSE 0)
          /\ \A x \in X : new[1] <= x
      BY <1>1, <3>1, Spans
    <3>7. S \cup {new} \in SUBSET Passed(R)
      BY <3>1
    <3>8. /\ next.expires => \A p \in S \cup {new} : p[1] + next.left <=
                                              Window + (IF b = "redis" THEN MaxDelay ELSE 0)
          /\ ~next.expires => \A p \in S \cup {new}, x \in X : p[1] <= x
      BY <1>1, <2>1, <3>6
    <3> QED
      BY <2>3, <3>5, <3>7, <3>8 DEF UseOK
  <2>4. CASE ~(next.count <= MaxAttempts)
    <3>1. Spent(next.count) = MaxAttempts /\ Spent(win.count) = MaxAttempts
      BY <1>1, <2>4, SpentFacts, Spans
    <3> QED
      BY <1>1, <2>1, <2>4, <3>1 DEF UseOK
  <2> QED
    BY <2>3, <2>4
<1> QED
  BY <1>2, <1>3

\* The first attempt of a window is in the history.
LEMMA UseStarted ==
    ASSUME NEW b \in Backends, NEW R \in Passes, IsFiniteSet(R), Numbered(R),
           NEW X \in SUBSET Nat, NEW next \in AWindow, next.count = 1, next.left <= Window
    PROVE  UseOK(b, next, Passed(R), X)
<1>1. PICK new : new[1] = 0 /\ new \notin R /\ Passed(R) = R \cup {new}
  BY PassedIsNew
<1>2. Cardinality({new}) = 1 /\ Spent(next.count) = 1
  BY FS_Singleton, SpentFacts
<1>3. {new} \in SUBSET Passed(R) /\ next.left \in Int
  BY <1>1 DEF AWindow
<1>4. /\ \A p \in {new} : p[1] + next.left <= Window + (IF b = "redis" THEN MaxDelay ELSE 0)
      /\ \A p \in {new}, x \in X : p[1] <= x
  BY <1>1, <1>3, Spans
<1> QED
  BY <1>2, <1>3, <1>4 DEF UseOK

\* EXPIRE comes after the attempts it finds by the delay at most.
LEMMA UseExpires ==
    ASSUME NEW win \in AWindow, NEW R \in Passes, ~win.expires, NEW x \in 0 .. MaxDelay,
           UseOK("redis", win, R, {x}),
           NEW next \in AWindow, next.count = win.count, next.left = Window, next.expires
    PROVE  UseOK("redis", next, R, {})
<1>1. CASE win.count = 0
  BY <1>1 DEF UseOK
<1>2. CASE win.count # 0
  <2>1. PICK S \in SUBSET R : Spent(win.count) <= Cardinality(S) /\ \A p \in S : p[1] <= x
    BY <1>2 DEF UseOK
  <2>2. \A p \in S : p[1] \in Nat
    BY Spans DEF Passes
  <2>3. \A p \in S : p[1] + next.left <= Window + MaxDelay
    BY <2>1, <2>2, Spans
  <2> QED
    BY <2>1, <2>3 DEF UseOK
<1> QED
  BY <1>1, <1>2

\* No attempt of a window leaves the history as long as one can count in it.
LEMMA UseTick ==
    ASSUME NEW b \in Backends, NEW win \in AWindow, NEW R \in Passes, IsFiniteSet(R),
           NEW X \in SUBSET Nat, UseOK(b, win, R, X), \A x \in X : x < MaxDelay,
           -MaxDelay <= win.left, b = "memory" => win.expires,
           NEW next \in AWindow, next.count = win.count, next.expires = win.expires,
           win.expires /\ win.count > 0 =>
               next.left = (IF win.left > -MaxDelay THEN win.left - 1 ELSE win.left),
           b = "redis" /\ win.count > 0 /\ win.expires => next.left >= 1
    PROVE  UseOK(b, next, Older(R), {x + 1 : x \in X})
<1>1. CASE win.count = 0 \/ (~win.expires /\ X = {}) \/ (b = "memory" /\ next.left = -MaxDelay)
  BY <1>1 DEF UseOK
<1>2. CASE ~(win.count = 0 \/ (~win.expires /\ X = {}) \/ (b = "memory" /\ next.left = -MaxDelay))
  <2>1. win.left \in Int /\ next.left \in Int /\ win.count \in 0 .. MaxAttempts + 1 /\ win.count > 0
    BY <1>2, Spans DEF AWindow
  <2>2. win.expires => next.left = win.left - 1 /\ (b = "memory" => win.left - 1 > -MaxDelay)
    <3>1. ASSUME win.expires, ~(win.left > -MaxDelay)
          PROVE  FALSE
      <4>1. next.left = win.left /\ next.left = -MaxDelay
        BY <2>1, <3>1, Spans
      <4> QED
        BY <1>2, <2>1, <3>1, <4>1, Spans DEF Backends
    <3> QED
      BY <1>2, <2>1, <3>1, Spans
  <2>3. ~(b = "memory" /\ win.left = -MaxDelay /\ win.expires)
    BY <2>1, <2>2, Spans
  <2>4. CASE win.expires
    <3>1. PICK S \in SUBSET R :
             /\ Spent(win.count) <= Cardinality(S)
             /\ \A p \in S : p[1] + win.left <= Window + (IF b = "redis" THEN MaxDelay ELSE 0)
      BY <1>2, <2>3, <2>4 DEF UseOK
    <3>2. \A p \in S : p[1] \in Nat
      BY Spans DEF Passes
    <3>3. \A p \in S : p[1] + 1 < Horizon
      BY <2>1, <2>2, <2>4, <3>1, <3>2, Spans DEF Backends
    <3>4. Cardinality(Older(S)) = Cardinality(S) /\ Older(S) \in SUBSET Older(R)
      BY <3>3, OlderIsPasses
    <3>5. \A p \in Older(S) : \E q \in S : q[1] \in Nat /\ p[1] = q[1] + 1
      BY OlderMember
    <3>6. \A p \in Older(S) : p[1] + next.left <= Window + (IF b = "redis" THEN MaxDelay ELSE 0)
      BY <2>1, <2>2, <2>4, <3>1, <3>5, Spans
    <3> QED
      BY <2>4, <3>1, <3>4, <3>6 DEF UseOK
  <2>5. CASE ~win.expires
    <3>1. PICK S \in SUBSET R :
             /\ Spent(win.count) <= Cardinality(S)
             /\ \A p \in S, x \in X : p[1] <= x
      BY <1>2, <2>5 DEF UseOK
    <3>2. PICK x \in X : x < MaxDelay
      BY <1>2, <2>5
    <3>3. \A p \in S : p[1] \in Nat
      BY Spans DEF Passes
    <3>4. \A p \in S : p[1] + 1 < Horizon
      BY <3>1, <3>2, <3>3, Spans
    <3>5. Cardinality(Older(S)) = Cardinality(S) /\ Older(S) \in SUBSET Older(R)
      BY <3>4, OlderIsPasses
    <3>6. \A p \in Older(S) : \E q \in S : q[1] \in Nat /\ p[1] = q[1] + 1
      BY OlderMember
    <3>7. \A p \in Older(S), y \in {z + 1 : z \in X} : p[1] <= y
      BY <3>1, <3>6
    <3> QED
      BY <2>5, <3>1, <3>5, <3>7 DEF UseOK
  <2> QED
    BY <2>4, <2>5
<1> QED
  BY <1>1, <1>2


\* Who would be refused has used up his attempts, or meets a key that does not
\* expire.
LEMMA UseBound ==
    ASSUME NEW b \in Backends, NEW win \in AWindow, NEW R \in Passes, IsFiniteSet(R),
           NEW X, UseOK(b, win, R, X), win.count >= MaxAttempts,
           b = "memory" => -MaxDelay < win.left
    PROVE  \/ ~win.expires /\ X = {}
           \/ MaxAttempts <= Cardinality({p \in R : p[1] < Window + MaxDelay})
<1>1. win.count \in 0 .. MaxAttempts + 1 /\ win.left \in Int /\ win.count # 0
  BY Spans DEF AWindow
<1>2. CASE ~(~win.expires /\ X = {})
  <2>1. PICK S \in SUBSET R : Spent(win.count) <= Cardinality(S)
    BY <1>1, <1>2, Spans DEF UseOK
  <2>2. {p \in R : p[1] < Window + MaxDelay} = R
    BY Spans DEF Passes
  <2>3. Cardinality(S) \in Nat /\ Cardinality(S) <= Cardinality(R) /\ Cardinality(R) \in Nat
    BY FS_Subset, FS_CardinalityType
  <2>4. Spent(win.count) = MaxAttempts
    BY <1>1, SpentFacts
  <2> QED
    BY <2>1, <2>2, <2>3, <2>4, Spans
<1> QED
  BY <1>2

-----------------------------------------------------------------------------
(* How far Retry-After can be believed.                                    *)

\* Whole seconds fall short of the time they stand for by less than a second.
LEMMA WholeSeconds ==
    ASSUME NEW t \in Int
    PROVE  /\ t \div Second \in Int /\ t - (Second - 1) <= (t \div Second) * Second
           /\ (t + Second - 1) \div Second \in Int
           /\ t <= ((t + Second - 1) \div Second) * Second
<1>1. ASSUME NEW u \in Int
      PROVE  u \div Second \in Int /\ u - (Second - 1) <= (u \div Second) * Second
  BY LimiterAssumption
<1>2. t + Second - 1 \in Int /\ Second \in Int
  BY LimiterAssumption
<1>3. PICK u \in Int : u = t + Second - 1
  BY <1>2
<1>4. PICK q \in Int : q = u \div Second /\ u - (Second - 1) <= q * Second
  BY <1>1
<1>5. q * Second \in Int
  BY <1>2
<1>6. t <= q * Second
  BY <1>2, <1>3, <1>4, <1>5
<1> QED
  BY <1>1, <1>3, <1>4, <1>6

\* Retry-After in memory is at least a second.
LEMMA RetryAfterType ==
    ASSUME NEW t \in Int
    PROVE  /\ RetryAfter(t) \in Int /\ RetryAfter(t) * Second \in Int
           /\ t - (Second - 1) <= RetryAfter(t) * Second
<1>1. Second \in Int /\ 1 <= Second
  BY LimiterAssumption
<1>2. CASE t < Second
  BY <1>1, <1>2 DEF RetryAfter
<1>3. CASE ~(t < Second)
  BY <1>1, <1>3, WholeSeconds DEF RetryAfter
<1> QED
  BY <1>2, <1>3

\* A new promise is one of the promises, or earlier ones stay.
LEMMA PromiseMade ==
    ASSUME NEW b, NEW win \in AWindow, NEW P \in SUBSET Int, NEW X \in SUBSET Nat,
           PromiseOK(b, win, P, X), NEW s, s * Second \in Int,
           win.expires => win.left <= s * Second + Late(b),
           ~win.expires => Window <= s * Second
    PROVE  PromiseOK(b, win, Promise(P, s), X) /\ Promise(P, s) \in SUBSET Int
<1>1. PICK q \in Int : q = s * Second
  OBVIOUS
<1>2. \A p \in Promise(P, s) : p \in P \/ p = q
  BY <1>1 DEF Promise, Earliest
<1>3. ~win.expires => \A x \in X : Window <= q + x
  BY <1>1, Spans
<1> QED
  BY <1>1, <1>2, <1>3 DEF PromiseOK

\* A promise draws nearer as its window does.
LEMMA PromiseTick ==
    ASSUME NEW b, NEW win \in AWindow, NEW P \in SUBSET Int, NEW X \in SUBSET Nat,
           PromiseOK(b, win, P, X),
           NEW next \in AWindow, next.expires = win.expires,
           next.expires /\ next.left > 0 => next.left = win.left - 1,
           NEW Q \in SUBSET Int, next.expires /\ next.left <= 0 => Q = {},
           \A q \in Q : \E p \in P : p - 1 <= q
    PROVE  PromiseOK(b, next, Q, {x + 1 : x \in X})
<1>1. Late(b) \in Int /\ Window \in Int /\ next.left \in Int /\ win.left \in Int
  BY Spans, LimiterAssumption DEF Late, AWindow
<1>2. CASE next.expires /\ next.left <= 0
  BY <1>2 DEF PromiseOK
<1>3. CASE ~(next.expires /\ next.left <= 0)
  <2>1. next.expires => \A q \in Q : next.left <= q + Late(b)
    BY <1>1, <1>3 DEF PromiseOK
  <2>2. ~next.expires => \A q \in Q, y \in {x + 1 : x \in X} : Window <= q + y
    BY <1>1 DEF PromiseOK
  <2> QED
    BY <2>1, <2>2 DEF PromiseOK
<1> QED
  BY <1>2, <1>3

\* A promise that was made before the EXPIRE is early by its delay.
LEMMA PromiseExpires ==
    ASSUME NEW win \in AWindow, NEW P \in SUBSET Int, NEW x \in 0 .. MaxDelay, ~win.expires,
           PromiseOK("redis", win, P, {x}),
           NEW next \in AWindow, next.left = Window, next.expires
    PROVE  PromiseOK("redis", next, P, {})
<1>1. x <= Late("redis") /\ Late("redis") \in Int
  BY Spans, LimiterAssumption DEF Late
<1> QED
  BY <1>1, Spans DEF PromiseOK


-----------------------------------------------------------------------------
(* What the steps do to one client.                                        *)

\* A client without a window and without history.
LEMMA ClientReset ==
    ASSUME NEW b \in Backends
    PROVE  ClientOK(b, NoWindow, {}, {}, {})
<1>1. WindowOK(b, NoWindow, {}, {}, {})
  BY Spans DEF WindowOK, NoWindow
<1>2. BurstOK(b, NoWindow, {})
  <2>1. PICK N : N = {}
    OBVIOUS
  <2>2. N \in SUBSET {} /\ Cardinality(N) = 0 /\ {p \in {} \ (N \cup N) : p[1] < Window} = N
    BY <2>1, FS_EmptySet
  <2>3. NoWindow.count = 0 /\ ~(NoWindow.count > 0)
    BY DEF NoWindow
  <2>4. Cardinality(N) <= Spent(NoWindow.count) /\ Cardinality(N) <= MaxAttempts
    BY <2>2, <2>3, SpentFacts, Spans
  <2> QED
    BY <2>1, <2>2, <2>3, <2>4 DEF BurstOK
<1>3. UseOK(b, NoWindow, {}, {}) /\ PromiseOK(b, NoWindow, {}, {})
  BY DEF UseOK, PromiseOK, NoWindow
<1> QED
  BY <1>1, <1>2, <1>3 DEF ClientOK

\* A window that has gone is started again by the request that finds it gone: the
\* process memory then holds what a new window with one pass promises.
LEMMA ClientRestarted ==
    ASSUME NEW win \in AWindow, NEW R \in Passes, IsFiniteSet(R), Numbered(R), NEW P,
           ClientOK("memory", win, R, P, {}), NEW u \in 0 .. MaxDelay,
           win.count = 0 \/ win.left + u <= 0,
           NEW next, next = [count |-> 1, left |-> Window - u, expires |-> TRUE]
    PROVE  next \in AWindow /\ ClientOK("memory", next, Passed(R), {}, {})
<1>1. /\ next \in AWindow /\ next.count = 1 /\ next.left = Window - u /\ next.expires
      /\ next.left <= Window /\ -MaxDelay <= next.left
  BY Spans DEF AWindow
<1>2. WindowOK("memory", next, Passed(R), {}, {})
  BY <1>1 DEF WindowOK
<1>3. BurstOK("memory", next, Passed(R))
  BY <1>1, BurstRestarted DEF ClientOK, WindowOK
<1>4. UseOK("memory", next, Passed(R), {})
  BY <1>1, UseStarted DEF Backends
<1>5. PromiseOK("memory", next, {}, {})
  BY DEF PromiseOK
<1> QED
  BY <1>1, <1>2, <1>3, <1>4, <1>5 DEF ClientOK

\* A request counted into a window that is still there keeps what holds of the
\* client, whether it is let through or is one too many.
LEMMA ClientCounted ==
    ASSUME NEW b \in Backends, NEW win \in AWindow, NEW R \in Passes, IsFiniteSet(R),
           Numbered(R), NEW P, NEW X \in SUBSET Nat, ClientOK(b, win, R, P, X),
           win.count > 0, b = "memory" => -MaxDelay < win.left,
           NEW next, next = [win EXCEPT !.count = Counted(@)]
    PROVE  /\ next \in AWindow /\ next.count > 1
           /\ ClientOK(b, next, IF next.count <= MaxAttempts THEN Passed(R) ELSE R, P, X)
<1>1. win.count \in 0 .. MaxAttempts + 1 /\ win.count # 0 /\ win.left \in Int
  BY DEF AWindow
<1>2. /\ next.count = Counted(win.count) /\ next.left = win.left /\ next.expires = win.expires
      /\ next \in AWindow /\ next.count > 1
  <2>1. Counted(win.count) \in 1 .. MaxAttempts + 1 /\ Counted(win.count) # 1
    BY <1>1, SpentFacts
  <2> QED
    BY <2>1, Spans DEF AWindow
<1>3. WindowOK(b, next, IF next.count <= MaxAttempts THEN Passed(R) ELSE R, P, X)
  BY <1>1, <1>2 DEF ClientOK, WindowOK
<1>4. BurstOK(b, next, IF next.count <= MaxAttempts THEN Passed(R) ELSE R)
  BY <1>2, BurstCounted DEF ClientOK
<1>5. UseOK(b, next, IF next.count <= MaxAttempts THEN Passed(R) ELSE R, X)
  BY <1>2, UseCounted DEF ClientOK, WindowOK
<1>6. PromiseOK(b, next, P, X)
  BY <1>2 DEF ClientOK, PromiseOK
<1> QED
  BY <1>2, <1>3, <1>4, <1>5, <1>6 DEF ClientOK

\* A retry-after that covers what is left of the window is a promise kept so far.
LEMMA ClientPromised ==
    ASSUME NEW b, NEW win \in AWindow, NEW R, NEW P \in SUBSET Int, NEW X \in SUBSET Nat,
           ClientOK(b, win, R, P, X), win.count > 0, NEW s, s * Second \in Int,
           win.expires => win.left <= s * Second + Late(b),
           ~win.expires => Window <= s * Second
    PROVE  ClientOK(b, win, R, Promise(P, s), X) /\ Promise(P, s) \in SUBSET Int
<1>1. PromiseOK(b, win, Promise(P, s), X) /\ Promise(P, s) \in SUBSET Int
  BY PromiseMade DEF ClientOK
<1>2. win.count # 0
  BY DEF AWindow
<1> QED
  BY <1>1, <1>2 DEF ClientOK, WindowOK

\* The first INCR in Redis makes a key without a lifetime, and its worker owes it.
LEMMA ClientCreated ==
    ASSUME NEW win \in AWindow, NEW R \in Passes, IsFiniteSet(R), Numbered(R), NEW P, NEW X,
           ClientOK("redis", win, R, P, X), win.count = 0,
           NEW next, next = [count |-> 1, left |-> 0, expires |-> FALSE]
    PROVE  next \in AWindow /\ X = {} /\ P = {} /\ ClientOK("redis", next, Passed(R), P, {0})
<1>1. /\ next \in AWindow /\ next.count = 1 /\ next.left = 0 /\ ~next.expires
  BY Spans DEF AWindow
<1>2. X = {} /\ P = {}
  BY DEF ClientOK, WindowOK, NoWindow
<1>3. WindowOK("redis", next, Passed(R), P, {0})
  BY <1>1, Spans DEF WindowOK
<1>4. BurstOK("redis", next, Passed(R))
  BY <1>1, BurstCreated DEF ClientOK
<1>5. UseOK("redis", next, Passed(R), {0})
  <2>1. next.left <= Window
    BY <1>1, Spans
  <2> QED
    BY <1>1, <2>1, UseStarted DEF Backends
<1>6. PromiseOK("redis", next, P, {0})
  BY <1>2 DEF PromiseOK
<1> QED
  BY <1>1, <1>2, <1>3, <1>4, <1>5, <1>6 DEF ClientOK

\* EXPIRE gives the key its lifetime, and nothing is owed any more.
LEMMA ClientExpires ==
    ASSUME NEW win \in AWindow, NEW R \in Passes, NEW P \in SUBSET Int, NEW x \in 0 .. MaxDelay,
           ClientOK("redis", win, R, P, {x}),
           NEW next \in AWindow, next.count = win.count, next.left = Window, next.expires
    PROVE  ClientOK("redis", next, R, P, {})
<1>1. ~win.expires /\ win.count # 0
  BY DEF ClientOK, WindowOK, NoWindow
<1>2. WindowOK("redis", next, R, P, {})
  BY <1>1, Spans DEF WindowOK
<1>3. BurstOK("redis", next, R)
  BY BurstExpires DEF ClientOK
<1>4. UseOK("redis", next, R, {})
  BY <1>1, UseExpires DEF ClientOK
<1>5. PromiseOK("redis", next, P, {})
  BY <1>1, PromiseExpires DEF ClientOK
<1> QED
  BY <1>2, <1>3, <1>4, <1>5 DEF ClientOK

\* A worker that dies between INCR and EXPIRE leaves a key that never expires.
LEMMA ClientAbandoned ==
    ASSUME NEW b, NEW win, NEW R, NEW P, NEW X, ClientOK(b, win, R, P, X)
    PROVE  ClientOK(b, win, R, P, {})
BY DEF ClientOK, WindowOK, UseOK, PromiseOK

\* What a tick does to a window, and to the delays.
LaterIn(b, win) ==
    IF win.count = 0 \/ ~win.expires THEN win
    ELSE IF b = "redis" /\ win.left = 1 THEN NoWindow
    ELSE [win EXCEPT !.left = IF @ > -MaxDelay THEN @ - 1 ELSE @]

Delayed(X) == {x + 1 : x \in X}

\* A second fraction passes for one client: its window, its passes and its promises
\* age, and the delays of the workers grow.
LEMMA ClientTick ==
    ASSUME NEW b \in Backends, NEW win \in AWindow, NEW R \in Passes, IsFiniteSet(R),
           NEW P \in SUBSET Int, NEW X \in SUBSET Nat, \A x \in X : x < MaxDelay,
           ClientOK(b, win, R, P, X),
           NEW next, next = LaterIn(b, win),
           NEW Q \in SUBSET Int, next.expires /\ next.left <= 0 => Q = {},
           \A q \in Q : \E p \in P : p - 1 <= q
    PROVE  /\ next \in AWindow
           /\ ClientOK(b, next, Older(R), Q, Delayed(X))
<1>0. /\ next = IF win.count = 0 \/ ~win.expires THEN win
                ELSE IF b = "redis" /\ win.left = 1 THEN NoWindow
                ELSE [win EXCEPT !.left = IF @ > -MaxDelay THEN @ - 1 ELSE @]
      /\ Delayed(X) = {x + 1 : x \in X}
  BY DEF LaterIn, Delayed
<1>1. CASE b = "redis" /\ win.left = 1 /\ win.count # 0 /\ win.expires
  <2>1. next = NoWindow /\ Q = {} /\ X = {} /\ {x + 1 : x \in X} = {}
    BY <1>0, <1>1 DEF ClientOK, WindowOK, NoWindow
  <2>2. next \in AWindow /\ win.count > 0
    <3>1. NoWindow \in AWindow
      BY Spans DEF AWindow, NoWindow
    <3>2. win.count \in 0 .. MaxAttempts + 1
      BY DEF AWindow
    <3> QED
      BY <1>1, <2>1, <3>1, <3>2, Spans
  <2>3. BurstOK(b, next, Older(R))
    BY <1>1, <2>1, <2>2, BurstRemoved DEF ClientOK
  <2>4. WindowOK(b, next, Older(R), {}, {}) /\ UseOK(b, next, Older(R), {})
        /\ PromiseOK(b, next, {}, {})
    BY <1>1, <2>1, Spans DEF WindowOK, UseOK, PromiseOK, NoWindow
  <2> QED
    BY <1>0, <2>1, <2>2, <2>3, <2>4 DEF ClientOK
<1>2. CASE ~(b = "redis" /\ win.left = 1 /\ win.count # 0 /\ win.expires)
  <2>1. win.count \in 0 .. MaxAttempts + 1 /\ win.left \in Int /\ win.expires \in BOOLEAN
    BY DEF AWindow
  <2>2. /\ next \in AWindow /\ next.count = win.count /\ next.expires = win.expires
        /\ next.left = IF win.count # 0 /\ win.expires /\ win.left > -MaxDelay
                       THEN win.left - 1 ELSE win.left
    BY <1>0, <1>2, Spans DEF AWindow
  <2>3. /\ win.left - 1 <= next.left /\ next.left <= Window /\ -MaxDelay <= next.left
        /\ next.left <= win.left
    BY <2>1, <2>2, Spans DEF ClientOK, WindowOK
  <2>4. b = "redis" /\ win.count > 0 /\ win.expires => next.left >= 1
    BY <1>2, <2>1, <2>2, Spans DEF ClientOK, WindowOK
  <2>5. next.expires /\ next.left > 0 => next.left = win.left - 1
    <3>1. win.count = 0 => next.left = 0
      BY <2>2 DEF ClientOK, WindowOK, NoWindow
    <3> QED
      BY <2>1, <2>2, <2>3, <3>1, Spans
  <2>6. PromiseOK(b, next, Q, {x + 1 : x \in X})
    <3>1. PromiseOK(b, win, P, X)
      BY DEF ClientOK
    <3>2. next \in AWindow /\ next.expires = win.expires
      BY <2>2
    <3> QED
      BY <2>5, <3>1, <3>2, PromiseTick
  <2>7. BurstOK(b, next, Older(R))
    BY <2>2, <2>3, BurstTick DEF ClientOK
  <2>8. UseOK(b, next, Older(R), {x + 1 : x \in X})
    <3>1. UseOK(b, win, R, X) /\ -MaxDelay <= win.left /\ (b = "memory" => win.expires)
      BY DEF ClientOK, WindowOK
    <3>2. win.expires /\ win.count > 0 =>
              next.left = (IF win.left > -MaxDelay THEN win.left - 1 ELSE win.left)
      BY <2>1, <2>2
    <3>3. next \in AWindow /\ next.count = win.count /\ next.expires = win.expires
      BY <2>2
    <3> QED
      BY <2>4, <3>1, <3>2, <3>3, UseTick
  <2>9. WindowOK(b, next, Older(R), Q, {x + 1 : x \in X})
    <3>1. win.count = 0 => next = NoWindow /\ Q = {}
      BY <1>0 DEF ClientOK, WindowOK, NoWindow
    <3>2. R = {} => Older(R) = {}
      BY DEF Older
    <3>3. X = {} => {x + 1 : x \in X} = {}
      OBVIOUS
    <3> QED
      BY <2>1, <2>2, <2>3, <2>4, <3>1, <3>2, <3>3 DEF ClientOK, WindowOK
  <2> QED
    BY <1>0, <2>2, <2>6, <2>7, <2>8, <2>9 DEF ClientOK
<1> QED
  BY <1>1, <1>2


-----------------------------------------------------------------------------
(* The steps.                                                              *)

Labels == {"Idle", "Count", "Expire", "Ttl"}

\* The part of the state that belongs to client c is as it should be.
Tended(c) ==
    /\ counter[c] \in AWindow /\ recent[c] \in Passes /\ owed[c] \in SUBSET Int
    /\ IsFiniteSet(recent[c]) /\ Numbered(recent[c])
    /\ \A v, w \in Expiring(c) : v = w
    /\ ClientOK(backend, counter[c], recent[c], owed[c], Delays(c))

\* It is so in every state that the invariant allows.
LEMMA InvTended ==
    ASSUME LimiterInv, NEW c \in Clients
    PROVE  Tended(c) /\ Delays(c) \in SUBSET (0 .. MaxDelay) /\ backend \in Backends
BY DEF LimiterInv, TypeInv, Tended, Delays, Expiring

\* A request goes on to another label.
LEMMA GoFacts ==
    ASSUME TypeInv, NEW w \in Workers, NEW l \in Labels, Go(w, l), key' \in [Workers -> Clients],
           \A v \in Workers \ {w} : key'[v] = key[v]
    PROVE  /\ at' \in [Workers -> Labels] /\ waited' \in [Workers -> 0 .. MaxDelay]
           /\ at'[w] = l /\ waited'[w] = 0
           /\ \A v \in Workers \ {w} : at'[v] = at[v] /\ waited'[v] = waited[v]
           /\ \A c \in Clients : ~(at[w] = "Expire" /\ key[w] = c) /\ ~(l = "Expire" /\ key'[w] = c)
                  => Expiring(c)' = Expiring(c) /\ Delays(c)' = Delays(c)
<1>1. /\ at' \in [Workers -> Labels] /\ waited' \in [Workers -> 0 .. MaxDelay]
      /\ at'[w] = l /\ waited'[w] = 0
      /\ \A v \in Workers \ {w} : at'[v] = at[v] /\ waited'[v] = waited[v]
  BY Spans DEF Go, TypeInv, Labels
<1>2. ASSUME NEW c \in Clients, ~(at[w] = "Expire" /\ key[w] = c),
             ~(l = "Expire" /\ key'[w] = c)
      PROVE  Expiring(c)' = Expiring(c) /\ Delays(c)' = Delays(c)
  <2>1. Expiring(c)' = Expiring(c)
    BY <1>1, <1>2 DEF Expiring
  <2>2. \A v \in Expiring(c) : v \in Workers \ {w}
    BY <1>2 DEF Expiring
  <2>3. \A v \in Expiring(c) : waited'[v] = waited[v]
    BY <1>1, <2>2
  <2>4. Delays(c)' = {waited'[v] : v \in Expiring(c)'}
    BY DEF Delays
  <2> QED
    BY <2>1, <2>3, <2>4 DEF Delays
<1> QED
  BY <1>1, <1>2

\* A step of one request changes the state of one client.
LEMMA OneClient ==
    ASSUME LimiterInv, NEW w \in Workers, NEW l \in Labels, Go(w, l), NEW c \in Clients,
           backend' = backend, l # "Idle" => (backend = "memory" <=> l = "Count"),
           count' \in [Workers -> 0 .. MaxAttempts + 1], key' \in [Workers -> Clients],
           \A v \in Workers \ {w} : key'[v] = key[v],
           at[w] = "Expire" => key[w] = c, l = "Expire" => key'[w] = c,
           NEW win, NEW R, NEW P,
           counter' = [counter EXCEPT ![c] = win], recent' = [recent EXCEPT ![c] = R],
           owed' = [owed EXCEPT ![c] = P],
           win \in AWindow, R \in Passes, P \in SUBSET Int, IsFiniteSet(R), Numbered(R),
           \A u, v \in Expiring(c)' : u = v,
           ClientOK(backend, win, R, P, Delays(c)')
    PROVE  LimiterInv'
<1>1. /\ at' \in [Workers -> Labels] /\ waited' \in [Workers -> 0 .. MaxDelay]
      /\ at'[w] = l /\ waited'[w] = 0
      /\ \A v \in Workers \ {w} : at'[v] = at[v] /\ waited'[v] = waited[v]
      /\ \A e \in Clients \ {c} : Expiring(e)' = Expiring(e) /\ Delays(e)' = Delays(e)
  BY GoFacts DEF LimiterInv
<1>2. /\ counter' \in [Clients -> AWindow] /\ recent' \in [Clients -> Passes]
      /\ owed' \in [Clients -> SUBSET Int]
      /\ counter'[c] = win /\ recent'[c] = R /\ owed'[c] = P
      /\ \A e \in Clients \ {c} : counter'[e] = counter[e] /\ recent'[e] = recent[e]
                                  /\ owed'[e] = owed[e]
  BY DEF LimiterInv, TypeInv
<1>3. \A e \in Clients : IsFiniteSet(recent'[e]) /\ Numbered(recent'[e])
  BY <1>2 DEF LimiterInv, TypeInv
<1>4. \A v \in Workers : at'[v] # "Idle" => (backend' = "memory" <=> at'[v] = "Count")
  BY <1>1 DEF LimiterInv, TypeInv
<1>5. \A e \in Clients : \A u, v \in Expiring(e)' : u = v
  BY <1>1 DEF LimiterInv, TypeInv
<1>6. TypeInv'
  BY <1>1, <1>2, <1>3, <1>4, <1>5 DEF LimiterInv, TypeInv, Labels
<1>7. ASSUME NEW e \in Clients
      PROVE  ClientOK(backend, counter'[e], recent'[e], owed'[e], Delays(e)')
  <2>1. CASE e = c
    BY <1>2, <2>1
  <2>2. CASE e # c
    BY <1>1, <1>2, <2>2 DEF LimiterInv
  <2> QED
    BY <2>1, <2>2
<1> QED
  BY <1>6, <1>7 DEF LimiterInv

\* The client of a request that only moves on.
LEMMA SameClient ==
    ASSUME LimiterInv, NEW c \in Clients
    PROVE  /\ counter = [counter EXCEPT ![c] = counter[c]]
           /\ recent = [recent EXCEPT ![c] = recent[c]]
           /\ owed = [owed EXCEPT ![c] = owed[c]]
BY DEF LimiterInv, TypeInv

\* A request that reads the clock changes nothing but what its worker knows.
LEMMA ReadClockInv ==
    ASSUME LimiterInv, NEW w \in Workers, ReadClock(w)
    PROVE  LimiterInv'
<1>1. PICK c \in Clients : key' = [key EXCEPT ![w] = c]
  BY DEF ReadClock
<1>2. /\ Go(w, "Count") /\ "Count" \in Labels /\ at[w] = "Idle" /\ backend = "memory"
      /\ UNCHANGED <<backend, counter, count, recent, owed>>
  BY DEF ReadClock, Labels
<1>3. key' \in [Workers -> Clients] /\ \A v \in Workers \ {w} : key'[v] = key[v]
  BY <1>1 DEF LimiterInv, TypeInv
<1>4. Expiring(c)' = Expiring(c) /\ Delays(c)' = Delays(c)
  BY <1>2, <1>3, GoFacts DEF LimiterInv
<1>5. Tended(c)
  BY InvTended
<1>6. \A u, v \in Expiring(c)' : u = v
  BY <1>4, <1>5 DEF Tended
<1>7. /\ counter' = [counter EXCEPT ![c] = counter[c]]
      /\ recent' = [recent EXCEPT ![c] = recent[c]]
      /\ owed' = [owed EXCEPT ![c] = owed[c]]
  BY <1>2, SameClient
<1>8. count' \in [Workers -> 0 .. MaxAttempts + 1]
  BY <1>2 DEF LimiterInv, TypeInv
<1>9. ClientOK(backend, counter[c], recent[c], owed[c], Delays(c)')
  BY <1>4, <1>5 DEF Tended
<1> QED
  BY <1>2, <1>3, <1>5, <1>6, <1>7, <1>8, <1>9, OneClient DEF Tended

\* The whole of a request on the process memory, from the old reading of the clock.
LEMMA CountInv ==
    ASSUME LimiterInv, NEW w \in Workers, Count(w)
    PROVE  LimiterInv'
<1>1. PICK c \in Clients : c = key[w]
  BY DEF LimiterInv, TypeInv
<1>2. PICK u \in 0 .. MaxDelay : u = waited[w]
  BY DEF LimiterInv, TypeInv
<1>3. PICK next : next = WindowFor(w, c)
  OBVIOUS
<1>4. PICK win, R, P : win = counter[c] /\ R = recent[c] /\ P = owed[c]
  OBVIOUS
<1>5. PICK Q : Q = LET earlier == IF next.count = 1 THEN {} ELSE P
                   IN  IF next.count > MaxAttempts
                       THEN Promise(earlier, RetryAfter(next.left + u))
                       ELSE earlier
  OBVIOUS
<1>6. PICK T : T = IF next.count <= MaxAttempts THEN Passed(R) ELSE R
  OBVIOUS
<1>7. /\ at[w] = "Count" /\ Go(w, "Idle") /\ "Idle" \in Labels
      /\ UNCHANGED <<backend, key, count>>
      /\ counter' = [counter EXCEPT ![c] = next]
      /\ owed' = [owed EXCEPT ![c] = Q]
  BY <1>1, <1>2, <1>3, <1>4, <1>5 DEF Count, Labels
<1>8. recent' = [recent EXCEPT ![c] = T]
  BY <1>1, <1>3, <1>4, <1>6 DEF Count, LetThrough, LimiterInv, TypeInv
<1>9. /\ backend = "memory" /\ Tended(c) /\ Delays(c) = {}
      /\ ClientOK("memory", win, R, P, {}) /\ win.expires
  <2>1. backend = "memory" /\ Tended(c)
    BY <1>7, InvTended DEF LimiterInv, TypeInv
  <2>2. Delays(c) = {} /\ win.expires
    BY <1>4, <2>1 DEF Tended, ClientOK, WindowOK
  <2> QED
    BY <1>4, <2>1, <2>2 DEF Tended
<1>10. Expiring(c)' = Expiring(c) /\ Delays(c)' = {}
  BY <1>7, <1>9, GoFacts DEF LimiterInv, TypeInv
<1>11. /\ win \in AWindow /\ R \in Passes /\ P \in SUBSET Int
       /\ IsFiniteSet(R) /\ Numbered(R)
  BY <1>4, <1>9 DEF Tended
<1>12. T \in Passes /\ IsFiniteSet(T) /\ Numbered(T)
  BY <1>6, <1>11, PassedIsNew
<1>13. next \in AWindow /\ Q \in SUBSET Int /\ ClientOK("memory", next, T, Q, {})
  <2>1. CASE win.count = 0 \/ win.left + u <= 0
    <3>1. next = [count |-> 1, left |-> Window - u, expires |-> TRUE]
      BY <1>2, <1>3, <1>4, <2>1 DEF WindowFor, LeftFor
    <3>2. next \in AWindow /\ ClientOK("memory", next, Passed(R), {}, {})
      BY <1>9, <1>11, <2>1, <3>1, ClientRestarted
    <3>3. next.count = 1 /\ T = Passed(R) /\ Q = {}
      BY <1>5, <1>6, <3>1, Spans
    <3> QED
      BY <3>2, <3>3
  <2>2. CASE ~(win.count = 0 \/ win.left + u <= 0)
    <3>1. next = [win EXCEPT !.count = Counted(@)]
      BY <1>2, <1>3, <1>4, <2>2 DEF WindowFor, LeftFor
    <3>2. win.count > 0 /\ -MaxDelay < win.left /\ win.left \in Int
      BY <1>11, <2>2, Spans DEF AWindow
    <3>3. /\ next \in AWindow /\ next.count > 1
          /\ ClientOK("memory", next, T, P, {})
      BY <1>6, <1>9, <1>11, <3>1, <3>2, ClientCounted DEF Backends
    <3>4. CASE ~(next.count > MaxAttempts)
      BY <1>5, <1>11, <3>3, <3>4
    <3>5. CASE next.count > MaxAttempts
      <4>1. Q = Promise(P, RetryAfter(next.left + u))
        BY <1>5, <3>3, <3>5
      <4>2. PICK s : s = RetryAfter(next.left + u)
        OBVIOUS
      <4>3. next.left \in Int /\ next.left + u \in Int
        BY <3>3 DEF AWindow
      <4>4. s * Second \in Int /\ next.left + u - (Second - 1) <= s * Second
        <5>1. PICK t \in Int : t = next.left + u
          BY <4>3
        <5>2. s = RetryAfter(t)
          BY <4>2, <5>1
        <5>3. s * Second \in Int /\ t - (Second - 1) <= s * Second
          BY <5>2, RetryAfterType
        <5>4. Second \in Int
          BY LimiterAssumption
        <5>5. next.left + u - (Second - 1) = t - (Second - 1)
          BY <4>3, <5>1, <5>4
        <5> QED
          BY <5>3, <5>5
      <4>5. Late("memory") = Second - 1 /\ Second \in Int
        BY LimiterAssumption DEF Late
      <4>6. next.left <= s * Second + Late("memory")
        BY <4>3, <4>4, <4>5
      <4>7. next.expires
        BY <3>3 DEF ClientOK, WindowOK
      <4>8. ClientOK("memory", next, T, Promise(P, s), {}) /\ Promise(P, s) \in SUBSET Int
        <5>1. next.count > 0
          BY <3>3 DEF AWindow
        <5> QED
          BY <1>11, <3>3, <4>4, <4>6, <4>7, <5>1, ClientPromised
      <4> QED
        BY <3>3, <4>1, <4>2, <4>8
    <3> QED
      BY <3>4, <3>5
  <2> QED
    BY <2>1, <2>2
<1>14. /\ count' \in [Workers -> 0 .. MaxAttempts + 1] /\ key' \in [Workers -> Clients]
       /\ \A v \in Workers \ {w} : key'[v] = key[v]
       /\ backend' = backend
  BY <1>7 DEF LimiterInv, TypeInv
<1>15. \A x, v \in Expiring(c)' : x = v
  BY <1>9, <1>10 DEF Tended
<1>16. ClientOK(backend, next, T, Q, Delays(c)')
  BY <1>9, <1>10, <1>13
<1> QED
  BY <1>7, <1>8, <1>12, <1>13, <1>14, <1>15, <1>16, OneClient


\* Only requests that wait to EXPIRE have delays that count.
LEMMA ExpiringDelays ==
    ASSUME NEW c \in Clients
    PROVE  /\ Delays(c) = {} <=> Expiring(c) = {}
           /\ \A w \in Workers : Expiring(c) = {w} => Delays(c) = {waited[w]}
BY DEF Delays

\* INCR, after which the worker sets the lifetime, asks for it, or lets through.
LEMMA IncrInv ==
    ASSUME LimiterInv, NEW w \in Workers, Incr(w)
    PROVE  LimiterInv'
<1>1. PICK c \in Clients :
        LET n == Counted(counter[c].count) IN
        /\ key' = [key EXCEPT ![w] = c]
        /\ count' = [count EXCEPT ![w] = n]
        /\ counter' = [counter EXCEPT ![c] =
                IF n = 1 THEN [count |-> 1, left |-> 0, expires |-> FALSE]
                         ELSE [@ EXCEPT !.count = n]]
        /\ LetThrough(c, n)
        /\ Go(w, IF n = 1 THEN "Expire" ELSE "Ttl")
  BY DEF Incr
<1>2. PICK win, R, P : win = counter[c] /\ R = recent[c] /\ P = owed[c]
  OBVIOUS
<1>3. PICK n : n = Counted(win.count)
  OBVIOUS
<1>4. PICK next : next = IF n = 1 THEN [count |-> 1, left |-> 0, expires |-> FALSE]
                                  ELSE [win EXCEPT !.count = n]
  OBVIOUS
<1>5. PICK T : T = IF n <= MaxAttempts THEN Passed(R) ELSE R
  OBVIOUS
<1>6. PICK l : l = IF n = 1 THEN "Expire" ELSE "Ttl"
  OBVIOUS
<1>7. /\ backend = "redis" /\ at[w] = "Idle" /\ Go(w, l) /\ l \in Labels
      /\ backend' = backend /\ owed' = [owed EXCEPT ![c] = P]
      /\ key' = [key EXCEPT ![w] = c] /\ count' = [count EXCEPT ![w] = n]
      /\ counter' = [counter EXCEPT ![c] = next]
  BY <1>1, <1>2, <1>3, <1>4, <1>6, SameClient DEF Incr, Labels, LimiterInv, TypeInv
<1>8. recent' = [recent EXCEPT ![c] = T]
  <2>1. LetThrough(c, n)
    BY <1>1, <1>2, <1>3
  <2> QED
    BY <1>2, <1>5, <2>1, SameClient DEF LetThrough, LimiterInv, TypeInv
<1>9. /\ Tended(c) /\ ClientOK("redis", win, R, P, Delays(c)) /\ Delays(c) \in SUBSET Nat
      /\ win \in AWindow /\ R \in Passes /\ P \in SUBSET Int /\ IsFiniteSet(R) /\ Numbered(R)
  BY <1>2, <1>7, InvTended DEF Tended
<1>10. win.count \in 0 .. MaxAttempts + 1 /\ n \in 1 .. MaxAttempts + 1 /\ (n = 1 <=> win.count = 0)
  <2>1. win.count \in 0 .. MaxAttempts + 1
    BY <1>9 DEF AWindow
  <2> QED
    BY <1>3, <2>1, SpentFacts
<1>11. /\ key' \in [Workers -> Clients] /\ key'[w] = c
       /\ \A v \in Workers \ {w} : key'[v] = key[v]
       /\ count' \in [Workers -> 0 .. MaxAttempts + 1]
  BY <1>7, <1>10 DEF LimiterInv, TypeInv
<1>12. T \in Passes /\ IsFiniteSet(T) /\ Numbered(T)
  BY <1>5, <1>9, PassedIsNew
<1>13. CASE win.count = 0
  <2>1. next = [count |-> 1, left |-> 0, expires |-> FALSE] /\ T = Passed(R) /\ l = "Expire"
    BY <1>4, <1>5, <1>6, <1>10, <1>13, Spans
  <2>2. next \in AWindow /\ Delays(c) = {} /\ ClientOK("redis", next, T, P, {0})
    BY <1>9, <1>13, <2>1, ClientCreated
  <2>3. at'[w] = "Expire" /\ waited'[w] = 0 /\ \A v \in Workers \ {w} : at'[v] = at[v]
    BY <1>7, <1>11, <2>1, GoFacts DEF LimiterInv
  <2>4. Expiring(c) = {}
    BY <2>2, ExpiringDelays
  <2>5. Expiring(c)' = {w}
    BY <1>11, <2>3, <2>4 DEF Expiring
  <2>6. Delays(c)' = {0}
    BY <2>3, <2>5 DEF Delays
  <2>7. ClientOK(backend, next, T, P, Delays(c)')
    BY <1>7, <2>2, <2>6
  <2>8. \A u, v \in Expiring(c)' : u = v
    BY <2>5
  <2> QED
    BY <1>7, <1>8, <1>9, <1>11, <1>12, <2>1, <2>2, <2>7, <2>8, OneClient
<1>14. CASE win.count # 0
  <2>1. next = [win EXCEPT !.count = Counted(@)] /\ l = "Ttl"
    BY <1>3, <1>4, <1>6, <1>10, <1>14
  <2>2. next.count = n
    BY <1>3, <1>9, <2>1 DEF AWindow
  <2>3. next \in AWindow /\ ClientOK("redis", next, T, P, Delays(c))
    <3>1. win.count > 0
      BY <1>10, <1>14
    <3> QED
      BY <1>5, <1>9, <2>1, <2>2, <3>1, ClientCounted DEF Backends
  <2>4. Expiring(c)' = Expiring(c) /\ Delays(c)' = Delays(c)
    BY <1>7, <1>11, <2>1, GoFacts DEF LimiterInv
  <2>5. ClientOK(backend, next, T, P, Delays(c)')
    BY <1>7, <2>3, <2>4
  <2>6. \A u, v \in Expiring(c)' : u = v
    BY <1>9, <2>4 DEF Tended
  <2> QED
    BY <1>7, <1>8, <1>9, <1>11, <1>12, <2>1, <2>3, <2>5, <2>6, OneClient
<1> QED
  BY <1>13, <1>14

\* A request that leaves EXPIRE, whether it made the call or died, was alone
\* there.
LEMMA LeavesExpire ==
    ASSUME LimiterInv, NEW w \in Workers, at[w] = "Expire", NEW l \in {"Idle", "Ttl"},
           Go(w, l), key' = key
    PROVE  /\ Delays(key[w]) = {waited[w]}
           /\ Expiring(key[w])' = {} /\ Delays(key[w])' = {}
<1>1. key[w] \in Clients /\ w \in Expiring(key[w])
  BY DEF Expiring, LimiterInv, TypeInv
<1>2. Expiring(key[w]) = {w}
  BY <1>1 DEF LimiterInv, TypeInv
<1>3. at'[w] = l /\ \A v \in Workers \ {w} : at'[v] = at[v]
  BY DEF Go, LimiterInv, TypeInv
<1>4. Expiring(key[w])' = {}
  BY <1>2, <1>3 DEF Expiring
<1> QED
  BY <1>1, <1>2, <1>4, ExpiringDelays DEF Delays

\* EXPIRE, for the client whose key this worker made.
LEMMA ExpireInv ==
    ASSUME LimiterInv, NEW w \in Workers, Expire(w)
    PROVE  LimiterInv'
<1>1. PICK c \in Clients : c = key[w]
  BY DEF LimiterInv, TypeInv
<1>2. PICK win, R, P : win = counter[c] /\ R = recent[c] /\ P = owed[c]
  OBVIOUS
<1>3. PICK x \in 0 .. MaxDelay : x = waited[w]
  BY DEF LimiterInv, TypeInv
<1>4. /\ at[w] = "Expire" /\ Go(w, "Ttl") /\ "Ttl" \in Labels
      /\ UNCHANGED <<backend, key, count, recent, owed>>
      /\ counter' = [counter EXCEPT ![c].left = Window, ![c].expires = TRUE]
  BY <1>1 DEF Expire, Labels
<1>5. backend = "redis"
  BY <1>4 DEF LimiterInv, TypeInv, Backends
<1>6. /\ Tended(c) /\ win \in AWindow /\ R \in Passes /\ P \in SUBSET Int
      /\ IsFiniteSet(R) /\ Numbered(R)
  BY <1>2, InvTended DEF Tended
<1>7. Delays(c) = {x} /\ Expiring(c)' = {} /\ Delays(c)' = {}
  BY <1>1, <1>3, <1>4, LeavesExpire
<1>8. ClientOK("redis", win, R, P, {x})
  BY <1>2, <1>5, <1>6, <1>7 DEF Tended
<1>9. PICK next : next = counter'[c]
  OBVIOUS
<1>10. /\ counter' = [counter EXCEPT ![c] = next]
       /\ next \in AWindow /\ next.count = win.count /\ next.left = Window /\ next.expires
  <2>1. counter \in [Clients -> AWindow]
    BY DEF LimiterInv, TypeInv
  <2>2. counter' = [counter EXCEPT ![c] = [@ EXCEPT !.left = Window, !.expires = TRUE]]
    BY <1>4, <2>1 DEF AWindow
  <2>3. next = [win EXCEPT !.left = Window, !.expires = TRUE]
    BY <1>2, <1>9, <2>1, <2>2
  <2>4. PICK half : half = [win EXCEPT !.left = Window]
    OBVIOUS
  <2>5. half \in AWindow /\ half.count = win.count /\ half.left = Window
    BY <1>6, <2>4, Spans DEF AWindow
  <2>6. next = [half EXCEPT !.expires = TRUE]
    BY <2>3, <2>4
  <2> QED
    BY <1>2, <1>9, <2>1, <2>2, <2>5, <2>6 DEF AWindow
<1>11. ClientOK("redis", next, R, P, {})
  BY <1>6, <1>8, <1>10, ClientExpires
<1>12. recent' = [recent EXCEPT ![c] = R] /\ owed' = [owed EXCEPT ![c] = P]
  BY <1>2, <1>4, SameClient
<1>13. /\ count' \in [Workers -> 0 .. MaxAttempts + 1] /\ key' \in [Workers -> Clients]
       /\ \A v \in Workers \ {w} : key'[v] = key[v]
       /\ backend' = backend
  BY <1>4 DEF LimiterInv, TypeInv
<1>14. ClientOK(backend, next, R, P, Delays(c)') /\ \A u, v \in Expiring(c)' : u = v
  BY <1>5, <1>7, <1>11
<1>15. /\ Go(w, "Ttl") /\ "Ttl" \in Labels
       /\ ("Ttl" # "Idle" => (backend = "memory" <=> "Ttl" = "Count"))
       /\ (at[w] = "Expire" => key[w] = c) /\ ("Ttl" = "Expire" => key'[w] = c)
       /\ counter' = [counter EXCEPT ![c] = next] /\ next \in AWindow
  BY <1>1, <1>4, <1>5, <1>10
<1> QED
  BY <1>6, <1>12, <1>13, <1>14, <1>15, OneClient

\* TTL, and the answer to a request that is refused.
LEMMA TtlInv ==
    ASSUME LimiterInv, NEW w \in Workers, Ttl(w)
    PROVE  LimiterInv'
<1>1. PICK c \in Clients : c = key[w]
  BY DEF LimiterInv, TypeInv
<1>2. PICK win, R, P : win = counter[c] /\ R = recent[c] /\ P = owed[c]
  OBVIOUS
<1>3. PICK ttl \in Ttls(c) :
        owed' = [owed EXCEPT ![c] =
            IF count[w] > MaxAttempts /\ counter[c].count > 0
            THEN Promise(@, IF ttl > 0 THEN ttl ELSE WindowSeconds)
            ELSE @]
  BY <1>1 DEF Ttl
<1>4. PICK s : s = IF ttl > 0 THEN ttl ELSE WindowSeconds
  OBVIOUS
<1>5. PICK Q : Q = IF count[w] > MaxAttempts /\ win.count > 0 THEN Promise(P, s) ELSE P
  OBVIOUS
<1>6. /\ at[w] = "Ttl" /\ Go(w, "Idle") /\ "Idle" \in Labels
      /\ UNCHANGED <<backend, counter, key, count, recent>>
      /\ owed' = [owed EXCEPT ![c] = Q]
  BY <1>2, <1>3, <1>4, <1>5 DEF Ttl, Labels, LimiterInv, TypeInv
<1>7. backend = "redis"
  BY <1>6 DEF LimiterInv, TypeInv, Backends
<1>8. /\ Tended(c) /\ win \in AWindow /\ R \in Passes /\ P \in SUBSET Int
      /\ IsFiniteSet(R) /\ Numbered(R) /\ Delays(c) \in SUBSET Nat
  BY <1>2, InvTended DEF Tended
<1>9. key' \in [Workers -> Clients] /\ \A v \in Workers \ {w} : key'[v] = key[v]
  BY <1>6 DEF LimiterInv, TypeInv
<1>10. Expiring(c)' = Expiring(c) /\ Delays(c)' = Delays(c)
  BY <1>6, <1>9, GoFacts DEF LimiterInv
<1>11. ClientOK("redis", win, R, P, Delays(c))
  BY <1>2, <1>7, <1>8 DEF Tended
<1>12. ClientOK("redis", win, R, Q, Delays(c)) /\ Q \in SUBSET Int
  <2>1. CASE count[w] > MaxAttempts /\ win.count > 0
    <3>1. PICK t \in Int : t = win.left
      BY <1>8 DEF AWindow
    <3>2. /\ WindowSeconds * Second \in Int /\ WindowSeconds * Second = Window /\ Window \in Int
          /\ Second \in Int /\ 1 <= Second
      BY LimiterAssumption, Spans DEF Window
    <3>3. t <= Window
      BY <1>11, <3>1 DEF ClientOK, WindowOK
    <3>4. Second - 1 <= Late("redis") /\ Late("redis") \in Int
      BY LimiterAssumption, Spans DEF Late
    <3>5. s * Second \in Int /\ (win.expires => t - (Second - 1) <= s * Second)
      <4>1. CASE ttl > 0 /\ win.expires
        <5>1. ttl \in {t \div Second, (t + Second - 1) \div Second} /\ s = ttl
          BY <1>2, <1>4, <3>1, <4>1 DEF Ttls
        <5>2. /\ t \div Second \in Int /\ t - (Second - 1) <= (t \div Second) * Second
              /\ (t + Second - 1) \div Second \in Int
              /\ t <= ((t + Second - 1) \div Second) * Second
          BY WholeSeconds
        <5>3. PICK q \in Int : q = (t + Second - 1) \div Second /\ t <= q * Second
          BY <5>2
        <5>4. PICK r \in Int : r = t \div Second /\ t - (Second - 1) <= r * Second
          BY <5>2
        <5>5. s = q \/ s = r
          BY <5>1, <5>3, <5>4
        <5>6. q * Second \in Int /\ r * Second \in Int
          BY <3>2
        <5> QED
          BY <3>2, <5>3, <5>4, <5>5, <5>6
      <4>2. CASE ~(ttl > 0)
        <5>1. s * Second = Window
          BY <1>4, <3>2, <4>2
        <5> QED
          BY <3>2, <3>3, <5>1
      <4>3. CASE ttl > 0 /\ ~win.expires
        <5>1. ttl = -1
          BY <1>2, <4>3 DEF Ttls
        <5> QED
          BY <4>3, <5>1
      <4> QED
        BY <4>1, <4>2, <4>3
    <3>6. win.expires => win.left <= s * Second + Late("redis")
      BY <3>1, <3>2, <3>4, <3>5
    <3>7. ~win.expires => Window <= s * Second
      <4>1. ~win.expires => ttl = -1
        BY <1>2 DEF Ttls
      <4>2. ~win.expires => s = WindowSeconds
        BY <1>4, <4>1
      <4> QED
        BY <3>2, <4>2
    <3>8. ClientOK("redis", win, R, Promise(P, s), Delays(c)) /\ Promise(P, s) \in SUBSET Int
      BY <1>8, <1>11, <2>1, <3>5, <3>6, <3>7, ClientPromised
    <3> QED
      BY <1>5, <2>1, <3>8
  <2>2. CASE ~(count[w] > MaxAttempts /\ win.count > 0)
    BY <1>5, <1>8, <1>11, <2>2
  <2> QED
    BY <2>1, <2>2
<1>13. counter' = [counter EXCEPT ![c] = win] /\ recent' = [recent EXCEPT ![c] = R]
  BY <1>2, <1>6, SameClient
<1>14. count' \in [Workers -> 0 .. MaxAttempts + 1] /\ backend' = backend
  BY <1>6 DEF LimiterInv, TypeInv
<1>15. ClientOK(backend, win, R, Q, Delays(c)') /\ \A u, v \in Expiring(c)' : u = v
  BY <1>7, <1>8, <1>10, <1>12 DEF Tended
<1> QED
  BY <1>6, <1>8, <1>9, <1>12, <1>13, <1>14, <1>15, OneClient

\* A worker that stops between two commands.
LEMMA DieInv ==
    ASSUME LimiterInv, NEW w \in Workers, Die(w)
    PROVE  LimiterInv'
<1>1. PICK c \in Clients : c = key[w]
  BY DEF LimiterInv, TypeInv
<1>2. /\ Go(w, "Idle") /\ "Idle" \in Labels
      /\ UNCHANGED <<backend, counter, key, count, recent, owed>>
  BY DEF Die, Labels
<1>3. Tended(c)
  BY InvTended
<1>4. key' \in [Workers -> Clients] /\ \A v \in Workers \ {w} : key'[v] = key[v]
  BY <1>2 DEF LimiterInv, TypeInv
<1>5. /\ ClientOK(backend, counter[c], recent[c], owed[c], Delays(c)')
      /\ \A u, v \in Expiring(c)' : u = v
  <2>1. CASE at[w] = "Expire"
    <3>1. Expiring(c)' = {} /\ Delays(c)' = {}
      BY <1>1, <1>2, <2>1, LeavesExpire
    <3> QED
      BY <1>3, <3>1, ClientAbandoned DEF Tended
  <2>2. CASE at[w] # "Expire"
    <3>1. Expiring(c)' = Expiring(c) /\ Delays(c)' = Delays(c)
      BY <1>2, <1>4, <2>2, GoFacts DEF LimiterInv
    <3> QED
      BY <1>3, <3>1 DEF Tended
  <2> QED
    BY <2>1, <2>2
<1>6. /\ counter' = [counter EXCEPT ![c] = counter[c]]
      /\ recent' = [recent EXCEPT ![c] = recent[c]]
      /\ owed' = [owed EXCEPT ![c] = owed[c]]
  BY <1>2, SameClient
<1>7. count' \in [Workers -> 0 .. MaxAttempts + 1] /\ backend' = backend
  BY <1>2 DEF LimiterInv, TypeInv
<1>8. /\ counter[c] \in AWindow /\ recent[c] \in Passes /\ owed[c] \in SUBSET Int
      /\ IsFiniteSet(recent[c]) /\ Numbered(recent[c])
  BY <1>3 DEF Tended
<1>9. at[w] = "Expire" => key[w] = c
  BY <1>1
<1> QED
  BY <1>2, <1>4, <1>5, <1>6, <1>7, <1>8, <1>9, OneClient

\* The clock, for every client at once.
LEMMA TickInv ==
    ASSUME LimiterInv, Tick
    PROVE  LimiterInv'
<1>1. \A w \in Workers : at[w] # "Idle" => waited[w] < MaxDelay
  BY DEF Tick
<1>2. /\ waited' \in [Workers -> 0 .. MaxDelay] /\ UNCHANGED <<backend, at, key, count>>
      /\ \A w \in Workers : at[w] # "Idle" => waited'[w] = waited[w] + 1
  BY <1>1, Spans DEF Tick, LimiterInv, TypeInv
<1>3. ASSUME NEW c \in Clients
      PROVE  /\ Expiring(c)' = Expiring(c)
             /\ counter'[c] \in AWindow /\ recent'[c] \in Passes /\ owed'[c] \in SUBSET Int
             /\ IsFiniteSet(recent'[c]) /\ Numbered(recent'[c])
             /\ ClientOK(backend', counter'[c], recent'[c], owed'[c], Delays(c)')
  <2>1. PICK win, R, P, X : win = counter[c] /\ R = recent[c] /\ P = owed[c] /\ X = Delays(c)
    OBVIOUS
  <2>2. /\ Tended(c) /\ X \in SUBSET (0 .. MaxDelay) /\ backend \in Backends
        /\ win \in AWindow /\ R \in Passes /\ P \in SUBSET Int /\ IsFiniteSet(R)
        /\ ClientOK(backend, win, R, P, X)
    BY <2>1, InvTended DEF Tended
  <2>3. Expiring(c)' = Expiring(c) /\ \A w \in Expiring(c) : waited'[w] = waited[w] + 1
    BY <1>2 DEF Expiring
  <2>4. Delays(c)' = Delayed(X) /\ \A x \in X : x < MaxDelay
    <3>1. Delays(c)' = {waited'[w] : w \in Expiring(c)}
      BY <2>3 DEF Delays
    <3>2. \A w \in Expiring(c) : waited[w] \in X /\ waited[w] < MaxDelay
      BY <1>1, <2>1 DEF Delays, Expiring
    <3>3. \A x \in X : \E w \in Expiring(c) : x = waited[w]
      BY <2>1 DEF Delays
    <3> QED
      BY <2>3, <3>1, <3>2, <3>3 DEF Delayed
  <2>5. PICK next : next = Later(win)
    OBVIOUS
  <2>6. PICK Q : Q = IF next.expires /\ next.left <= 0 THEN {}
                     ELSE {IF p > -Window THEN p - 1 ELSE p : p \in P}
    OBVIOUS
  <2>7. counter'[c] = next /\ recent'[c] = Older(R) /\ owed'[c] = Q
    BY <2>1, <2>5, <2>6 DEF Tick, PromisesLater
  <2>8. next = LaterIn(backend, win)
    BY <2>5 DEF Later, LaterIn
  <2>9. /\ next \in AWindow /\ Q \in SUBSET Int
        /\ ClientOK(backend, next, Older(R), Q, Delayed(X))
    <3>1. X \in SUBSET Nat
      BY <2>2, Spans
    <3>2. Q \in SUBSET Int /\ \A q \in Q : \E p \in P : p - 1 <= q
      BY <2>2, <2>6, Spans
    <3>3. next.expires /\ next.left <= 0 => Q = {}
      BY <2>6
    <3>4. PICK b \in Backends : b = backend
      BY <2>2
    <3>5. next = LaterIn(b, win)
      BY <2>8, <3>4
    <3>6. \A x \in X : x < MaxDelay
      BY <2>4
    <3>7. ClientOK(b, win, R, P, X) /\ win \in AWindow /\ R \in Passes /\ P \in SUBSET Int
          /\ IsFiniteSet(R)
      BY <2>2, <3>4
    <3>8. next \in AWindow /\ ClientOK(b, next, Older(R), Q, Delayed(X))
      BY <3>1, <3>2, <3>3, <3>5, <3>6, <3>7, ClientTick
    <3> QED
      BY <3>2, <3>4, <3>8
  <2>10. Older(R) \in Passes /\ IsFiniteSet(Older(R)) /\ Numbered(Older(R))
    BY <2>2, OlderIsPasses
  <2>11. ClientOK(backend', counter'[c], recent'[c], owed'[c], Delays(c)')
    BY <1>2, <2>4, <2>7, <2>9
  <2> QED
    BY <2>3, <2>7, <2>9, <2>10, <2>11
<1>4. /\ counter' = [c \in Clients |-> Later(counter[c])]
      /\ recent' = [c \in Clients |-> Older(recent[c])]
      /\ owed' = [c \in Clients |-> PromisesLater(c)]
  BY DEF Tick
<1>5. /\ counter' \in [Clients -> AWindow] /\ recent' \in [Clients -> Passes]
      /\ owed' \in [Clients -> SUBSET Int]
  BY <1>3, <1>4
<1>6. TypeInv'
  BY <1>2, <1>3, <1>5 DEF LimiterInv, TypeInv
<1> QED
  BY <1>3, <1>6 DEF LimiterInv

\* Every client is as it was before anybody came.
LEMMA FreshInv ==
    ASSUME backend \in Backends, at = [w \in Workers |-> "Idle"], key \in [Workers -> Clients],
           count \in [Workers -> 0 .. MaxAttempts + 1], waited \in [Workers -> 0 .. MaxDelay],
           counter = [c \in Clients |-> NoWindow], recent = [c \in Clients |-> {}],
           owed = [c \in Clients |-> {}]
    PROVE  LimiterInv
<1>1. ASSUME NEW c \in Clients
      PROVE  Expiring(c) = {} /\ Delays(c) = {}
  BY DEF Expiring, Delays
<1>2. NoWindow \in AWindow /\ {} \in Passes
  BY Spans DEF NoWindow, AWindow, Passes
<1>3. IsFiniteSet({}) /\ Numbered({})
  BY FS_EmptySet DEF Numbered, JustNow
<1>4. TypeInv
  BY <1>1, <1>2, <1>3 DEF TypeInv
<1> QED
  BY <1>1, <1>4, ClientReset DEF LimiterInv

\* A reset forgets every window, and its history with it.
LEMMA ResetInv ==
    ASSUME LimiterInv, Reset
    PROVE  LimiterInv'
<1>1. /\ backend' \in Backends /\ at' = [w \in Workers |-> "Idle"]
      /\ key' \in [Workers -> Clients] /\ count' \in [Workers -> 0 .. MaxAttempts + 1]
      /\ waited' \in [Workers -> 0 .. MaxDelay]
      /\ counter' = [c \in Clients |-> NoWindow] /\ recent' = [c \in Clients |-> {}]
      /\ owed' = [c \in Clients |-> {}]
  <2>1. at = [w \in Workers |-> "Idle"]
    BY DEF Reset, LimiterInv, TypeInv
  <2> QED
    BY <2>1 DEF Reset, LimiterInv, TypeInv
<1>2. ASSUME NEW c \in Clients
      PROVE  Expiring(c)' = {} /\ Delays(c)' = {}
  BY <1>1 DEF Expiring, Delays
<1>3. NoWindow \in AWindow /\ {} \in Passes /\ IsFiniteSet({}) /\ Numbered({})
  BY Spans, FS_EmptySet DEF NoWindow, AWindow, Passes, Numbered, JustNow
<1>4. TypeInv'
  BY <1>1, <1>2, <1>3 DEF TypeInv
<1>5. \A c \in Clients :
         ClientOK(backend', counter'[c], recent'[c], owed'[c], Delays(c)')
  BY <1>1, <1>2, ClientReset
<1> QED
  BY <1>4, <1>5 DEF LimiterInv

\* So the invariant holds in every state.
LEMMA LimiterAlways == Spec => []LimiterInv
<1>1. Init => LimiterInv
  <2> SUFFICES ASSUME Init
               PROVE  LimiterInv
    OBVIOUS
  <2>1. /\ backend \in Backends /\ count \in [Workers -> 0 .. MaxAttempts + 1]
        /\ waited \in [Workers -> 0 .. MaxDelay]
    BY Spans DEF Init, Backends
  <2> QED
    BY <2>1, FreshInv DEF Init
<1>2. LimiterInv /\ [Next]_vars => LimiterInv'
  <2>1. ASSUME LimiterInv, UNCHANGED vars
        PROVE  LimiterInv'
    BY <2>1 DEF vars, LimiterInv, TypeInv, Delays, Expiring
  <2> QED
    BY <2>1, ReadClockInv, CountInv, IncrInv, ExpireInv, TtlInv, DieInv, TickInv, ResetInv
       DEF Next, Request
<1> QED
  BY <1>1, <1>2, PTL DEF Spec

-----------------------------------------------------------------------------
(* The theorems.                                                           *)

\* In any span as long as a window no more attempts pass than two windows
\* allow, in memory three.
THEOREM BurstAlwaysBounded == Spec => []BurstBounded
<1>1. LimiterInv => BurstBounded
  BY InvTended, BurstBound DEF Tended, ClientOK, BurstBounded, LetThroughIn
<1> QED
  BY <1>1, LimiterAlways, PTL

\* Nobody is refused who has not used up his attempts, unless a death left a
\* key without expiry.
THEOREM RefusedOnlyWhenUsedUp == Spec => []RefusedOnlyAfterUse
<1>1. LimiterInv => RefusedOnlyAfterUse
  <2> SUFFICES ASSUME LimiterInv, NEW c \in Clients, WouldBeRefused(c)
               PROVE  Unexpiring(c) \/ LetThroughIn(c, Window + MaxDelay) >= MaxAttempts
    BY DEF RefusedOnlyAfterUse
  <2>1. PICK win, R : win = counter[c] /\ R = recent[c]
    OBVIOUS
  <2>2. /\ Tended(c) /\ backend \in Backends /\ win \in AWindow /\ R \in Passes
        /\ IsFiniteSet(R) /\ UseOK(backend, win, R, Delays(c))
    BY <2>1, InvTended DEF Tended, ClientOK
  <2>3. win.count \in 0 .. MaxAttempts + 1 /\ win.left \in Int
    BY <2>2 DEF AWindow
  <2>4. win.count >= MaxAttempts /\ (backend = "memory" => -MaxDelay < win.left)
    <3>1. CASE backend = "redis"
      BY <2>1, <2>3, <3>1, SpentFacts, Spans DEF WouldBeRefused
    <3>2. CASE backend = "memory"
      <4>1. PICK w \in Workers :
                at[w] = "Count" /\ key[w] = c /\ WindowFor(w, c).count > MaxAttempts
        BY <3>2 DEF WouldBeRefused
      <4>2. waited[w] \in 0 .. MaxDelay
        BY DEF LimiterInv, TypeInv
      <4>3. ~(win.count = 0 \/ win.left + waited[w] <= 0)
        BY <2>1, <4>1, Spans DEF WindowFor, LeftFor
      <4>4. Counted(win.count) > MaxAttempts
        BY <2>1, <2>2, <4>1, <4>3 DEF WindowFor, LeftFor, AWindow
      <4> QED
        BY <2>3, <4>2, <4>3, <4>4, SpentFacts, Spans
    <3> QED
      BY <2>2, <3>1, <3>2 DEF Backends
  <2>5. \/ ~win.expires /\ Delays(c) = {}
        \/ MaxAttempts <= Cardinality({p \in R : p[1] < Window + MaxDelay})
    BY <2>2, <2>4, UseBound
  <2>6. ~win.expires /\ Delays(c) = {} => Unexpiring(c)
    BY <2>1, ExpiringDelays DEF Unexpiring, Expiring
  <2>7. LetThroughIn(c, Window + MaxDelay) \in Nat
    BY <2>1, <2>2, FS_Subset, FS_CardinalityType DEF LetThroughIn
  <2> QED
    BY <2>1, <2>5, <2>6, <2>7, Spans DEF LetThroughIn
<1> QED
  BY <1>1, LimiterAlways, PTL

\* When the time of a Retry-After and the slack have passed, the window that
\* refused the attempt is over.
THEOREM RetryAfterAlwaysHolds == Spec => []RetryAfterHolds
<1>1. LimiterInv => RetryAfterHolds
  <2> SUFFICES ASSUME LimiterInv, NEW c \in Clients, NEW p \in owed[c], ~Unexpiring(c)
               PROVE  (IF counter[c].expires THEN counter[c].left ELSE Window) <= p + Slack
    BY DEF RetryAfterHolds
  <2>1. Tended(c) /\ Delays(c) \in SUBSET (0 .. MaxDelay)
    BY InvTended
  <2>2. p \in Int /\ Slack = Late(backend) /\ PromiseOK(backend, counter[c], owed[c], Delays(c))
    BY <2>1 DEF Tended, ClientOK, Slack, Late
  <2>3. CASE counter[c].expires
    BY <2>2, <2>3 DEF PromiseOK
  <2>4. CASE ~counter[c].expires
    <3>1. Delays(c) # {}
      BY <2>4, ExpiringDelays DEF Unexpiring, Expiring
    <3>2. PICK x \in Delays(c) : Window <= p + x
      BY <2>2, <2>4, <3>1 DEF PromiseOK
    <3>3. backend = "redis"
      BY <2>1, <2>4, InvTended DEF Tended, ClientOK, WindowOK, Backends
    <3> QED
      BY <2>1, <2>2, <2>4, <3>2, <3>3, Spans, LimiterAssumption DEF Late
  <2> QED
    BY <2>3, <2>4
<1> QED
  BY <1>1, LimiterAlways, PTL

=============================================================================
