------------------------ MODULE TelegramDeliveryProofs ------------------------
(***************************************************************************)
(* What a worker may rely on when it awaits send_alert, for any numbers of *)
(* retries and calls and any waits that Telegram asks for.                 *)
(***************************************************************************)
EXTENDS TelegramDelivery, WellFoundedInduction, TLAPS

\* An answer belongs to the attempt it was given to.
AnswerInPlace ==
    /\ answer = "ok" => at \in {"answered", "idle"}
    /\ at = "answered" /\ answer = "ok" => copies > 0

\* The chat has received what it acknowledged, and otherwise only what was lost.
CopiesAccounted == copies <= unheard + (IF answer = "ok" THEN 1 ELSE 0)

\* The longest that a call sleeps between attempt n and the next.
LongestDelay(n) == IF BaseDelay * 2^n > MaxDelay THEN BaseDelay * 2^n ELSE MaxDelay

\* A call has waited no longer than the attempts behind it explain, and the wait it
\* is in is one that the next attempt explains.
WaitAccounted ==
    /\ waited \in Nat /\ waited <= LongestWait[attempt]
    /\ at = "asleep" => delay <= LongestDelay(attempt)

DeliveryInv ==
    /\ TypeOK /\ delay \in Nat
    /\ AnswerInPlace /\ CopiesAccounted /\ TopicOfItsModule /\ WaitAccounted

LEMMA Constants ==
    MaxRetries \in Nat /\ MaxDelay \in Nat /\ Cooldown \in Nat /\ RetryAfters \subseteq Nat
BY DeliveryAssumption

\* Every wait is a time.
LEMMA WaitsAreTimes ==
    ASSUME attempt \in 0..MaxRetries
    PROVE  Waits \subseteq Nat
BY BackoffAssumption, Constants DEF Waits

\* However far time moves on, a cooldown stays one.
LEMMA ElapseTyped ==
    ASSUME TypeOK, NEW t \in Nat, Elapse(t)
    PROVE  cooldown' \in [Assets -> [left : 0..Cooldown, metric : Nat]]
<1>. SUFFICES ASSUME NEW a \in Assets
              PROVE  [cooldown[a] EXCEPT !.left = IF @ > t THEN @ - t ELSE 0]
                         \in [left : 0..Cooldown, metric : Nat]
  BY DEF Elapse
<1>1. cooldown[a] \in [left : 0..Cooldown, metric : Nat]
  BY DEF TypeOK
<1>2. (IF cooldown[a].left > t THEN cooldown[a].left - t ELSE 0) \in 0..Cooldown
  BY <1>1, Constants
<1> QED
  BY <1>1, <1>2

\* The topic is that of a module of the alert.
LEMMA TopicFits ==
    ASSUME NEW a \in Alerts
    PROVE  Topic(a) \in a.modules \cup {"general"}
<1>1. a.modules \subseteq Modules
  BY DeliveryAssumption
<1>2. CASE "futures-futures-spread" \in a.modules
  BY <1>2 DEF Topic, RoutedModule
<1>3. CASE "futures-futures-spread" \notin a.modules /\ "spot-futures-spread" \in a.modules
  BY <1>3 DEF Topic, RoutedModule
<1>4. CASE a.modules \subseteq {"funding-spread", "dex-futures-spread"}
           /\ "funding-spread" \in a.modules
  BY <1>4 DEF Topic, RoutedModule
<1>5. CASE a.modules = {"dex-futures-spread"}
  BY <1>5 DEF Topic, RoutedModule
<1>6. CASE a.modules = {}
  BY <1>6 DEF Topic, RoutedModule
<1> QED
  BY <1>1, <1>2, <1>3, <1>4, <1>5, <1>6 DEF Modules

\* The chat received what Telegram acknowledges.
LEMMA OutcomesFit ==
    ASSUME NEW o \in Outcomes
    PROVE  o.received \in BOOLEAN /\ (o.answer = "ok" => o.received)
<1>1. CASE o \in [answer : {"5xx", "network", "unreadable"}, received : BOOLEAN]
  <2>1. o.answer \in {"5xx", "network", "unreadable"} /\ o.received \in BOOLEAN
    BY <1>1
  <2> QED
    BY <2>1
<1>2. CASE o = [answer |-> "ok", received |-> TRUE]
  <2>1. o.received = TRUE
    BY <1>2
  <2> QED
    BY <2>1
<1>3. CASE o = [answer |-> "429", received |-> FALSE]
           \/ o = [answer |-> "4xx", received |-> FALSE]
           \/ o = [answer |-> "not_ok", received |-> FALSE]
  <2>1. o.answer \in {"429", "4xx", "not_ok"} /\ o.received = FALSE
    BY <1>3
  <2> QED
    BY <2>1
<1> QED
  BY <1>1, <1>2, <1>3 DEF Outcomes

-----------------------------------------------------------------------------
(* The bound on the waits *)

\* The least-element principle, for sets instead of predicates.
LEMMA LeastElement ==
    ASSUME NEW T \in SUBSET Nat, T # {}
    PROVE  \E x \in T : \A y \in T : x <= y
<1>. DEFINE R == OpToRel(<, Nat)
<1>1. IsWellFoundedOn(R, Nat)
  BY NatLessThanWellFounded
<1>2. PICK x \in T : \A y \in T : <<y, x>> \notin R
  <2>. HIDE DEF R
  <2> QED
    BY <1>1, WFMin
<1>3. ASSUME NEW y \in T PROVE x <= y
  <2>1. ~(y < x)
    BY <1>2 DEF OpToRel
  <2> QED
    BY <2>1
<1> QED
  BY <1>3

\* Induction, for a set instead of a predicate.
LEMMA SetInduction ==
    ASSUME NEW T, 0 \in T, \A n \in Nat : n \in T => n + 1 \in T
    PROVE  Nat \subseteq T
<1>1. SUFFICES ASSUME Nat \ T # {} PROVE FALSE
  OBVIOUS
<1>2. PICK x \in Nat \ T : \A y \in Nat \ T : x <= y
  BY <1>1, LeastElement
<1>3. x # 0 /\ x - 1 \in Nat
  BY <1>2
<1>4. x - 1 \in T
  BY <1>2, <1>3
<1> QED
  BY <1>2, <1>3, <1>4

\* The sums of a sequence of terms exist as a function on all numbers.
LEMMA SumsExist ==
    ASSUME NEW c
    PROVE  \E f : f = [n \in Nat |-> IF n = 0 THEN 0 ELSE f[n - 1] + c[n - 1]]
<1>. DEFINE Sums(f, n) == /\ f[0] = 0
                          /\ \A k \in 1..n : f[k] = f[k - 1] + c[k - 1]
<1>1. \A n \in Nat : \E f : Sums(f, n)
  <2>. DEFINE T == {n \in Nat : \E f : Sums(f, n)}
  <2>1. 0 \in T
    <3>1. Sums([k \in {0} |-> 0], 0)
      OBVIOUS
    <3> QED
      BY <3>1
  <2>2. ASSUME NEW n \in Nat, n \in T PROVE n + 1 \in T
    <3>1. PICK f : Sums(f, n)
      BY <2>2
    <3>. DEFINE g == [k \in 0..(n + 1) |-> IF k <= n THEN f[k] ELSE f[n] + c[n]]
    <3>2. g[0] = 0
      BY <3>1
    <3>3. ASSUME NEW k \in 1..(n + 1) PROVE g[k] = g[k - 1] + c[k - 1]
      <4>1. CASE k <= n
        <5>1. k \in 1..n /\ k \in 0..(n + 1) /\ k - 1 \in 0..(n + 1) /\ k - 1 <= n
          BY <4>1
        <5>2. g[k] = f[k] /\ g[k - 1] = f[k - 1]
          BY <4>1, <5>1
        <5> QED
          BY <3>1, <5>1, <5>2
      <4>2. CASE k = n + 1
        <5>1. k \in 0..(n + 1) /\ ~(k <= n) /\ k - 1 = n /\ n \in 0..(n + 1) /\ n <= n
          BY <4>2
        <5>2. g[k] = f[n] + c[n]
          BY <5>1
        <5>3. g[k - 1] = f[n]
          BY <5>1
        <5> QED
          BY <5>1, <5>2, <5>3
      <4> QED
        BY <4>1, <4>2
    <3>. HIDE DEF g
    <3>4. Sums(g, n + 1)
      BY <3>2, <3>3
    <3> QED
      BY <3>4
  <2>. HIDE DEF T
  <2>3. Nat \subseteq T
    BY <2>1, <2>2, SetInduction
  <2> QED
    BY <2>3 DEF T
<1>2. \A m \in Nat : \A n, p \in Nat : \A f, g :
         m <= n /\ m <= p /\ Sums(f, n) /\ Sums(g, p) => f[m] = g[m]
  <2>. DEFINE T == {m \in Nat : \A n, p \in Nat : \A f, g :
                       m <= n /\ m <= p /\ Sums(f, n) /\ Sums(g, p) => f[m] = g[m]}
  <2>1. 0 \in T
    OBVIOUS
  <2>2. ASSUME NEW m \in Nat, m \in T PROVE m + 1 \in T
    <3>. SUFFICES ASSUME NEW n \in Nat, NEW p \in Nat, NEW f, NEW g,
                         m + 1 <= n, m + 1 <= p, Sums(f, n), Sums(g, p)
                  PROVE  f[m + 1] = g[m + 1]
      OBVIOUS
    <3>1. f[m] = g[m]
      <4>. HIDE DEF Sums
      <4>1. m <= n /\ m <= p
        OBVIOUS
      <4> QED
        BY <2>2, <4>1
    <3>2. m + 1 \in 1..n /\ m + 1 \in 1..p /\ (m + 1) - 1 = m
      OBVIOUS
    <3>3. f[m + 1] = f[m] + c[m] /\ g[m + 1] = g[m] + c[m]
      BY <3>2
    <3> QED
      BY <3>1, <3>3
  <2>. HIDE DEF T
  <2>3. Nat \subseteq T
    BY <2>1, <2>2, SetInduction
  <2> QED
    BY <2>3 DEF T
<1>. DEFINE s(n) == CHOOSE f : Sums(f, n)
            sum == [n \in Nat |-> s(n)[n]]
<1>3. \A n \in Nat : Sums(s(n), n)
  BY <1>1
<1>4. ASSUME NEW n \in Nat
      PROVE  s(n)[n] = IF n = 0 THEN 0 ELSE sum[n - 1] + c[n - 1]
  <2>. HIDE DEF s
  <2>1. CASE n = 0
    BY <1>3, <2>1
  <2>2. CASE n # 0
    <3>1. n - 1 \in Nat /\ n \in 1..n
      BY <2>2
    <3>2. s(n)[n] = s(n)[n - 1] + c[n - 1]
      BY <1>3, <3>1
    <3>3. s(n)[n - 1] = s(n - 1)[n - 1]
      <4>1. Sums(s(n), n) /\ Sums(s(n - 1), n - 1) /\ n - 1 <= n /\ n - 1 <= n - 1
        BY <1>3, <3>1
      <4>. HIDE DEF Sums
      <4> QED
        BY <1>2, <3>1, <4>1
    <3> QED
      BY <2>2, <3>1, <3>2, <3>3
  <2> QED
    BY <2>1, <2>2
<1>5. sum = [n \in Nat |-> IF n = 0 THEN 0 ELSE sum[n - 1] + c[n - 1]]
  <2>. HIDE DEF s
  <2> QED
    BY <1>4
<1>. HIDE DEF sum
<1> QED
  BY <1>5

\* LongestWait adds them up.
LEMMA LongestWaitSums ==
    /\ LongestWait[0] = 0
    /\ \A n \in Nat : LongestWait[n + 1] = LongestWait[n] + LongestDelay(n)
<1>. DEFINE c == [n \in Nat |-> LongestDelay(n)]
            Sum(f) == [n \in Nat |->
                         IF n = 0 THEN 0
                         ELSE f[n - 1] + (IF BaseDelay * 2^(n - 1) > MaxDelay
                                          THEN BaseDelay * 2^(n - 1) ELSE MaxDelay)]
<1>1. PICK f : f = [n \in Nat |-> IF n = 0 THEN 0 ELSE f[n - 1] + c[n - 1]]
  BY SumsExist
<1>2. ASSUME NEW n \in Nat
      PROVE  (IF n = 0 THEN 0 ELSE f[n - 1] + c[n - 1]) = Sum(f)[n]
  BY DEF LongestDelay
<1>3. f = Sum(f)
  BY <1>1, <1>2
<1>4. LongestWait = Sum(LongestWait)
  BY <1>3 DEF LongestWait
<1>5. \A n \in Nat : n + 1 \in Nat /\ n + 1 # 0 /\ (n + 1) - 1 = n
  OBVIOUS
<1>6. LongestWait[0] = 0
  BY <1>4
<1>7. ASSUME NEW n \in Nat PROVE LongestWait[n + 1] = LongestWait[n] + LongestDelay(n)
  BY <1>4, <1>5 DEF LongestDelay
<1> QED
  BY <1>6, <1>7

\* As far as attempts are made, the bound is a time and only grows.
LEMMA LongestWaitGrows ==
    /\ \A n \in 0..MaxRetries : LongestDelay(n) \in Nat /\ LongestWait[n] \in Nat
    /\ \A n \in 0..MaxRetries : LongestWait[n] <= LongestWait[MaxRetries]
<1>1. \A n \in 0..MaxRetries : LongestDelay(n) \in Nat
  BY BackoffAssumption, Constants DEF LongestDelay
<1>2. \A n \in 0..MaxRetries : LongestWait[n] \in Nat
  <2>. DEFINE T == {n \in Nat : n <= MaxRetries => LongestWait[n] \in Nat}
  <2>1. 0 \in T
    BY LongestWaitSums
  <2>2. ASSUME NEW n \in Nat, n \in T PROVE n + 1 \in T
    <3>. SUFFICES ASSUME n + 1 <= MaxRetries PROVE LongestWait[n + 1] \in Nat
      OBVIOUS
    <3>1. n \in 0..MaxRetries /\ LongestWait[n] \in Nat
      BY <2>2, Constants
    <3> QED
      BY <1>1, <3>1, LongestWaitSums
  <2>. HIDE DEF T
  <2>3. Nat \subseteq T
    BY <2>1, <2>2, SetInduction
  <2> QED
    BY <2>3, Constants DEF T
<1>3. \A n \in 0..MaxRetries : LongestWait[n] <= LongestWait[MaxRetries]
  <2>. DEFINE T == {d \in Nat : d <= MaxRetries =>
                       LongestWait[MaxRetries - d] <= LongestWait[MaxRetries]}
  <2>1. 0 \in T
    BY <1>2, Constants
  <2>2. ASSUME NEW d \in Nat, d \in T PROVE d + 1 \in T
    <3>. SUFFICES ASSUME d + 1 <= MaxRetries
                  PROVE  LongestWait[MaxRetries - (d + 1)] <= LongestWait[MaxRetries]
      OBVIOUS
    <3>. DEFINE n == MaxRetries - (d + 1)
    <3>1. n \in 0..MaxRetries /\ n + 1 \in 0..MaxRetries /\ n + 1 = MaxRetries - d
      BY Constants
    <3>2. LongestWait[n + 1] <= LongestWait[MaxRetries]
      <4>1. LongestWait[MaxRetries - d] <= LongestWait[MaxRetries]
        BY <2>2, Constants
      <4>. HIDE DEF n
      <4> QED
        BY <3>1, <4>1
    <3>3. LongestWait[n + 1] = LongestWait[n] + LongestDelay(n)
      BY <3>1, LongestWaitSums
    <3>4. MaxRetries \in 0..MaxRetries
      BY Constants
    <3>. HIDE DEF n
    <3>5. LongestWait[n] <= LongestWait[MaxRetries]
      BY <1>1, <1>2, <3>1, <3>2, <3>3, <3>4
    <3> QED
      BY <3>5 DEF n
  <2>. HIDE DEF T
  <2>3. Nat \subseteq T
    BY <2>1, <2>2, SetInduction
  <2>4. ASSUME NEW n \in 0..MaxRetries PROVE LongestWait[n] <= LongestWait[MaxRetries]
    <3>1. MaxRetries - n \in T /\ MaxRetries - n <= MaxRetries
          /\ MaxRetries - (MaxRetries - n) = n
      BY <2>3, Constants
    <3> QED
      BY <3>1 DEF T
  <2> QED
    BY <2>4
<1> QED
  BY <1>1, <1>2, <1>3

\* A wait is at most half a minute, or the backoff where that is longer.
LEMMA WaitsBounded ==
    ASSUME attempt \in 0..MaxRetries, NEW t \in Waits
    PROVE  t <= LongestDelay(attempt)
BY BackoffAssumption, Constants DEF Waits, LongestDelay

LEMMA InitInv == Init => DeliveryInv
<1>. SUFFICES ASSUME Init PROVE DeliveryInv
  OBVIOUS
<1>1. cooldown \in [Assets -> [left : 0..Cooldown, metric : Nat]]
  BY Constants DEF Init, NoCooldown
<1> QED
  BY <1>1, DeliveryAssumption, LongestWaitSums DEF Init, DeliveryInv, TypeOK,
       AnswerInPlace, CopiesAccounted, TopicOfItsModule, WaitAccounted

\* A call begins with its own topic, and with no attempt behind it.
LEMMA BeginInv ==
    ASSUME DeliveryInv, NEW a \in Alerts, Begin(a)
    PROVE  DeliveryInv'
<1>1. cooldown' \in [Assets -> [left : 0..Cooldown, metric : Nat]]
  <2>1. [left |-> Cooldown, metric |-> a.metric] \in [left : 0..Cooldown, metric : Nat]
    BY DeliveryAssumption
  <2> QED
    BY <2>1 DEF Begin, DeliveryInv, TypeOK
<1>2. TopicOfItsModule'
  BY TopicFits DEF Begin, TopicOfItsModule
<1>3. TypeOK'
  BY <1>1, DeliveryAssumption DEF Begin, DeliveryInv, TypeOK
<1> QED
  BY <1>2, <1>3, LongestWaitSums DEF Begin, DeliveryInv, AnswerInPlace, CopiesAccounted,
       WaitAccounted

LEMMA StepInv == DeliveryInv /\ [Next]_vars => DeliveryInv'
<1>. SUFFICES ASSUME DeliveryInv, [Next]_vars PROVE DeliveryInv'
  OBVIOUS
<1>. USE DEF DeliveryInv, TypeOK, AnswerInPlace, CopiesAccounted, TopicOfItsModule,
            WaitAccounted
<1>1. ASSUME Unconfigured \/ \E a \in Alerts : Throttle(a) PROVE DeliveryInv'
  BY <1>1, DeliveryAssumption DEF Unconfigured, Throttle
<1>2. CASE Post
  <2>1. PICK o \in Outcomes :
          /\ answer' = o.answer
          /\ copies' = IF o.received THEN copies + 1 ELSE copies
          /\ unheard' = IF o.received /\ o.answer # "ok" THEN unheard + 1 ELSE unheard
    BY <1>2 DEF Post
  <2>2. /\ o.answer = "ok" => o.received
        /\ o.received \in BOOLEAN
    BY OutcomesFit
  <2> QED
    BY <1>2, <2>1, <2>2, Constants DEF Post
<1>3. CASE Sent \/ Refused \/ Unreadable \/ GiveUp
  BY <1>3 DEF Sent, Refused, Unreadable, GiveUp, EndWith, call
<1>4. CASE Retry
  <2>1. delay' \in Nat
    BY <1>4, WaitsAreTimes DEF Retry
  <2>2. delay' <= LongestDelay(attempt)
    BY <1>4, WaitsBounded DEF Retry
  <2> QED
    BY <1>4, <2>1, <2>2, Constants DEF Retry, MayRetry, Transient, LongestDelay
<1>5. CASE WakeUp
  <2>1. cooldown' \in [Assets -> [left : 0..Cooldown, metric : Nat]]
    BY <1>5, ElapseTyped DEF WakeUp
  <2>2. attempt' = attempt + 1 /\ attempt' \in 0..MaxRetries /\ at' = "post"
    BY <1>5, Constants DEF WakeUp
  <2>3. waited' \in Nat /\ waited' <= LongestWait[attempt']
    <3>1. waited' = waited + delay /\ delay <= LongestDelay(attempt)
      BY <1>5 DEF WakeUp
    <3>2. LongestWait[attempt'] = LongestWait[attempt] + LongestDelay(attempt)
      BY <2>2, LongestWaitSums
    <3>3. LongestWait[attempt] \in Nat /\ LongestDelay(attempt) \in Nat
      BY LongestWaitGrows
    <3> QED
      BY <3>1, <3>2, <3>3
  <2> QED
    BY <1>5, <2>1, <2>2, <2>3 DEF WakeUp
<1>6. CASE TimePasses
  <2>1. cooldown' \in [Assets -> [left : 0..Cooldown, metric : Nat]]
    BY <1>6, ElapseTyped DEF TimePasses
  <2> QED
    BY <1>6, <2>1 DEF TimePasses, call
<1>7. CASE Dies
  <2>1. cooldown' \in [Assets -> [left : 0..Cooldown, metric : Nat]]
    BY <1>7, Constants DEF Dies, NoCooldown
  <2> QED
    BY <1>7, <2>1, DeliveryAssumption DEF Dies, call
<1>8. CASE UNCHANGED vars
  BY <1>8 DEF vars, call
<1> QED
  BY <1>1, <1>2, <1>3, <1>4, <1>5, <1>6, <1>7, <1>8, BeginInv DEF Next, Notifier

LEMMA DeliveryInvariant == Spec => []DeliveryInv
BY InitInv, StepInv, PTL DEF Spec

\* The loop counts its attempts and copies as its comments say, and waits only
\* before an attempt that is left.
THEOREM DeliveryTyped == Spec => []TypeOK
BY DeliveryInvariant, PTL DEF DeliveryInv

\* A chat gets a message twice only when an answer about it was lost.
THEOREM CopiesWereUnheard == Spec => []CopiesAreUnheard
<1>1. DeliveryInv => CopiesAreUnheard
  BY DEF DeliveryInv, TypeOK, CopiesAccounted, CopiesAreUnheard
<1> QED
  BY <1>1, DeliveryInvariant, PTL

\* However long Telegram asks a call to wait, and however its attempts fail, it keeps
\* the worker no longer than the configured attempts and the cap explain.
THEOREM CallsWaitBounded == Spec => []WaitBounded
<1>1. DeliveryInv => WaitBounded
  <2>. SUFFICES ASSUME DeliveryInv PROVE waited <= LongestWait[MaxRetries]
    BY DEF WaitBounded
  <2>1. attempt \in 0..MaxRetries /\ MaxRetries \in 0..MaxRetries
        /\ waited \in Nat /\ waited <= LongestWait[attempt]
    BY Constants DEF DeliveryInv, TypeOK, WaitAccounted
  <2> QED
    BY <2>1, LongestWaitGrows
<1> QED
  BY <1>1, DeliveryInvariant, PTL

\* An alert goes to the topic of a module that raised it, or to the general one.
THEOREM TopicsFit == Spec => []TopicOfItsModule
BY DeliveryInvariant, PTL DEF DeliveryInv

\* A step of the loop is a step of the call it implements, or none.
LEMMA StepIsCallStep ==
    ASSUME DeliveryInv, [Next]_vars
    PROVE  [Call!BeginCall \/ Call!Receive \/ Call!EndCall]_(Call!callVars)
<1>. USE DEF DeliveryInv, TypeOK, AnswerInPlace
<1>1. ASSUME NEW a \in Alerts, Throttle(a) \/ Begin(a) PROVE Call!BeginCall
  BY <1>1 DEF Throttle, Begin, Call!BeginCall
<1>8. CASE Unconfigured
  BY <1>8 DEF Unconfigured, Call!BeginCall
<1>2. CASE Post
  <2>1. copies' = copies \/ copies' = copies + 1
    BY <1>2 DEF Post
  <2> QED
    BY <1>2, <2>1, Constants DEF Post, Call!Receive, Call!callVars
<1>3. CASE Sent \/ Unreadable \/ Refused \/ GiveUp
  BY <1>3 DEF Sent, Unreadable, Refused, GiveUp, EndWith, call, Call!EndCall
<1>4. CASE Retry
  BY <1>4 DEF Retry, Call!callVars
<1>5. CASE WakeUp
  BY <1>5, Constants DEF WakeUp, Call!callVars
<1>6. CASE TimePasses \/ UNCHANGED vars
  BY <1>6 DEF TimePasses, vars, call, Call!callVars
<1>7. CASE Dies
  BY <1>7 DEF Dies, call, Call!EndCall, Call!callVars
<1> QED
  BY <1>1, <1>2, <1>3, <1>4, <1>5, <1>6, <1>7, <1>8 DEF Next, Notifier

\* send_alert returns only after the chat received the message or the alert was
\* throttled, and tries no more often than it is configured to.
THEOREM DeliveryKeepsItsPromise == Spec => KeepsItsPromise
<1>1. Init => Call!CallInit
  BY DEF Init, Call!CallInit
<1> QED
  BY <1>1, StepIsCallStep, DeliveryInvariant, PTL DEF Spec, KeepsItsPromise, Call!CallSpec
=============================================================================
