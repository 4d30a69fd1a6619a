--------------------------- MODULE TelegramDelivery ---------------------------
(***************************************************************************)
(* send_alert of made_core/infrastructure/telegram/notifier.py attempt by  *)
(* attempt, for the calls a worker makes one after the other: what         *)
(* Telegram answers to each, the waits between them, the cooldown of       *)
(* funding alerts, which runs on meanwhile, and the end of the process.    *)
(* TelegramNotifier takes a whole call as one step of the worker.          *)
(***************************************************************************)
EXTENDS Naturals

CONSTANTS
    Alerts,       \* alerts: their modules, asset and funding metric
    Assets,
    Topics,       \* configured topics; the rest go to the general one
    MaxRetries,   \* telegram_max_retries
    BaseDelay,    \* telegram_retry_base_delay_seconds
    MaxDelay,     \* 30 seconds
    RetryAfters,  \* what Telegram may ask for in parameters.retry_after
    Cooldown,     \* funding_alert_cooldown_seconds
    MinChange,    \* funding_alert_min_change_percent
    NoAlert,
    MaxCalls,     \* bound: calls
    MaxCrashes    \* bound: ends of the process

Modules == {"futures-futures-spread", "spot-futures-spread",
            "dex-futures-spread", "funding-spread"}

ASSUME DeliveryAssumption ==
    /\ \A a \in Alerts : /\ a.modules \subseteq Modules
                         /\ a.asset \in Assets /\ a.metric \in Nat
    /\ NoAlert \notin Alerts
    /\ Topics \subseteq Modules
    /\ MaxRetries \in Nat /\ BaseDelay \in Nat /\ MaxDelay \in Nat
    /\ RetryAfters \subseteq Nat
    /\ Cooldown \in Nat /\ MinChange \in Nat
    /\ MaxCalls \in Nat /\ MaxCrashes \in Nat

\* The delays of the backoff are times.
ASSUME BackoffAssumption == \A n \in 0..MaxRetries : BaseDelay * 2^n \in Nat

VARIABLES
    configured,  \* a bot token and a chat id are set, for good
    at,        \* where the call is: "idle", "post", "answered" or "asleep"
    alert,     \* its alert
    attempt,   \* its current attempt, from 0
    answer,    \* what came of the last POST
    delay,     \* the wait that is due
    waited,    \* time the call has spent waiting
    copies,    \* messages of this call that the chat received
    unheard,   \* of those, the ones the call was not told about
    topic,     \* message_thread_id
    result,    \* how the last call ended
    cooldown,  \* _funding_alert_cooldowns
    calls, crashes

call == <<alert, attempt, answer, delay, waited, copies, unheard, topic>>
vars == <<configured, at, call, result, cooldown, calls, crashes>>

NoCooldown == [left |-> 0, metric |-> 0]

Init ==
    /\ configured \in BOOLEAN
    /\ at = "idle" /\ alert = NoAlert /\ attempt = 0 /\ answer = "none"
    /\ delay = 0 /\ waited = 0 /\ copies = 0 /\ unheard = 0
    /\ topic = "general" /\ result = "none"
    /\ cooldown = [a \in Assets |-> NoCooldown]
    /\ calls = 0 /\ crashes = 0

-----------------------------------------------------------------------------
(* The call up to its first attempt *)

AbsDiff(x, y) == IF x < y THEN y - x ELSE x - y

\* The alerts that the throttle looks at.
Funding(a) ==
    "funding-spread" \in a.modules /\ "futures-futures-spread" \notin a.modules

Throttled(a) ==
    /\ Funding(a)
    /\ cooldown[a.asset].left > 0
    /\ AbsDiff(a.metric, cooldown[a.asset].metric) < MinChange

\* Mutant: whatever no price module raised is taken for a funding alert.
FundingByDefault(a) ==
    CASE "futures-futures-spread" \in a.modules -> "futures-futures-spread"
      [] a.modules \cap {"futures-futures-spread", "spot-futures-spread"}
           = {"spot-futures-spread"} -> "spot-futures-spread"
      [] OTHER -> "funding-spread"

\* The module whose topic is meant.
RoutedModule(a) ==
    CASE a.modules \subseteq {"funding-spread", "dex-futures-spread"}
           /\ "funding-spread" \in a.modules -> "funding-spread"
      [] "futures-futures-spread" \in a.modules -> "futures-futures-spread"
      [] "futures-futures-spread" \notin a.modules
           /\ "spot-futures-spread" \in a.modules -> "spot-futures-spread"
      [] a.modules = {"dex-futures-spread"} -> "dex-futures-spread"
      [] a.modules = {} -> "general"

\* get_target_topic_id
Topic(a) == IF RoutedModule(a) \in Topics THEN RoutedModule(a) ELSE "general"

\* Without a token or a chat id the call raises before it does anything.
Unconfigured ==
    /\ at = "idle" /\ calls < MaxCalls
    /\ ~configured
    /\ calls' = calls + 1
    /\ result' = "raised" /\ copies' = 0
    /\ UNCHANGED <<configured, at, alert, attempt, answer, delay, waited, unheard, topic,
                   cooldown, crashes>>

Throttle(a) ==
    /\ at = "idle" /\ calls < MaxCalls
    /\ configured
    /\ Throttled(a)
    /\ calls' = calls + 1
    /\ result' = "throttled" /\ copies' = 0
    /\ UNCHANGED <<configured, at, alert, attempt, answer, delay, waited, unheard, topic,
                   cooldown, crashes>>

\* The cooldown starts before the message is sent.
Begin(a) ==
    /\ at = "idle" /\ calls < MaxCalls
    /\ configured
    /\ ~Throttled(a)
    /\ calls' = calls + 1
    /\ at' = "post" /\ alert' = a /\ attempt' = 0 /\ answer' = "none"
    /\ delay' = 0 /\ waited' = 0 /\ copies' = 0 /\ unheard' = 0
    /\ topic' = Topic(a) /\ result' = "none"
    /\ cooldown' = IF Funding(a)
                   THEN [cooldown EXCEPT ![a.asset] = [left |-> Cooldown, metric |-> a.metric]]
                   ELSE cooldown
    /\ UNCHANGED <<configured, crashes>>

-----------------------------------------------------------------------------
(* An attempt *)

\* What may come of a POST, and whether the chat received the message then: "ok"
\* only if it did, a refusal only if it did not, and nobody knows about an error of
\* the server or the network and about an answer that cannot be read: that of Telegram,
\* or a redirect or page of something in between.
Outcomes ==
    {[answer |-> "ok", received |-> TRUE], [answer |-> "429", received |-> FALSE],
     [answer |-> "4xx", received |-> FALSE], [answer |-> "not_ok", received |-> FALSE]}
    \cup [answer : {"5xx", "network", "unreadable"}, received : BOOLEAN]

Post ==
    /\ at = "post"
    /\ at' = "answered"
    /\ \E o \in Outcomes :
         /\ answer' = o.answer
         /\ copies' = IF o.received THEN copies + 1 ELSE copies
         /\ unheard' = IF o.received /\ o.answer # "ok" THEN unheard + 1 ELSE unheard
    /\ UNCHANGED <<configured, alert, attempt, delay, waited, topic, result, cooldown,
                   calls, crashes>>

EndWith(r) ==
    /\ at' = "idle"
    /\ result' = r
    /\ UNCHANGED <<configured, call, cooldown, calls, crashes>>

Sent ==
    /\ at = "answered" /\ answer = "ok"
    /\ EndWith("returned")

\* Mutant: the body of a successful answer is not looked at.
StatusIsEnough ==
    /\ at = "answered" /\ answer \in {"4xx", "not_ok"}
    /\ EndWith(IF answer = "4xx" THEN "raised" ELSE "returned")

\* A client error, or a body without ok: not retried.
Refused ==
    /\ at = "answered" /\ answer \in {"4xx", "not_ok"}
    /\ EndWith("raised")

\* The body cannot be decoded (client.post) or parsed (response.json()): what is raised
\* then is not caught here, and the call is not repeated.
Unreadable ==
    /\ at = "answered" /\ answer = "unreadable"
    /\ EndWith("escaped")

Transient == {"429", "5xx", "network"}

\* Mutant: Telegram may ask for any wait.
AnyWait == {BaseDelay * 2^attempt} \cup IF answer = "429" THEN RetryAfters ELSE {}

\* The wait before the next attempt: exponential, or as long as Telegram asks, up to
\* half a minute.
Waits ==
    {BaseDelay * 2^attempt}
    \cup IF answer = "429"
         THEN {IF r < MaxDelay THEN r ELSE MaxDelay : r \in RetryAfters} ELSE {}

\* Mutant: the last attempt is treated like the others.
OneMore == attempt <= MaxRetries

MayRetry == attempt < MaxRetries

Retry ==
    /\ at = "answered" /\ answer \in Transient
    /\ MayRetry
    /\ at' = "asleep"
    /\ delay' \in Waits
    /\ UNCHANGED <<configured, alert, attempt, answer, waited, copies, unheard, topic,
                   result, cooldown, calls, crashes>>

GiveUp ==
    /\ at = "answered" /\ answer \in Transient
    /\ ~MayRetry
    /\ EndWith("raised")

\* Time passes for all cooldowns.
Elapse(t) ==
    cooldown' = [a \in Assets |->
        [cooldown[a] EXCEPT !.left = IF @ > t THEN @ - t ELSE 0]]

\* The end of the wait: the loop goes on, or, past its range, send_alert returns.
WakeUp ==
    /\ at = "asleep"
    /\ Elapse(delay)
    /\ waited' = waited + delay /\ delay' = 0
    /\ attempt' = attempt + 1
    /\ at' = IF attempt' <= MaxRetries THEN "post" ELSE "idle"
    /\ result' = IF attempt' <= MaxRetries THEN result ELSE "returned"
    /\ UNCHANGED <<configured, alert, answer, copies, unheard, topic, calls, crashes>>

-----------------------------------------------------------------------------
\* Time passes between two calls.
TimePasses ==
    /\ at = "idle"
    /\ \E a \in Assets : cooldown[a].left > 0
    /\ Elapse(1)
    /\ UNCHANGED <<configured, at, call, result, calls, crashes>>

\* The process ends, and its notifier with it.
Dies ==
    /\ crashes < MaxCrashes
    /\ crashes' = crashes + 1
    /\ at' = "idle"
    /\ result' = IF at = "idle" THEN result ELSE "died"
    /\ cooldown' = [a \in Assets |-> NoCooldown]
    /\ UNCHANGED <<configured, call, calls>>

Notifier == Post \/ Sent \/ Refused \/ Unreadable \/ Retry \/ GiveUp \/ WakeUp

Next ==
    \/ Unconfigured
    \/ \E a \in Alerts : Throttle(a) \/ Begin(a)
    \/ Notifier
    \/ TimePasses
    \/ Dies

Spec == Init /\ [][Next]_vars

-----------------------------------------------------------------------------
(* Properties *)

\* A call that is under way has an alert, counts its attempts up to MaxRetries, sends
\* one message with each, and sleeps only before an attempt that is left.
TypeOK ==
    /\ configured \in BOOLEAN /\ at \in {"idle", "post", "answered", "asleep"}
    /\ alert \in Alerts \cup {NoAlert}
    /\ at # "idle" => alert # NoAlert /\ result = "none"
    /\ attempt \in 0..MaxRetries
    /\ at = "asleep" => attempt < MaxRetries
    /\ copies \in Nat /\ unheard \in Nat
    /\ copies <= attempt + (IF at = "post" THEN 0 ELSE 1)
    /\ cooldown \in [Assets -> [left : 0..Cooldown, metric : Nat]]
    /\ calls \in 0..MaxCalls /\ crashes \in 0..MaxCrashes

Call == INSTANCE AlertCall
        WITH MaxAttempts <- MaxRetries + 1, calling <- at # "idle"

\* send_alert keeps what a worker relies on when it marks the alert as sent: it returns
\* only if the chat has the message or the alert was throttled.  Every way out of the
\* loop of attempts is one that AlertCall allows, and in particular the loop is never
\* left past its last attempt (notifier.py:357-412).
KeepsItsPromise == Call!CallSpec

\* A chat receives a message twice in one call only because an answer was lost: an
\* error of the server or the network about a message that got through.
CopiesAreUnheard == copies <= unheard + 1

\* The longest wait before attempt n: the worker handles nothing else meanwhile.
LongestWait[n \in Nat] ==
    IF n = 0 THEN 0
    ELSE LongestWait[n - 1] + (IF BaseDelay * 2^(n - 1) > MaxDelay
                               THEN BaseDelay * 2^(n - 1) ELSE MaxDelay)

\* However long Telegram asks it to wait, a call keeps the worker no longer than the
\* configured attempts and the cap of half a minute allow (notifier.py:364-374).
WaitBounded == waited <= LongestWait[MaxRetries]

\* An alert goes to the topic of a module that raised it, or to the general one
\* (get_target_topic_id, whatever the order of its conditions).
TopicOfItsModule ==
    at # "idle" => topic \in alert.modules \cup {"general"}
=============================================================================
