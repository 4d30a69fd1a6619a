-------------------------- MODULE TelegramNotifier --------------------------
(***************************************************************************)
(* made_core/infrastructure/telegram/notifier.py as one worker uses it:    *)
(* the anti-spam cooldown of funding alerts, kept in the memory of the     *)
(* worker's process, and what reaches the chat.  A whole send_alert (up to *)
(* telegram_max_retries + 1 HTTP attempts) has one of three outcomes: the  *)
(* chat got the message and the call returned, the call raised and the     *)
(* chat got nothing, or the call raised although the chat got the message  *)
(* (the answer was lost).                                                  *)
(***************************************************************************)
EXTENDS Integers, Alerts

CONSTANTS
    Workers,      \* worker processes; docker-compose.yml runs one
    Assets,
    AssetOf,      \* the asset of an event's alert
    MetricOf,     \* fundingSpreadPercent of an event's alert
    Cooldown,     \* funding_alert_cooldown_seconds, in ticks
    MinChange,    \* funding_alert_min_change_percent
    DeliveryCap   \* bound: deliveries are counted up to this number

ASSUME TelegramAssumption ==
    /\ AssetOf \in [Events -> Assets]
    /\ MetricOf \in [Events -> Nat]
    /\ Cooldown \in Nat
    /\ MinChange \in Nat
    /\ DeliveryCap \in Nat \ {0}

VARIABLES
    cooldown,    \* _funding_alert_cooldowns of each worker's notifier
    delivered    \* messages about an event's alert that the chat received

telegramVars == <<cooldown, delivered>>

\* left is the time to the end of the cooldown, 0 when there is none.
NoCooldown == [left |-> 0, metric |-> 0]

TelegramInit ==
    /\ cooldown = [w \in Workers |-> [a \in Assets |-> NoCooldown]]
    /\ delivered = [e \in Events |-> 0]

TelegramTypeOK ==
    /\ cooldown \in [Workers -> [Assets -> [left : 0..Cooldown, metric : Nat]]]
    /\ delivered \in [Events -> 0..DeliveryCap]

-----------------------------------------------------------------------------
AbsDiff(x, y) == IF x < y THEN y - x ELSE x - y

\* Mutant: the throttle looks at every alert of the asset.
ThrottledAny(w, e, kind) ==
    LET last == cooldown[w][AssetOf[e]]
    IN  /\ last.left > 0
        /\ AbsDiff(MetricOf[e], last.metric) < MinChange

\* send_alert returns without sending: the asset is in its cooldown and the
\* funding spread has not moved by MinChange since.
Throttled(w, e, kind) ==
    LET last == cooldown[w][AssetOf[e]]
    IN  /\ kind = "funding"
        /\ last.left > 0
        /\ AbsDiff(MetricOf[e], last.metric) < MinChange

\* The cooldown starts before the first HTTP attempt, whatever becomes of it.
StartCooldown(w, e, kind) ==
    cooldown' = IF kind = "funding"
                THEN [cooldown EXCEPT ![w][AssetOf[e]] =
                        [left |-> Cooldown, metric |-> MetricOf[e]]]
                ELSE cooldown

\* The chat receives the message.
Deliver(e) ==
    delivered' = [delivered EXCEPT ![e] = IF @ < DeliveryCap THEN @ + 1 ELSE @]

\* The notifier is rebuilt with its process.
ForgetCooldowns(w) ==
    cooldown' = [cooldown EXCEPT ![w] = [a \in Assets |-> NoCooldown]]

TelegramTick ==
    /\ cooldown' = [w \in Workers |-> [a \in Assets |->
                      [cooldown[w][a] EXCEPT !.left = IF @ > 0 THEN @ - 1 ELSE @]]]
    /\ UNCHANGED delivered
=============================================================================
