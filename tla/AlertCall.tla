------------------------------ MODULE AlertCall ------------------------------
(***************************************************************************)
(* What a worker may rely on when it awaits send_alert: the call ends in   *)
(* one of the ways below, and it returns only if the chat received the     *)
(* message or the alert was throttled.  While a call lasts the chat may    *)
(* receive the message more than once, but no more often than it is tried. *)
(* However else it ends, the chat may or may not have the message.         *)
(***************************************************************************)
EXTENDS Naturals

CONSTANT MaxAttempts

VARIABLES calling, copies, result

callVars == <<calling, copies, result>>

CallInit == calling = FALSE /\ copies = 0 /\ result = "none"

\* A call begins, or is over at once: throttled, or refused for want of a token or chat.
BeginCall ==
    /\ ~calling
    /\ copies' = 0
    /\ \/ calling' = TRUE /\ result' = "none"
       \/ UNCHANGED calling /\ result' \in {"throttled", "raised"}

\* The chat receives the message.
Receive ==
    /\ calling /\ copies < MaxAttempts
    /\ copies' = copies + 1
    /\ UNCHANGED <<calling, result>>

\* The call returns, raises TelegramNotificationError, lets another exception
\* escape, or ends with the process.
EndCall ==
    /\ calling
    /\ calling' = FALSE
    /\ \/ copies > 0 /\ result' = "returned"
       \/ result' \in {"raised", "escaped", "died"}
    /\ UNCHANGED copies

CallSpec == CallInit /\ [][BeginCall \/ Receive \/ EndCall]_callVars
=============================================================================
