------------------------- MODULE IdempotentDelivery -------------------------
(***************************************************************************)
(* What the message gateway promises for one idempotency key: the key is   *)
(* reserved durably before anything is sent, at most one message exists    *)
(* remotely, and the durable answer, once recorded, names that message and *)
(* never changes.                                                          *)
(***************************************************************************)
CONSTANT Messages

VARIABLES
    status,   \* of the key: "unused", "open" or "recorded"
    answer,   \* the recorded message, as a set of at most one
    sent      \* the messages that exist at Telegram

vars == <<status, answer, sent>>

Init == status = "unused" /\ answer = {} /\ sent = {}

Open == /\ status = "unused"
        /\ status' = "open"
        /\ UNCHANGED <<answer, sent>>

Send == /\ status # "unused"
        /\ sent = {}
        /\ \E m \in Messages : sent' = {m}
        /\ UNCHANGED <<status, answer>>

Record == /\ status = "open"
          /\ status' = "recorded"
          /\ \E m \in sent : answer' = {m}
          /\ UNCHANGED sent

Next == Open \/ Send \/ Record

Spec == Init /\ [][Next]_vars
=============================================================================
