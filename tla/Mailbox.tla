------------------------------ MODULE Mailbox -------------------------------
(***************************************************************************)
(* What the notification queue promises about each message: it is         *)
(* suppressed or accepted once, waits until it is sent or given up, is     *)
(* told to its recipient only while it waits, and is called sent only if   *)
(* the recipient was told.  Sent is the end; only given up can be undone.  *)
(***************************************************************************)
CONSTANTS Messages

VARIABLES state,           \* "NONE", "WAITING", "SENT", "FAILED", "SUPPRESSED"
          told             \* the recipient has been told at least once

mailVars == <<state, told>>

Init == /\ state = [m \in Messages |-> "NONE"]
        /\ told = [m \in Messages |-> FALSE]

Become(m, s) == state' = [state EXCEPT ![m] = s] /\ UNCHANGED told

Accept(m)   == state[m] = "NONE" /\ Become(m, "WAITING")
Suppress(m) == state[m] = "NONE" /\ Become(m, "SUPPRESSED")
GiveUp(m)   == state[m] = "WAITING" /\ Become(m, "FAILED")
PutBack(m)  == state[m] = "FAILED" /\ Become(m, "WAITING")
Sent(m)     == state[m] = "WAITING" /\ told[m] /\ Become(m, "SENT")

Tell(m) == /\ state[m] = "WAITING"
           /\ told' = [told EXCEPT ![m] = TRUE]
           /\ UNCHANGED state

Next == \E m \in Messages :
            Accept(m) \/ Suppress(m) \/ Tell(m) \/ Sent(m) \/ GiveUp(m) \/ PutBack(m)

Spec == Init /\ [][Next]_mailVars
=============================================================================
