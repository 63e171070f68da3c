---------------------------- MODULE AlertLedger ----------------------------
(***************************************************************************)
(* What the transaction pipeline promises to whoever reads its alerts: a   *)
(* transaction hash is stored once and for all, an alert is only ever sent *)
(* for a stored hash, and no hash is alerted twice.  Redelivered messages, *)
(* concurrent handlers, failures and restarts are invisible here: they are *)
(* stuttering steps.  Processor.tla is shown to implement this.            *)
(***************************************************************************)
EXTENDS Naturals

CONSTANT Hashes

VARIABLES
  stored,  \* hashes in the transactions table
  alerts   \* alerts[h]: alerts that reached the chat for h

vars == <<stored, alerts>>

Init ==
  /\ stored = {}
  /\ alerts = [h \in Hashes |-> 0]

Store(h) ==
  /\ h \notin stored
  /\ stored' = stored \cup {h}
  /\ UNCHANGED alerts

Alert(h) ==
  /\ h \in stored
  /\ alerts[h] = 0
  /\ alerts' = [alerts EXCEPT ![h] = 1]
  /\ UNCHANGED stored

Next == \E h \in Hashes : Store(h) \/ Alert(h)

Spec == Init /\ [][Next]_vars
=============================================================================
