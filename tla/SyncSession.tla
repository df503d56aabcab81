----------------------------- MODULE SyncSession -----------------------------
(***************************************************************************)
(* What a synchronisation call promises its caller, whatever happens to    *)
(* messages, sessions and threads: it returns once, it reports success     *)
(* only for a batch the manager has applied, and a checksum mismatch only  *)
(* if the manager found one.  The manager may also apply a batch whose     *)
(* call has failed, or fails later.  StateSync is built on this promise.   *)
(***************************************************************************)
EXTENDS Naturals, Sequences

VARIABLES
  outcome,   \* per call: "open", "ok", "failed" or "mismatch"
  applied,   \* calls whose batch, as a whole, the manager has applied
  differing  \* calls whose checksum the manager has found to differ

sessionVars == <<outcome, applied, differing>>

Init ==
  /\ outcome = <<>>
  /\ applied = {}
  /\ differing = {}

Call ==
  /\ outcome' = Append(outcome, "open")
  /\ UNCHANGED <<applied, differing>>

Decide ==
  /\ applied \subseteq applied' /\ applied' \subseteq DOMAIN outcome
  /\ differing \subseteq differing' /\ differing' \subseteq DOMAIN outcome
  /\ UNCHANGED outcome

Return(n) ==
  /\ outcome[n] = "open"
  /\ \E result \in {"ok", "failed", "mismatch"} :
       /\ result = "ok" => n \in applied
       /\ result = "mismatch" => n \in differing
       /\ outcome' = [outcome EXCEPT ![n] = result]
  /\ UNCHANGED <<applied, differing>>

Next == Call \/ Decide \/ \E n \in DOMAIN outcome : Return(n)

Spec == Init /\ [][Next]_sessionVars
==============================================================================
