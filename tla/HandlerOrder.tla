----------------------------- MODULE HandlerOrder -----------------------------
(***************************************************************************)
(* What docs/handlers.dox promises of the connection handlers: validate    *)
(* comes before open or fail, exactly one of these two is called, and      *)
(* close is called once for a connection that was opened, never for one    *)
(* that failed.                                                            *)
(***************************************************************************)
VARIABLE phase   \* the last of the handlers that was called

Init == phase = "none"

Validate == phase = "none" /\ phase' = "validate"
Open == phase \in {"none", "validate"} /\ phase' = "open"
Fail == phase \in {"none", "validate"} /\ phase' = "fail"
Close == phase = "open" /\ phase' = "close"

Next == Validate \/ Open \/ Fail \/ Close

Spec == Init /\ [][Next]_phase
==============================================================================
