----------------------------- MODULE MCAuditRun -----------------------------
(* AuditRun with two requests, two files and two shapes of line.           *)
EXTENDS AuditRun

CONSTANTS a1, a2, router, switch, ntp, aaa, r1, r2

MCAuditor == {a1, a2}
MCShape == {ntp, aaa}
MCTaught == {ntp}
MCText == [f \in {router, switch} |-> IF f = router THEN <<ntp, aaa>> ELSE <<aaa>>]
MCSelections == {{}, {r1, r2}}

=============================================================================
