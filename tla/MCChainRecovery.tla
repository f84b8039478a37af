--------------------------- MODULE MCChainRecovery ---------------------------
(* ChainRecovery with two events.                                          *)
EXTENDS ChainRecovery

CONSTANTS confirmed, activated

MCEvent == {confirmed, activated}

=============================================================================
