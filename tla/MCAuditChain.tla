---------------------------- MODULE MCAuditChain ----------------------------
(* ChainVerification, which contains AuditChain, with small sets for TLC.  *)
EXTENDS ChainVerification

CONSTANTS w1, w2, w3, v1, confirmed, activated, raw, model_acts

MCWriter == {w1, w2, w3}
MCReader == {v1}
MCEvent == {confirmed, activated, raw, model_acts}
MCNotJson == {raw}
MCForbidden == {model_acts}
MCRanges == {<<0, NoEnd>>, <<1, 2>>}

=============================================================================
