---------------------------- MODULE MCIngestion ----------------------------
(* Ingestion with two configurations that share a line.                    *)
EXTENDS Ingestion

CONSTANTS core, edge, ntp, aaa

MCContent == {core, edge}
MCLinesOf == [c \in MCContent |-> IF c = core THEN <<ntp, aaa>> ELSE <<ntp, ntp>>]
MCBatches == {
    <<Config(core)>>,
    <<Config(core), Invalid, Config(core)>>,
    <<Archive(<<Config(core), Invalid>>), Config(edge)>>,
    <<Hostile, Config(edge)>>,
    <<Archive(<<Config(edge), Config(core), Config(edge)>>), Hostile, Config(core)>>,
    <<Hostile, Corrupt, Config(edge)>> }

=============================================================================
