----------------------------- MODULE MCConsole ------------------------------
(* Two accounts and two files; releases that add, edit, lose and repeat     *)
(* a migration; five labelled or unknown lines.                             *)
EXTENDS Console

CONSTANTS amy, bob

MCUser == {amy, bob}
MCSymmetry == Permutations(MCUser)

M(version, edition) == [version |-> version, edition |-> edition]

MCRelease == [
    now |-> <<{M(1, "a"), M(2, "a")}, {M(1, "a")}>>,
    new |-> <<{M(1, "a"), M(2, "a"), M(3, "a")}, {M(1, "a")}>>,
    edited |-> <<{M(1, "a"), M(2, "b")}, {M(1, "a")}>>,
    twice |-> <<{M(1, "a"), M(2, "a")}, {M(1, "a"), M(1, "b")}>> ]
MCLegacy == <<M(1, "a")>>
MCDatabase == <<"operational", "audit">>

ntp == <<"ntp", "server", "10.0.0.1">>
ntp2 == <<"ntp", "server", "10.0.0.2">>
mtu == <<"ip", "9000">>
bare == <<"9000">>
telnet == <<"telnet", "on">>

MCKinds == [t \in {"ntp", "server", "ip", "telnet", "on", "10.0.0.1", "10.0.0.2", "9000"} |->
    IF t \in {"10.0.0.1", "10.0.0.2"} THEN {"ip", "decimal"}
    ELSE IF t = "9000" THEN {"number"} ELSE {}]
MCResidue == <<<<ntp, bare>>, <<ntp2>>>>
MCTextOrder == <<bare, mtu, ntp, ntp2, telnet>>
MCSeeds == {[text |-> telnet, field |-> "telnet_enabled", origin |-> <<"pack", 1>>],
            [text |-> mtu, field |-> "ntp_servers", origin |-> <<"pack", 2>>]}
MCFieldOrder == <<"ntp_servers", "telnet_enabled">>
MCCosine == [q \in ToSet(MCTextOrder) |-> [t \in ToSet(MCTextOrder) |->
    IF q = t THEN 10
    ELSE IF {q, t} = {ntp, ntp2} THEN 9
    ELSE IF telnet \in {q, t} THEN (IF ntp2 \in {q, t} THEN 6 ELSE 2) ELSE 4]]

=============================================================================
