------------------------------ MODULE MCFleet ------------------------------
(***************************************************************************)
(* Three platforms whose signatures and weights are those of the shipped   *)
(* packs, two canonical fields, nine configurations.                       *)
(***************************************************************************)
EXTENDS Fleet

Regex(finds, weight) == [kind |-> "regex", finds |-> finds, weight |-> weight]
Named(finds, weight) == [kind |-> "filename", finds |-> finds, weight |-> weight]

Sourced(v) == [sourced |-> TRUE, value |-> v]
Unsourced == [sourced |-> FALSE, value |-> Nothing]
Supports(answer) == [supported |-> answer, sourced |-> TRUE]

Spec(reads, capability, default) ==
    [reads |-> reads, worst |-> Nothing, capability |-> capability, default |-> default]

Logging == Spec(("logging h1" :> Str(1)) @@ ("logging h2" :> Str(2)),
                Supports("yes"), Sourced(Bool(0)))
Blind == [reads |-> <<>>, worst |-> Nothing, capability |-> Supports("undocumented"),
          default |-> Unsourced]

Hosts == {"r1", "r2", "r3", "r4", "r5", "r6", "m1", "j1"}
Plain == [l \in {"hostname " \o h : h \in Hosts} |->
            CHOOSE h \in Hosts : l = "hostname " \o h]

Ios(logging) ==
    [rank |-> 2, hostname |-> <<Plain>>, fields |-> [logging_hosts |-> logging],
     detect |-> {Regex({"version 15.2"}, 25), Regex({"service timestamps"}, 25),
                 Regex({"line vty 0"}, 20), Regex({"interface gig"}, 20)}]
Eos == [rank |-> 1, hostname |-> <<Plain>>, fields |-> [logging_hosts |-> Logging],
        detect |-> {Regex({"! device"}, 35), Regex({"transceiver"}, 30),
                    Regex({"line vty 0"}, 5), Named({"eos.cfg"}, 10)}]
Junos == [rank |-> 3, fields |-> [logging_hosts |-> Blind],
          hostname |-> <<("set host-name j1" :> "j1"), ("host-name j1;" :> "j1")>>,
          detect |-> {Regex({"set host-name j1"}, 35), Regex({"system {"}, 30),
                      Regex({"interfaces {"}, 25), Regex({"firewall {"}, 20)}]

MCPackOf == [ios |-> {Ios(Logging), Ios(Blind)}, eos |-> {Eos}, junos |-> {Junos}]
MCShipped == [ios |-> Ios(Logging), junos |-> Junos]

File(name, host, lines) ==
    [name |-> name, host |-> host, lines |-> lines, claims |-> "cli", wellFormed |-> TRUE]

Cisco == <<"version 15.2", "service timestamps", "line vty 0">>
Router(h, more) == File("router.cfg", h, <<"hostname " \o h>> \o Cisco \o more)

Five == <<Router("r1", <<"logging h1">>), Router("r2", <<"logging h1">>),
          Router("r3", <<"logging h1">>), Router("r4", <<"logging h2">>),
          Router("r5", <<>>)>>
Unlogged == Router("r6", <<>>)
Torn == Router("r2", <<"logging h1", "logging h2">>)
Mixed == File("eos.cfg", "m1", <<"hostname m1">> \o Cisco \o <<"! device">>)
Thin == File("eos.cfg", "", <<"line vty 0", "interface gig">>)
Brace == File("j.conf", "j1", <<"system {", "host-name j1;", "interfaces {", "firewall {">>)
Broken == [File("pan.xml", "", <<"<config>">>) EXCEPT !.claims = "xml", !.wellFormed = FALSE]

MCBatches == {Five \o <<Unlogged>>, <<Torn, [Five[1] EXCEPT !.name = "copy.cfg"], Brace>>,
              <<Broken, Mixed, Thin>>}

=============================================================================
