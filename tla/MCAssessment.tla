---------------------------- MODULE MCAssessment ----------------------------
(***************************************************************************)
(* A file with two vty ranges that disagree on telnet, one NTP server and  *)
(* either no line for the HTTP server or two that disagree; packs that     *)
(* know more or less of the platform; an edition for release 17 only.      *)
(***************************************************************************)
EXTENDS Assessment

MCControl == {"telnet_enabled", "ntp_servers", "http_server_enabled", "banner"}
MCMulti == {"ntp_servers"}
MCWorstCase ==
    [c \in MCControl |-> IF c = "telnet_enabled" THEN Bool(1) ELSE Nothing]
\* ISO is named and not sourced.
MCEdition ==
    [nist |-> [scoped |-> FALSE, platform |-> "", releases |-> {}],
     stig |-> [scoped |-> TRUE, platform |-> "ios", releases |-> {"17"}]]

Claim(supported, sourced) == [supported |-> supported, sourced |-> sourced]
Default(sourced) == [sourced |-> sourced, value |-> Bool(1)]

Interface(management, addressed, enabled) ==
    [management |-> management, addressed |-> addressed, enabled |-> enabled]

Reached == Interface("yes", TRUE, "unknown")
Closed == Interface("yes", TRUE, "no")
Undocumented == Interface("unknown", TRUE, "yes")
Excluded == Interface("no", TRUE, "yes")

\* What a pack finds for the HTTP server and claims of it is what differs, and
\* what it reads of the interfaces and access lists.
Pack(http, claim, default, rel, interfaces, acls) ==
    [interfaces |-> interfaces, acls |-> acls,
     declared |-> MCControl \ {"banner"},
     found |-> [telnet_enabled |-> <<Bool(0), Bool(1)>>,
                ntp_servers |-> <<Str("a")>>, http_server_enabled |-> http,
                banner |-> <<>>],
     capability |-> [c \in MCControl |-> IF c = "http_server_enabled" THEN claim
                                         ELSE Claim("yes", TRUE)],
     default |-> [c \in MCControl |-> IF c = "http_server_enabled" THEN default
                                      ELSE Default(FALSE)],
     release |-> rel]

MCPacks ==
    {Pack(<<>>, Claim("undocumented", FALSE), Default(TRUE), "15", {}, TRUE),
     Pack(<<>>, Claim("no", FALSE), Default(FALSE), "17", {Undocumented}, FALSE),
     Pack(<<>>, Claim("no", TRUE), Default(FALSE), "", {Closed}, TRUE),
     Pack(<<>>, Claim("yes", FALSE), Default(FALSE), "17", {Reached, Undocumented}, TRUE),
     Pack(<<>>, Claim("yes", TRUE), Default(TRUE), "17", {Undocumented, Excluded}, TRUE),
     Pack(<<Bool(1), Bool(0)>>, Claim("yes", TRUE), Default(TRUE), "15", {Reached, Closed}, FALSE),
     Pack(<<Bool(1), Bool(1)>>, Claim("yes", FALSE), Default(TRUE), "", {Reached, Closed}, TRUE)}

Rule(id, severity, field, conditions, frameworks) ==
    [id |-> id, severity |-> severity, field |-> field, conditions |-> conditions,
     frameworks |-> frameworks, declines |-> {"nist", "stig"} \ frameworks,
     applies |-> id # 5, onDefault |-> "evaluate", onUnsupported |-> "not_applicable"]

Op(op, value) == [op |-> op, value |-> value]

Telnet == Rule(4, "critical", "telnet_enabled", {Op("is_false", Nothing)}, {"nist", "stig"})
Http == Rule(2, "medium", "http_server_enabled", {Op("equals", Bool(0))}, {"nist"})
Ntp == Rule(3, "medium", "ntp_servers",
            {Op("non_empty", Nothing), Op("contains", Str("b"))}, {"nist"})
Banner == Rule(1, "low", "banner", {Op("non_empty", Nothing)}, {"stig"})
Nxos == Rule(5, "high", "http_server_enabled", {Op("is_false", Nothing)}, {"nist"})

\* The second is the first edited under its label: HTTP gained a mapping, and
\* its condition no longer fits the field.
Shipped == [version |-> "1.2.0", rules |-> {Telnet, Http, Ntp, Banner, Nxos}]
Edited ==
    [version |-> "1.2.0",
     rules |-> {Telnet, Banner,
                Rule(2, "medium", "http_server_enabled", {Op("lte", Num(0))},
                     {"nist", "stig"})}]

Snippet(id, platform, rule, deps, risk) ==
    [id |-> id, platform |-> platform, rule |-> rule, deps |-> deps, risk |-> risk, hint |-> 100]

\* The fix for telnet needs the one for NTP, which risks a lockout, and one
\* for HTTP on another platform; two fixes that need each other.
Vetted ==
    <<Snippet(1, "ios", 4, {2, 3}, 0), Snippet(2, "ios", 3, {}, 2),
      Snippet(3, "nxos", 2, {}, 1), Snippet(4, "ios", 4, {}, 1)>>
Circular == <<Snippet(1, "ios", 4, {2}, 0), Snippet(2, "ios", 3, {1}, 0)>>

MCDeployments ==
    {[rulepack |-> Shipped, library |-> Vetted],
     [rulepack |-> Edited, library |-> <<>>],
     [rulepack |-> Shipped, library |-> Circular]}

=============================================================================
