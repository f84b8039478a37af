-------------------------- MODULE MCDeviceReading --------------------------
(***************************************************************************)
(* Small files of every shape the parser reads.  Four IPv4 addresses, two  *)
(* IPv6 addresses, four ports.  A line is built with what it means to the  *)
(* device beside its words; the parser sees the words.                     *)
(***************************************************************************)
EXTENDS Teaching, TLC

MCAddress == 0..3
MCAddress6 == {4, 5}
MCAddressOf == [a0 |-> 0, a1 |-> 1, a2 |-> 2]
MCWildcardOf == [w1 |-> 1, w2 |-> 2, w3 |-> 3]
MCCidrOf == ("a0/31" :> {0, 1}) @@ ("a2/31" :> {2, 3}) @@ ("a1/32" :> {1}) @@ ("a0/30" :> MCAddress)
            @@ ("b0/128" :> {4}) @@ ("b0/127" :> MCAddress6)
MCPortOf == [p0 |-> 0, ssh |-> 1, www |-> 2, p3 |-> 3]
MCNumeral == {"10", "20"}
MCProtocols == {"tcp", "udp"}
MCMembers == {[G |-> {1}], [G |-> {0, 1, 2, 3}]}

-----------------------------------------------------------------------------
(* Lines.                                                                  *)

Both == MCAddress \cup MCAddress6
Every == [protocol |-> MCProtocols, src |-> Both, sport |-> 0..3,
          dst |-> Both, dport |-> 0..3, established |-> BOOLEAN, group |-> ""]
\* From the addresses of S, and from those of a group the file leaves open.
FromOnly(box, S) == [box EXCEPT !.src = S]
FromGroup(box, g) == [box EXCEPT !.src = {}, !.group = g]
Tcp == [Every EXCEPT !.protocol = {"tcp"}]
Udp == [Every EXCEPT !.protocol = {"udp"}]

Line(indent, form, text) ==
    [indent |-> indent, form |-> form, text |-> text, brace |-> FALSE,
     ends |-> FALSE, until |-> "", seconds |-> 0, list |-> "", rule |-> "", key |-> "", box |-> Every]
Said(indent, text) == Line(indent, "statement", text)
Open(indent, text) == [Said(indent, text) EXCEPT !.brace = TRUE]
Close == Line(0, "close", <<>>)
Blank == Line(0, "blank", <<>>)
Bang == Line(0, "comment", <<"!">>)
Banner == [Said(0, <<"banner", "motd">>) EXCEPT !.until = "^C"]
EndBanner == Said(0, <<"^C">>)
Note == Line(0, "block_comment", <<"note">>)
OneNote == [Note EXCEPT !.ends = TRUE]
EndNote == [Said(0, <<"end">>) EXCEPT !.ends = TRUE]

\* An entry of the list A, and what the device reads in it.
Ios(text, box) ==
    [Said(1, text) EXCEPT !.list = "A", !.key = "entry", !.box = box]

IosEntries ==
    {Ios(<<"permit", "ip", "any", "any">>, Every),
     Ios(<<"deny", "tcp", "any", "any", "eq", "ssh">>, [Tcp EXCEPT !.dport = {1}]),
     Ios(<<"permit", "tcp", "a0", "w1", "any", "gt", "ssh">>,
         [Tcp EXCEPT !.src = {0, 1}, !.dport = {2, 3}]),
     Ios(<<"deny", "tcp", "host", "a1", "any", "range", "www", "p3", "log">>,
         [Tcp EXCEPT !.src = {1}, !.dport = {2, 3}]),
     Ios(<<"permit", "tcp", "any", "any", "established">>, [Tcp EXCEPT !.established = {TRUE}]),
     Ios(<<"10", "permit", "tcp", "object-group", "G", "any">>, FromGroup(Tcp, "G")),
     Ios(<<"deny", "tcp", "a0", "w3", "lt", "www", "host", "a1">>,
         [Tcp EXCEPT !.sport = {0, 1}, !.dst = {1}]),
     Ios(<<"permit", "tcp", "host", "a1", "any", "eq", "ssh">>,
         [Tcp EXCEPT !.src = {1}, !.dport = {1}]),
     Ios(<<"permit", "udp", "any", "any", "eq", "www">>, [Udp EXCEPT !.dport = {2}]),
     Ios(<<"permit", "tcp", "any", "any", "gt", "p3">>, [Tcp EXCEPT !.dport = {}]),
     Ios(<<"deny", "tcp", "a0", "w2", "any">>, [Tcp EXCEPT !.src = {0, 2}]),
     Ios(<<"deny", "tcp", "any", "any", "eq", "unheard-of">>, [Tcp EXCEPT !.dport = {3}]),
     Ios(<<"permit", "tcp", "any", "any", "syn">>, [Tcp EXCEPT !.dport = {0}])}

NxosEntries ==
    {Ios(<<"10", "permit", "tcp", "a0/31", "any", "eq", "ssh">>,
         [Tcp EXCEPT !.src = {0, 1}, !.dport = {1}]),
     Ios(<<"deny", "ip", "any", "any", "log">>, Every),
     Ios(<<"permit", "tcp", "host", "a1", "a2/31">>, [Tcp EXCEPT !.src = {1}, !.dst = {2, 3}]),
     Ios(<<"deny", "tcp", "addrgroup", "G", "any">>, FromGroup(Tcp, "G")),
     Ios(<<"permit", "ip", "a0/30", "any">>, FromOnly(Every, MCAddress)),
     Ios(<<"permit", "tcp", "a0", "any">>, [Tcp EXCEPT !.src = {0}])}

Neq == Ios(<<"deny", "tcp", "any", "any", "neq", "ssh">>, [Tcp EXCEPT !.dport = {0, 2, 3}])

Ios3 == {<<Said(0, <<"ip", "access-list", "extended", "A">>)>> \o es :
            es \in UNION {[1..n -> IosEntries] : n \in 1..3}}
Nxos2 == {<<Said(0, <<"ip", "access-list", "A">>)>> \o es :
            es \in UNION {[1..n -> NxosEntries] : n \in 1..2}}

\* Two lists, of which none, one or both can be read.
InB(l) == [l EXCEPT !.list = "B"]
IosTwo ==
    {<<Said(0, <<"ip", "access-list", "extended", "A">>), e,
       Said(0, <<"ip", "access-list", "extended", "B">>), InB(f)>> :
        e, f \in IosEntries}

\* A list among other things: a remark, a comment, an interface it is on.
Around ==
    {<<Said(0, <<"ip", "access-list", "extended", "A">>), Said(1, <<"remark", "r">>), e, Bang,
       Said(0, <<"interface", "e0">>), Said(1, <<"ip", "address", "a1">>),
       Said(1, <<"no", "shutdown">>), s,
       Said(1, <<"ip", "access-group", "A", "in">>), Said(0, <<"line", "vty">>),
       Said(1, <<"transport", "ssh">>)>> :
        e \in IosEntries,
        s \in {Said(1, <<"shutdown">>), Said(1, <<"mtu", "9000">>), Said(0, <<"transport", "ssh">>)}}

\* Blocks and prose, by indent and by brace.
Shapes ==
    [1..5 -> {Said(0, <<"a">>), Said(1, <<"b">>), Said(2, <<"c">>), Bang,
              Banner, EndBanner}]
\* Sessions and their timeouts: of the console, of the terminals, misplaced.
Sessions(os) ==
    [1..4 -> {Said(0, <<"line", "vty">>), Said(0, <<"line", "con">>), Said(1, <<"line", "vty">>),
              Said(0, <<"no", "ip", "http">>), Said(1, <<"no", "ip", "http">>),
              [Said(2, <<"exec-timeout", "x", "0">>) EXCEPT !.seconds = 1]}
             \cup (IF os = "ios"
                   THEN {[Said(1, <<"exec-timeout", "5", "30">>) EXCEPT !.seconds = 330],
                         [Said(2, <<"exec-timeout", "5", "0">>) EXCEPT !.seconds = 300]}
                   ELSE {[Said(1, <<"exec-timeout", "5">>) EXCEPT !.seconds = 300],
                         [Said(2, <<"exec-timeout", "30">>) EXCEPT !.seconds = 1800]})]
Braced ==
    {<<Open(0, <<"top">>)>> \o f :
        f \in [1..5 -> {Said(1, <<"a">>), Open(1, <<"b">>), Close, Note, EndNote, OneNote}]}

-----------------------------------------------------------------------------
(* JunOS.                                                                  *)

In(rule, key, box, l) ==
    [l EXCEPT !.list = "F", !.rule = rule, !.key = key, !.box = box]
Term(rule, words) == Said(0, <<"set", "filter", "F", "term", rule>> \o words)

\* A condition: its words on one line and, where braces write its values in
\* a block, those with what each adds.
From(words, key, box) == [words |-> words, key |-> key, box |-> box, parts |-> <<>>]

\* P holds two networks, Q one of each family, R one; no file defines G.
Meaning == ("a0/31" :> {0, 1}) @@ ("a2/31" :> {2, 3}) @@ ("a0/30" :> MCAddress)
           @@ ("b0/128" :> {4}) @@ ("b0/127" :> MCAddress6)
           @@ [P |-> {0, 1, 2, 3}, Q |-> {0, 1, 4},
               R |-> {0, 1}, G |-> {}]
Named(names) == [Every EXCEPT !.src = UNION {Meaning[w] : w \in names},
                              !.group = IF "G" \in names THEN "G" ELSE ""]
Source(keyword, names) ==
    [words |-> <<keyword>> \o (IF Len(names) = 1 THEN names ELSE <<"[">> \o names \o <<"]">>),
     key |-> "src", box |-> Named(ToSet(names)),
     parts |-> [i \in DOMAIN names |-> <<<<names[i]>>, Named({names[i]})>>]]
FromAddress(names) == Source("source-address", names)
FromLists(names) == Source("source-prefix-list", names)
Except ==
    LET rest == FromOnly(Every, Both \ Meaning["R"]) IN
    [words |-> <<"source-prefix-list", "R", "except">>, key |-> "src", box |-> rest,
     parts |-> <<<<<<"R", "except">>, rest>>>>]

\* What a term says of its source, a condition said again among it.
Undefined == <<FromLists(<<"G">>)>>
Partly == <<FromLists(<<"Q", "G">>)>>
Again == <<FromAddress(<<"a2/31">>), FromAddress(<<"a0/31">>)>>
Sources ==
    {<<>>, <<FromAddress(<<"a0/31">>)>>, <<FromAddress(<<"a2/31">>)>>,
     <<FromLists(<<"P">>)>>, <<FromLists(<<"Q">>)>>,
     <<FromAddress(<<"a0/31", "a2/31">>)>>, Undefined, Partly, Again, <<Except>>,
     <<From(<<"source-class", "c">>, "src", FromOnly(Every, {3}))>>}
Ssh == From(<<"destination-port", "ssh">>, "dport", [Every EXCEPT !.dport = {1}])
SshWww == From(<<"destination-port", "[", "ssh", "www", "]">>, "dport", [Every EXCEPT !.dport = {1, 2}])
Targets ==
    {<<>>, <<From(<<"protocol", "tcp">>, "protocol", Tcp)>>, <<SshWww>>, <<Ssh>>}
Actions == {<<"accept">>, <<"discard">>, <<"next", "term">>}

SetTerm(rule, conditions, act) ==
    [i \in DOMAIN conditions |->
        In(rule, conditions[i].key, conditions[i].box,
           Term(rule, <<"from">> \o conditions[i].words))]
    \o <<In(rule, "", Every, Term(rule, <<"then">> \o act))>>

Lists ==
    [i \in 1..5 |-> Said(0, <<"set", "prefix-list">> \o
        <<<<"P", "a0/31">>, <<"P", "a2/31">>, <<"Q", "a0/31">>, <<"Q", "b0/128">>,
          <<"R", "a0/31">>>>[i])]

SetFilters ==
    {Lists \o SetTerm("t1", s1 \o d1, <<"accept">>) \o SetTerm("t2", s2 \o d2, <<"discard">>) :
        s1 \in Sources \ {Undefined}, d1 \in Targets,
        s2 \in Sources, d2 \in Targets \cup {<<Ssh, SshWww>>}}
    \cup
    {SetTerm("t1", d1, act) \o SetTerm("t2", s2, <<"accept">>) :
        d1 \in Targets, s2 \in Sources, act \in Actions}

BraceCondition(rule, c) ==
    IF c.parts = <<>> THEN <<In(rule, c.key, c.box, Said(5, c.words))>>
    ELSE <<In(rule, "", Every, Open(5, <<c.words[1]>>))>>
         \o [i \in DOMAIN c.parts |-> In(rule, c.key, c.parts[i][2], Said(6, c.parts[i][1]))]
         \o <<Close>>

BraceTerm(rule, conditions, act) ==
    <<In(rule, "", Every, Open(3, <<"term", rule>>)), In(rule, "", Every, Open(4, <<"from">>))>>
    \o FlattenSeq([i \in DOMAIN conditions |-> BraceCondition(rule, conditions[i])])
    \o <<Close, In(rule, "", Every, Said(4, <<"then">> \o act)), Close>>

\* A filter of the list F or, for the other family, of one that is called so.
Filter(family, terms) ==
    <<Open(1, <<"family", family>>), Open(2, <<"filter", "F">>)>>
    \o [i \in DOMAIN terms |->
            IF terms[i].list = "" THEN terms[i] ELSE [terms[i] EXCEPT !.list = family]]
    \o <<Close, Close>>

Firewall(filters) ==
    <<Open(0, <<"policy-options">>), Open(1, <<"prefix-list", "P">>), Said(2, <<"a0/31">>),
      Said(2, <<"a2/31">>), Close, Open(1, <<"prefix-list", "Q">>), Said(2, <<"a0/31">>),
      Said(2, <<"b0/128">>), Close, Close, Open(0, <<"firewall">>)>> \o filters \o <<Close>>

BraceFilters ==
    {Firewall(Filter("inet", BraceTerm("t1", s1 \o d1, <<"accept">>) \o BraceTerm("t2", s2, act))) :
        s1 \in Sources, d1 \in Targets \ {<<>>, <<Ssh>>}, s2 \in Sources,
        act \in Actions \ {<<"discard">>}}

\* Filters of one name for both families, read whole or not.
Sources6 == {<<>>, <<FromAddress(<<"b0/128">>)>>, <<FromAddress(<<"b0/127">>)>>, <<FromLists(<<"Q">>)>>}
Namesakes ==
    {Firewall(Filter("inet", BraceTerm("t1", s, a))
              \o Filter("inet6", BraceTerm("t1", s1, <<"accept">>) \o BraceTerm("t2", s2, b))) :
        s \in {<<>>, <<FromAddress(<<"a0/31">>)>>}, s1, s2 \in Sources6, a, b \in Actions}

-----------------------------------------------------------------------------
File(os, ls) == [os |-> os, lines |-> ls]

(* Lines to be taught, secrets among them, in blocks that differ by a      *)
(* number.                                                                 *)
TaughtLines ==
    {Said(0, <<"line", "vty">>), Said(0, <<"line", "10">>), Said(0, <<"line", "20">>),
     Said(1, <<"session", "10">>), Said(2, <<"session", "20">>), Said(0, <<"session", "20">>),
     Said(1, <<"password", "10", "s3cret">>), Said(1, <<"password", "s3cret", "ro">>),
     Said(0, <<"user", "$1$x">>), Said(0, <<"password">>)}
MCTaughtFiles ==
    {File("ios", <<Said(0, <<"line", "10">>)>> \o ls) :
        ls \in UNION {[1..n -> TaughtLines] : n \in 1..3}}

MCFiles ==
    MCTaughtFiles \cup
    {File("ios", ls) : ls \in Ios3 \cup IosTwo \cup Around \cup Shapes \cup Sessions("ios")}
    \cup {File("nxos", ls) : ls \in Nxos2 \cup Sessions("nxos")}
    \cup {File("junos", ls) : ls \in Braced \cup SetFilters \cup BraceFilters \cup Namesakes}

NeqFiles ==
    {File("ios", <<Said(0, <<"ip", "access-list", "extended", "A">>), Neq>> \o es) :
        es \in [1..2 -> IosEntries]}

Idle == [field |-> "idle_timeout_seconds", root |-> FALSE, scope |-> <<<<"line", "vty">>>>,
         words |-> <<"exec-timeout", Hole, Hole>>, literal |-> <<>>, cast |-> "duration"]
IdleMinutes == [Idle EXCEPT !.words = <<"exec-timeout", Hole>>, !.cast = "duration_minutes"]
Http == [field |-> "http_enabled", root |-> TRUE, scope |-> <<>>, words |-> <<"no", "ip", "http">>,
         literal |-> <<"false">>, cast |-> "bool"]
MCPatterns == [ios |-> {Idle, Http}, nxos |-> {IdleMinutes}, junos |-> {}]
MCNumberOf == ("5" :> 5) @@ ("0" :> 0) @@ ("30" :> 30) @@ ("10" :> 10) @@ ("20" :> 20)

MCSecretWords == {"password"}
MCHashes == {"$1$x"}
MCLiterals == {<<"true">>}
MCCasts == {"str", "duration", "bool"}

=============================================================================
