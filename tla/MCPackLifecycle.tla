--------------------------- MODULE MCPackLifecycle ---------------------------
(* PackLifecycle with one or two platforms and two examples.               *)
EXTENDS PackLifecycle, TLC

CONSTANTS a1, a2, r1, e1, e2

OneAdmin == {a1}
TwoAdmins == {a1, a2}
OneParser == {r1}
TwoExamples == {e1, e2}
OnePlatform == {1}
TwoPlatforms == {1, 2}

Active == [status |-> "ACTIVE", patterns |-> {}]
Deprecated == [status |-> "DEPRECATED", patterns |-> {}]

\* Like arista_eos: 1.0.0 and 1.0.1 deprecated, 1.1.0 active.
\* Like cisco_nxos: a single version.
ShipOne == (<<1, <<0, 0>>>> :> Active)
ShipTwo == ShipOne @@ (<<2, <<0, 0>>>> :> Active)

=============================================================================
