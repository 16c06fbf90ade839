----------------------------- MODULE MCPscServer -----------------------------
(* Values for the constants of PscServer that a .cfg cannot write. *)
EXTENDS PscServer, TLC

CONSTANTS lstats, wvfmdata

\* Broadcasting threads (brdstats differs from lstats in nothing modelled).
OnePusher == {lstats}
TwoPushers == {lstats, wvfmdata}

NoFaults == {}
OneFaulty == {1}
AllFaulty == Conns

AllConns == Conns
NoConns == {}

PusherSymmetry == Permutations(TwoPushers)

=============================================================================
