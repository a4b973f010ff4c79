--------------------------- MODULE MCNetworkTrust ---------------------------
(***************************************************************************)
(* NetworkTrust for TLC: in two changes an authority that is listed twice, *)
(* two authorities, or nothing is configured, with a proxy or without.     *)
(***************************************************************************)
EXTENDS NetworkTrust
CONSTANTS c1, c2, proxy, p1

Choice(certs, twice, value) ==
    [list |-> [certs |-> certs, twice |-> twice],
     env |-> [v \in Variables |-> value]]
MCChoices == {Choice({c1}, {c1}, p1), Choice({c1, c2}, {}, None),
              Choice({}, {}, None)}
=============================================================================
