---------------------------- MODULE MCDiscovery ----------------------------
(***************************************************************************)
(* An instance of Discovery: one prefix of one host, a second address that *)
(* may be recorded under it without being in its range, and the bounds.    *)
(***************************************************************************)
EXTENDS DiscoveryHistory

CONSTANTS p1, h1, h2

MCHostsOf == [p \in Prefixes |-> {h1}]

\* Two scans with the ticker and requests racing for one prefix, as its scans are
\* switched on and off or rows are added; the results of one scan with rows that
\* come, move and go around a request that accepts one.
MCScopes ==
  {[ids |-> Scans, requests |-> {"scan", "config"}],
   [ids |-> Scans, requests |-> {"newRow"}],
   [ids |-> {CHOOSE s \in Scans : TRUE},
    requests |-> {"newRow", "setStatus", "editRow", "deleteRow", "accept", "ignore",
                  "dropPrefix"}]}
=============================================================================
