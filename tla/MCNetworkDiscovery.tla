---- MODULE MCNetworkDiscovery ----
(* Bounds for TLC. *)
EXTENDS NetworkDiscovery

Case(scans, p2ps, probes, renames, restarts, uis) ==
    [scan |-> scans, p2p |-> p2ps, probe |-> probes, rename |-> renames,
     restart |-> restarts, ui |-> uis]

\* Overlapping scans; a repeated probe and a host under another name; a set-up; a
\* restart of either process during a scan.
EveryCase == {Case(2, 0, 0, 0, 0, 0), Case(1, 0, 1, 1, 0, 0), Case(0, 1, 0, 0, 0, 0),
              Case(1, 0, 0, 0, 1, 0), Case(1, 0, 0, 0, 0, 1)}
====
