------------------------------ MODULE MCCgroups2Fs ------------------------------
(* Two container cgroups, a host with cgroup v2, and two outside events:  *)
(* enough for an unmount followed by a mount, or a root removal followed  *)
(* by an unmount, to land between any two steps of the agent.             *)
EXTENDS Cgroups2Fs

CONSTANTS k1, k2

MCKids == {k1, k2}

=============================================================================
