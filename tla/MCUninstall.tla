------------------------------ MODULE MCUninstall ------------------------------
(* Two dispatches of the panel to the same agent; with an nginx bridge      *)
(* under systemd, and without one under a supervisor.                       *)
EXTENDS Uninstall, TLC

CONSTANTS d1, d2, w1

MCHosts == {<<"systemd", Parts>>, <<"supervisor", Parts \ {"loader"}>>}

MCRunners == {d1, d2}
Symmetric == Permutations(MCRunners)

================================================================================
