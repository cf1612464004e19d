---------------------------- MODULE MCUpgradeJobs ----------------------------
EXTENDS UpgradeJobs

CONSTANTS j1, j2, t1, t2, r1

(* Selections of the page: the interface's phases, the agent's, and one of *)
(* the targeted; for a single job all of them.                             *)
Chosen(phases, options) == [phases |-> phases, options |-> options]

MCSelections ==
  {Chosen(UiOnly, {}), Chosen(TargetedAgentOnly, {}), Chosen({5}, {})}
AllSelections == [phases : RealRun, options : SUBSET {"reuse", "skip"}]
=============================================================================
