---------------------------- MODULE MCDesignHook ------------------------------
(* Constants of the model-checking run of DesignHook.                         *)
EXTENDS DesignHook

Call(scan, primary) == [scan |-> scan, primary |-> primary]

\* A patch of both files, and an edit of the component.
MCTargets == {Call(<<"page", "style">>, {"page", "style"}), Call(<<"page", "style">>, {"page"})}

Budget(edits, commands, faults, asks) ==
  [edits |-> edits, commands |-> commands, faults |-> faults, asks |-> asks]

MCBudgets == {Budget(3, 0, 0, 0), Budget(2, 0, 1, 0), Budget(1, 0, 1, 1), Budget(1, 1, 0, 1),
              Budget(0, 3, 0, 0)}

MCWrites == {[is |-> "asking", s |-> "s1", f |-> "style", sig |-> {"font"}]}
=============================================================================
