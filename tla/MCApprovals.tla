------------------------------ MODULE MCApprovals ------------------------------
\* An instance of Approvals for TLC: three requests, two of them of one action
\* and two of one turn, and a second observer of the first.
EXTENDS Approvals

CONSTANTS r1, r2, r3, watcher, write, run, turn, task

MCRequest == {r1, r2, r3}
MCWatcher == {watcher}
MCAction == {write, run}
MCSource == {turn, task}
MCActionOf == [r \in MCRequest |-> IF r = r3 THEN run ELSE write]
MCSourceOf == [r \in MCRequest |-> IF r = r2 THEN task ELSE turn]
MCRequestOf == [w \in MCWatcher |-> r1]
MCTimed == {r1, watcher}
=============================================================================
