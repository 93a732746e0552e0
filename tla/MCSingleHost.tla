---------------------------- MODULE MCSingleHost ----------------------------
(* Model-checking instances of SingleHost: run 1 deploys revision 2 over a *)
(* host at revision 1 (or none), run 2 deploys revision 3 or, as a         *)
(* deliberate rollback, takes the database down to revision 1.             *)
EXTENDS SingleHost

RevUp == [p \in Procs |-> p + 1]
NoRollback == [p \in Procs |-> 0]
SecondRollsBack == [p \in Procs |-> IF p = 2 THEN 1 ELSE 0]
AllSetups == {<<TRUE, NoRollback>>, <<TRUE, SecondRollsBack>>, <<FALSE, SecondRollsBack>>}
TwoDeploys == {<<TRUE, NoRollback>>}

(* States that differ only in what nothing reads any more are one: the      *)
(* locals of a run that is over, but for those that the invariants read of  *)
(* the journal's author, and the event log, which no step of a deploy reads *)
(* (from[p] only goes into it).                                             *)
RunView(p) ==
    IF Over(p)
    THEN <<to[p].tag = "Committed",
           IF author = p THEN <<prior[p], base[p], newRev[p]>> ELSE <<>> >>
    ELSE <<to[p], done[p], effects[p], prior[p], base[p], staged[p], prevRev[p], newRev[p],
           repointed[p]>>
MCView ==
    <<lock, pc, failed, result, curState, author, setupVars, stage, alone, ledger, hostVars,
      [p \in Procs |-> RunView(p)]>>

=============================================================================
