-------------------------- MODULE Operations_proofs --------------------------
(***************************************************************************)
(* Proofs about the commands around the deploys: the webhook server, its   *)
(* self-upgrade and the drain, for any number of POSTs; and `db refresh`,  *)
(* for any number of invocations and any archives.                         *)
(***************************************************************************)
EXTENDS Upgrade, Refresh, TLAPS

-----------------------------------------------------------------------------
(* The webhook server and the self-upgrade.                                *)

(* What becomes of a POST, and while the server is at it.                  *)
Fates == {"none", "queued", "dropped", "reading", "400", "405", "401", "503", "accepted",
          "locked", "200", "500", "killed"}
Open == {"reading", "accepted", "locked"}
Binaries == {"v1", "v2", "broken", "torn", None}
Phases == {"start", "stage", "activate", "restart", "restarting", "probe", "revert", "done", "dead"}

Processes == [up : BOOLEAN, image : Binaries, term : BOOLEAN, busy : Posts \cup {None}]
Upgrades ==
    [pc : Phases, bytes : {"v2", "broken", None}, id : Ids \cup {None}, prior : Ids \cup {None},
     before : [Ids -> Binaries], back : BOOLEAN,
     outcome : {None, "aborted", "committed", "reverted", "manual"}, notified : BOOLEAN]

UpTypes ==
    /\ req \in [Posts -> Fates] /\ late \subseteq Posts
    /\ activated \in BOOLEAN /\ drainFlag \in BOOLEAN
    /\ srv \in Processes
    /\ files \in [Ids -> Binaries] /\ current \in Ids \cup {None}
    /\ app \in Upgrades
    /\ probe \in {"none", "waiting", "healthy"}
    /\ cmd \in {"idle", "restarting"}
    /\ coord \in {"idle", "settling", "polling", "timed out", "drained"}

(* A connection the server took is the one it serves, by a binary that     *)
(* works.                                                                  *)
Serving ==
    /\ srv.busy # None => srv.up /\ Works(srv.image)
    /\ \A p \in Posts : req[p] \in Open => srv.busy = p

(* From the settle on, only a deploy accepted before it can take a lock.   *)
Draining ==
    /\ coord \in {"settling", "polling", "drained"} => drainFlag = TRUE
    /\ coord \in {"polling", "drained"} => {p \in Posts : req[p] = "accepted"} \subseteq late
    /\ coord = "drained" => Locked \subseteq late

(* How far the upgrade is, and what it left of the kept binary.            *)
Kept == app.id # app.prior /\ app.prior # None => files[app.prior] = app.before[app.prior]
Forth == current = app.id /\ files[app.id] = app.bytes
Upgrading ==
    /\ app.pc = "start" => app.back = FALSE /\ app.outcome = None /\ app.id = None /\ app.prior = None
    /\ app.pc \in {"stage", "activate", "restart", "restarting", "probe", "revert"} =>
           app.id \in Ids /\ app.bytes # None /\ app.outcome = None /\ Kept
    /\ app.pc \in {"stage", "activate"} => current = app.prior /\ app.back = FALSE
    /\ app.pc = "activate" => files[app.id] = app.bytes
    /\ app.pc \in {"restart", "restarting", "probe"} /\ ~app.back => Forth
    /\ app.pc = "revert" => app.back = FALSE
    /\ app.pc \in {"restart", "restarting", "probe"} /\ app.back => current = app.prior /\ app.prior # None

(* What the unit runs while the upgrade waits for it.                      *)
Waiting ==
    /\ app.pc = "restarting" /\ srv.up /\ ~srv.term => srv.image = files[current]
    /\ app.pc = "probe" /\ ~app.back =>
           /\ srv.up => srv.image = app.bytes
           /\ probe = "healthy" => Works(app.bytes)

(* The unit has a whole binary to start, and so has a revert.              *)
Intact == current # None => files[current] \notin {None, "torn"}
Whole ==
    /\ app.pc = "start" \/ app.id # app.prior => Intact
    /\ app.pc # "start" /\ app.id # app.prior /\ app.prior # None =>
           /\ app.before[app.prior] \notin {None, "torn"}
           /\ app.outcome # "committed" =>
                  files[app.prior] = app.before[app.prior] /\ current \in {app.prior, app.id}

UpInv == UpTypes /\ Serving /\ Draining /\ Upgrading /\ Waiting /\ Whole /\ UpgradeOutcomeTrue

(* A unit that runs a binary.                                              *)
LEMMA ImageIs ==
  ASSUME NEW b
  PROVE  /\ ImageOf(b).up = TRUE /\ ImageOf(b).image = b /\ ImageOf(b).term = FALSE /\ ImageOf(b).busy = None
         /\ Down.up = FALSE /\ Down.image = None /\ Down.term = FALSE /\ Down.busy = None
         /\ b \in Binaries => ImageOf(b) \in Processes
         /\ Down \in Processes
BY Zenon DEF ImageOf, Down, Binaries, Processes

(* What the server answers.                                                *)
LEMMA ServedIs ==
  ASSUME NEW draining \in BOOLEAN, NEW served \in Served[draining]
  PROVE  /\ served \in {"400", "405", "401", "503", "accepted"}
         /\ draining => served # "accepted"
<1>1. PICK r \in Requests : served = ServeConnection(r, draining)
  BY Zenon DEF Served
<1> QED
  BY <1>1, Zenon DEF ServeConnection

(* Before the first POST and the first upgrade.                            *)
LEMMA UpgradeInit == UpInit => UpInv
<1> SUFFICES ASSUME UpInit PROVE UpInv
  BY Zenon
<1>1. files \in [Ids -> Binaries]
  BY Zenon DEF UpInit, Binaries, Ids
<1>2. current \in Ids \cup {None}
  BY Zenon DEF UpInit, Ids
<1>3. srv = Down \/ srv = ImageOf(files["old"])
  BY Zenon DEF UpInit
<1>4. srv \in Processes /\ srv.busy = None
  <2>1. files["old"] \in Binaries
    BY <1>1, Zenon DEF Ids
  <2>2. CASE srv = Down
    BY <2>2, ImageIs, Zenon
  <2>3. CASE srv = ImageOf(files["old"])
    BY <2>1, <2>3, ImageIs, Zenon
  <2> QED
    BY <1>3, <2>2, <2>3, Zenon
<1>5. app \in Upgrades
  BY <1>1, Zenon DEF UpInit, Phases, Upgrades
<1>6. app.pc = "start" /\ app.back = FALSE /\ app.outcome = None /\ app.id = None /\ app.prior = None
  BY Zenon DEF UpInit
<1>7. req \in [Posts -> Fates] /\ \A p \in Posts : req[p] = "none"
  BY Zenon DEF UpInit, Fates
<1>8. /\ late = {} /\ activated \in BOOLEAN /\ drainFlag = FALSE /\ coord = "idle" /\ probe = "none"
      /\ cmd = "idle"
  BY Zenon DEF UpInit
<1>9. UpTypes
  BY <1>1, <1>2, <1>4, <1>5, <1>7, <1>8, Zenon DEF UpTypes
<1>10. Serving /\ Draining
  BY <1>4, <1>7, <1>8, Zenon DEF Serving, Open, Draining
<1>11. Upgrading /\ Waiting /\ UpgradeOutcomeTrue
  BY <1>6, Zenon DEF Upgrading, Waiting, UpgradeOutcomeTrue
<1>12. Whole
  <2>1. CASE files["old"] = None
    BY <1>6, <2>1, Zenon DEF UpInit, Whole, Intact
  <2>2. CASE files["old"] # None
    <3>1. current = "old" /\ files[current] = "v1"
      BY <2>2, Zenon DEF UpInit, Ids
    <3>2. "v1" # None
      BY <2>2, <3>1, Zenon
    <3> QED
      BY <1>6, <3>1, <3>2, Zenon DEF Whole, Intact
  <2> QED
    BY <2>1, <2>2, Zenon
<1> QED
  BY <1>9, <1>10, <1>11, <1>12, Zenon DEF UpInv

(* Every step keeps the types.                                             *)
LEMMA WebTypes ==
  ASSUME UpTypes, NEW p \in Posts, Arrive(p) \/ Accept(p) \/ Dispatch(p) \/ DeployLocks(p) \/ DeployEnds(p)
  PROVE  UpTypes'
<1>1. UNCHANGED <<late, activated, binVars, app, probe, cmd, drainFlag, coord>>
  BY Zenon DEF Arrive, Accept, Dispatch, DeployLocks, DeployEnds
<1>2. /\ req \in [Posts -> Fates] /\ drainFlag \in BOOLEAN
      /\ srv \in Processes
  BY Zenon DEF UpTypes
<1>3. \E v \in Fates : req' = [req EXCEPT ![p] = v]
  <2>1. CASE Dispatch(p)
    <3>1. PICK served \in Served[drainFlag] : req' = [req EXCEPT ![p] = served]
      BY <2>1, Zenon DEF Dispatch
    <3>2. served \in Fates
      BY <1>2, ServedIs, Zenon DEF Fates
    <3> QED
      BY <3>1, <3>2, Zenon
  <2> QED
    BY <2>1, Zenon DEF Arrive, Accept, DeployLocks, DeployEnds, Fates
<1>4. req' \in [Posts -> Fates]
  BY <1>2, <1>3, Zenon
<1>5. srv' = srv \/ srv' = [srv EXCEPT !.busy = p] \/ srv' = [srv EXCEPT !.busy = None]
  BY Zenon DEF Arrive, Accept, Dispatch, DeployLocks, DeployEnds
<1>6. srv' \in Processes
  BY <1>2, <1>5, Zenon DEF Processes
<1>7. /\ late' = late /\ activated' = activated /\ files' = files /\ current' = current /\ app' = app
      /\ probe' = probe /\ cmd' = cmd
      /\ drainFlag' = drainFlag /\ coord' = coord
  BY <1>1, Zenon DEF binVars
<1> QED
  BY <1>4, <1>6, <1>7, Zenon DEF UpTypes

(* The webhook unit and systemd keep the types.                            *)
LEMMA UnitTypes ==
  ASSUME UpTypes, AnswerProbe \/ ExitOnTerm \/ StopDeadline \/ BootsThenDies \/ RestartOnFailure
  PROVE  UpTypes'
<1>1. UNCHANGED <<late, activated, binVars, app, cmd, drainFlag, coord>>
  BY Zenon DEF AnswerProbe, ExitOnTerm, StopDeadline, BootsThenDies, RestartOnFailure, webVars
<1>2. /\ req \in [Posts -> Fates] /\ files \in [Ids -> Binaries] /\ current \in Ids \cup {None}
      /\ srv \in Processes
      /\ probe \in {"none", "waiting", "healthy"}
  BY Zenon DEF UpTypes
<1>3. ClosedBacklog \in [Posts -> Fates]
  BY <1>2, Zenon DEF ClosedBacklog, Fates
<1>4. req' \in [Posts -> Fates]
  BY <1>2, <1>3, Zenon DEF AnswerProbe, ExitOnTerm, StopDeadline, BootsThenDies, RestartOnFailure,
         webVars, Fates
<1>5. srv' = srv \/ srv' = Down \/ (current # None /\ srv' = ImageOf(files[current]))
  BY Zenon DEF AnswerProbe, ExitOnTerm, StopDeadline, BootsThenDies, RestartOnFailure, webVars
<1>6. srv' \in Processes
  <2>1. CASE srv' = Down
    BY <2>1, ImageIs, Zenon
  <2>2. CASE current # None /\ srv' = ImageOf(files[current])
    <3>1. files[current] \in Binaries
      BY <1>2, <2>2, Zenon
    <3> QED
      BY <2>2, <3>1, ImageIs, Zenon
  <2> QED
    BY <1>2, <1>5, <2>1, <2>2, Zenon
<1>7. probe' \in {"none", "waiting", "healthy"}
  BY <1>2, Zenon DEF AnswerProbe, ExitOnTerm, StopDeadline, BootsThenDies, RestartOnFailure
<1>8. /\ late' = late /\ activated' = activated /\ files' = files /\ current' = current /\ app' = app
      /\ cmd' = cmd
      /\ drainFlag' = drainFlag /\ coord' = coord
  BY <1>1, Zenon DEF binVars
<1> QED
  BY <1>4, <1>6, <1>7, <1>8, Zenon DEF UpTypes

(* A restart, in its two halves, leaves a process or none.                 *)
LEMMA RestartTypes ==
  ASSUME UpTypes, SigTerm \/ StartWebhook
  PROVE  srv' \in Processes
<1>1. /\ files \in [Ids -> Binaries] /\ current \in Ids \cup {None}
      /\ srv \in Processes
  BY Zenon DEF UpTypes
<1>2. \/ srv' = srv \/ srv' = [srv EXCEPT !.term = TRUE] \/ srv' = Down
      \/ current # None /\ srv' = ImageOf(files[current])
  BY Zenon DEF SigTerm, StartWebhook
<1>3. CASE srv' = Down
  BY <1>3, ImageIs, Zenon
<1>4. CASE current # None /\ srv' = ImageOf(files[current])
  <2>1. files[current] \in Binaries
    BY <1>1, <1>4, Zenon
  <2> QED
    BY <1>4, <2>1, ImageIs, Zenon
<1>5. CASE srv' = [srv EXCEPT !.term = TRUE]
  BY <1>1, <1>5, Zenon DEF Processes
<1> QED
  BY <1>1, <1>2, <1>3, <1>4, <1>5, Zenon

(* The upgrade keeps the types.                                            *)
LEMMA ApplyTypes ==
  ASSUME UpTypes, Apply
  PROVE  UpTypes'
<1>1. UNCHANGED <<req, late, activated, cmd, drainFlag, coord>>
  BY Zenon DEF Apply, Fetch, Stage, ActivateBinary, RestartWebhook, Restarted, Healthy,
     HealthTimeout,
         Revert, ApplyDies, applyUnchanged
<1>2. /\ files \in [Ids -> Binaries] /\ current \in Ids \cup {None} /\ app \in Upgrades
      /\ srv \in Processes
      /\ cmd \in {"idle", "restarting"} /\ probe \in {"none", "waiting", "healthy"}
  BY Zenon DEF UpTypes
<1>3. srv' \in Processes
  <2>1. srv' = srv \/ SigTerm \/ StartWebhook
    BY Zenon DEF Apply, Fetch, Stage, ActivateBinary, RestartWebhook, Restarted, StartFails,
       Healthy,
       HealthTimeout, Revert, ApplyDies
  <2> QED
    BY <1>2, <2>1, RestartTypes, Zenon
<1>4. probe' \in {"none", "waiting", "healthy"}
  BY <1>2, Zenon
  DEF Apply, Fetch, Stage, ActivateBinary, RestartWebhook, Restarted, Healthy, HealthTimeout,
         Revert, ApplyDies
<1>5. current' \in Ids \cup {None}
  <2>1. app.id \in Ids \cup {None} /\ app.prior \in Ids \cup {None}
    BY <1>2, Zenon DEF Upgrades
  <2>2. current' \in {current, app.id, app.prior}
    BY Zenon DEF Apply, Fetch, Stage, ActivateBinary, RestartWebhook, Restarted, Healthy,
       HealthTimeout,
           Revert, ApplyDies, binVars
  <2> QED
    BY <1>2, <2>1, <2>2, Zenon
<1>6. files' \in [Ids -> Binaries]
  <2>1. app.bytes \in Binaries /\ "torn" \in Binaries /\ None \in Binaries
    BY <1>2, Zenon DEF Binaries, Upgrades
  <2>2. CASE Stage
    BY <1>2, <2>1, <2>2, Zenon DEF Stage
  <2>3. CASE Healthy
    BY <1>2, <2>1, <2>3, Zenon DEF Healthy
  <2>4. Stage \/ Healthy \/ files' = files
    BY Zenon DEF Apply, Fetch, ActivateBinary, RestartWebhook, Restarted, HealthTimeout,
           Revert, ApplyDies, binVars
  <2> QED
    BY <1>2, <2>2, <2>3, <2>4, Zenon
<1>7. app' \in Upgrades
  <2>1. \/ \E pc \in Phases : app' = [app EXCEPT !.pc = pc]
        \/ \E outcome \in {"aborted", "committed", "reverted", "manual"}, notified \in BOOLEAN :
              app' = [app EXCEPT !.pc = "done", !.outcome = outcome, !.notified = notified]
        \/ app' = [app EXCEPT !.pc = "restart", !.back = TRUE]
        \/ \E b \in {"v2", "broken"}, id \in Ids :
              app' = [app EXCEPT !.pc = "stage", !.bytes = b, !.id = id, !.prior = current, !.before = files]
    BY Zenon DEF Apply, Fetch, Stage, ActivateBinary, RestartWebhook, Restarted, Healthy,
       HealthTimeout,
           Revert, ApplyDies, ApplyAt, ResolveUpgrade, Failed, Phases
  <2>2. CASE \E pc \in Phases : app' = [app EXCEPT !.pc = pc]
    BY <1>2, <2>2, Zenon DEF Upgrades
  <2>3. CASE \E outcome \in {"aborted", "committed", "reverted", "manual"}, notified \in BOOLEAN :
              app' = [app EXCEPT !.pc = "done", !.outcome = outcome, !.notified = notified]
    BY <1>2, <2>3, ZenonT(30) DEF Phases, Upgrades
  <2>4. CASE app' = [app EXCEPT !.pc = "restart", !.back = TRUE]
    BY <1>2, <2>4, Zenon DEF Phases, Upgrades
  <2>5. CASE \E b \in {"v2", "broken"}, id \in Ids :
              app' = [app EXCEPT !.pc = "stage", !.bytes = b, !.id = id, !.prior = current, !.before = files]
    BY <1>2, <2>5, Zenon DEF Phases, Upgrades
  <2> QED
    BY <2>1, <2>2, <2>3, <2>4, <2>5, Zenon
<1> QED
  BY <1>1, <1>3, <1>4, <1>5, <1>6, <1>7, Zenon DEF UpTypes

(* The drain coordinator keeps the types.                                  *)
LEMMA DrainTypes ==
  ASSUME UpTypes, Drain
  PROVE  UpTypes'
<1>1. UNCHANGED <<req, srv, activated, files, current, app, probe, cmd>>
  BY Zenon DEF Drain, RaiseFlag, Settled, Poll, DrainTimeout, drainUnchanged, binVars
<1>2. late \subseteq Posts /\ drainFlag \in BOOLEAN
  BY Zenon DEF UpTypes
<1>3. late' \subseteq Posts /\ drainFlag' \in BOOLEAN
      /\ coord' \in {"idle", "settling", "polling", "timed out", "drained"}
  BY <1>2, Zenon DEF Drain, RaiseFlag, Settled, Poll, DrainTimeout
<1>4. /\ req' = req /\ srv' = srv /\ activated' = activated /\ files' = files /\ current' = current
      /\ app' = app /\ probe' = probe /\ cmd' = cmd
  BY <1>1, Zenon
<1> QED
  BY <1>3, <1>4, Zenon DEF UpTypes

(* So does an operator's restart.                                          *)
LEMMA CommandTypes ==
  ASSUME UpTypes, SelfUpgradeRestart \/ SelfUpgradeRestarted
  PROVE  UpTypes'
<1>1. /\ req' = req /\ late' = late /\ activated' = activated /\ files' = files /\ current' = current
      /\ app' = app /\ probe' = probe /\ drainFlag' = drainFlag /\ coord' = coord
  BY Zenon DEF SelfUpgradeRestart, SelfUpgradeRestarted, restartUnchanged, binVars
<1>2. srv \in Processes
  BY Zenon DEF UpTypes
<1>3. srv' = srv \/ SigTerm \/ StartWebhook
  BY Zenon DEF SelfUpgradeRestart, SelfUpgradeRestarted, StartFails
<1>4. srv' \in Processes
  BY <1>2, <1>3, RestartTypes, Zenon
<1>5. cmd' \in {"idle", "restarting"}
  BY Zenon DEF SelfUpgradeRestart, SelfUpgradeRestarted
<1> QED
  BY <1>1, <1>4, <1>5, Zenon DEF UpTypes

(* What a change of one field leaves of the process.                       *)
LEMMA ProcessIs ==
  ASSUME srv \in Processes, NEW p
  PROVE  /\ [srv EXCEPT !.busy = p].busy = p /\ [srv EXCEPT !.busy = p].up = srv.up
         /\ [srv EXCEPT !.busy = p].image = srv.image /\ [srv EXCEPT !.busy = p].term = srv.term
         /\ [srv EXCEPT !.term = TRUE].busy = srv.busy /\ [srv EXCEPT !.term = TRUE].up = srv.up
         /\ [srv EXCEPT !.term = TRUE].image = srv.image /\ [srv EXCEPT !.term = TRUE].term = TRUE
BY Zenon DEF Processes

(* A server that is busy with nobody has taken no connection it did not     *)
(* finish.                                                                 *)
LEMMA NobodyWaits ==
  ASSUME Serving, srv.busy = None, NEW p \in Posts
  PROVE  req[p] \notin Open
BY NoneAssumption, Zenon DEF Serving

(* The backlog holds no accepted deploy.                                   *)
LEMMA BacklogIs ==
  ASSUME NEW p \in Posts
  PROVE  ClosedBacklog[p] = req[p] \/ ClosedBacklog[p] = "dropped"
BY Zenon DEF ClosedBacklog

(* Every step serves one deploy at a time.                                 *)
LEMMA WebServing ==
  ASSUME UpTypes, Serving, NEW p \in Posts,
         Arrive(p) \/ Accept(p) \/ Dispatch(p) \/ DeployLocks(p) \/ DeployEnds(p)
  PROVE  Serving'
<1>1. req \in [Posts -> Fates] /\ srv \in Processes /\ drainFlag \in BOOLEAN
  BY Zenon DEF UpTypes
<1>2. p # None
  BY NoneAssumption, Zenon
<1>3. CASE Arrive(p)
  <2>1. srv' = srv /\ \E v \in {"queued", "dropped"} : req' = [req EXCEPT ![p] = v]
    BY <1>3, Zenon DEF Arrive
  <2>2. \A q \in Posts : req'[q] \in Open => req[q] = req'[q]
    BY <1>1, <2>1, Zenon DEF Open
  <2> QED
    BY <2>1, <2>2, Zenon DEF Serving
<1>4. CASE Accept(p)
  <2>1. srv.up /\ Works(srv.image) /\ srv.busy = None
    BY <1>4, Zenon DEF Accept, Idle
  <2>2. req' = [req EXCEPT ![p] = "reading"] /\ srv' = [srv EXCEPT !.busy = p]
    BY <1>4, Zenon DEF Accept
  <2>3. \A q \in Posts : q # p => req'[q] \notin Open
    BY <1>1, <2>1, <2>2, NobodyWaits, Zenon
  <2>4. srv'.busy = p /\ srv'.up = srv.up /\ srv'.image = srv.image
    BY <1>1, <2>2, ProcessIs, Zenon
  <2> QED
    BY <2>1, <2>3, <2>4, Zenon DEF Serving
<1>7. CASE Dispatch(p)
  <2>1. PICK served \in Served[drainFlag] :
           /\ srv.busy = p
           /\ req' = [req EXCEPT ![p] = served]
           /\ srv' = IF served = "accepted" THEN srv ELSE [srv EXCEPT !.busy = None]
    BY <1>7, Zenon DEF Dispatch
  <2>2. served \in {"400", "405", "401", "503", "accepted"}
    BY <1>1, <2>1, ServedIs, Zenon
  <2>3. \A q \in Posts : q # p => req'[q] = req[q] /\ req[q] \notin Open
    BY <1>1, <2>1, Zenon DEF Serving
  <2>4. CASE served = "accepted"
    BY <2>1, <2>3, <2>4, Zenon DEF Serving
  <2>5. CASE served # "accepted"
    <3>1. srv'.busy = None
      BY <1>1, <2>1, <2>5, ProcessIs, Zenon
    <3>2. req'[p] = served /\ served \notin Open
      BY <1>1, <2>1, <2>2, <2>5, Zenon DEF Open
    <3> QED
      BY <2>3, <3>1, <3>2, Zenon DEF Serving
  <2> QED
    BY <2>4, <2>5, Zenon
<1>5. CASE DeployLocks(p)
  <2>1. srv' = srv /\ srv.busy = p /\ req' = [req EXCEPT ![p] = "locked"]
    BY <1>5, Zenon DEF DeployLocks
  <2>2. \A q \in Posts : q # p => req'[q] = req[q]
    BY <1>1, <2>1, Zenon
  <2> QED
    BY <2>1, <2>2, Zenon DEF Serving
<1>6. CASE DeployEnds(p)
  <2>1. srv' = [srv EXCEPT !.busy = None] /\ srv.busy = p
        /\ \E v \in {"200", "500"} : req' = [req EXCEPT ![p] = v]
    BY <1>6, Zenon DEF DeployEnds
  <2>2. srv'.busy = None
    BY <1>1, <2>1, ProcessIs, Zenon
  <2>3. \A q \in Posts : req'[q] \notin Open
    BY <1>1, <2>1, Zenon DEF Serving, Open
  <2> QED
    BY <2>2, <2>3, Zenon DEF Serving
<1> QED
  BY <1>3, <1>4, <1>5, <1>6, <1>7, Zenon

(* The unit ends, dies and comes back only with no deploy accepted, or     *)
(* takes it along.                                                         *)
LEMMA UnitServing ==
  ASSUME UpTypes, Serving,
         AnswerProbe \/ ExitOnTerm \/ StopDeadline \/ BootsThenDies \/ RestartOnFailure
  PROVE  Serving'
<1>1. req \in [Posts -> Fates] /\ srv \in Processes
  BY Zenon DEF UpTypes
<1>2. CASE AnswerProbe
  BY <1>2, Zenon DEF AnswerProbe, webVars, Serving
<1>3. CASE ExitOnTerm \/ BootsThenDies
  <2>1. srv' = Down /\ req' = ClosedBacklog /\ srv.busy = None
    BY <1>3, Zenon DEF ExitOnTerm, BootsThenDies, Serving
  <2>2. \A q \in Posts : req'[q] \notin Open
    BY <2>1, NobodyWaits, BacklogIs, Zenon DEF Open
  <2> QED
    BY <2>1, <2>2, ImageIs, Zenon DEF Serving
<1>4. CASE StopDeadline
  <2>1. srv' = Down /\ req' = [ClosedBacklog EXCEPT ![srv.busy] = "killed"]
    BY <1>4, Zenon DEF StopDeadline
  <2>2. ASSUME NEW q \in Posts PROVE req'[q] \notin Open
    <3>1. CASE q = srv.busy
      BY <2>1, <3>1, Zenon DEF ClosedBacklog, Open
    <3>2. CASE q # srv.busy
      <4>1. req'[q] = ClosedBacklog[q]
        BY <2>1, <3>2, Zenon DEF ClosedBacklog
      <4> QED
        BY <3>2, <4>1, BacklogIs, Zenon DEF Serving, Open
    <3> QED
      BY <3>1, <3>2, Zenon
  <2> QED
    BY <2>1, <2>2, ImageIs, Zenon DEF Serving
<1>5. CASE RestartOnFailure
  <2>1. req' = req /\ srv' = ImageOf(files[current]) /\ srv.busy = None
    BY <1>5, Zenon DEF RestartOnFailure, Serving
  <2>2. \A q \in Posts : req'[q] \notin Open
    BY <2>1, NobodyWaits, Zenon
  <2> QED
    BY <2>1, <2>2, ImageIs, Zenon DEF Serving
<1> QED
  BY <1>2, <1>3, <1>4, <1>5, Zenon

(* A restart waits for the deploy that is served.                          *)
LEMMA RestartServing ==
  ASSUME UpTypes, Serving, req' = req, srv' = srv \/ SigTerm \/ StartWebhook
  PROVE  Serving'
<1>1. srv \in Processes
  BY Zenon DEF UpTypes
<1>2. CASE srv' = srv
  BY <1>2, Zenon DEF Serving
<1>3. CASE srv' = [srv EXCEPT !.term = TRUE]
  <2>1. srv'.busy = srv.busy /\ srv'.up = srv.up /\ srv'.image = srv.image
    BY <1>1, <1>3, ProcessIs, Zenon
  <2> QED
    BY <2>1, Zenon DEF Serving
<1>4. CASE ~srv.up /\ (srv' = Down \/ srv' = ImageOf(files[current]))
  <2>1. srv.busy = None
    BY <1>4, Zenon DEF Serving
  <2>2. \A q \in Posts : req'[q] \notin Open
    BY <2>1, NobodyWaits, Zenon
  <2> QED
    BY <1>4, <2>2, ImageIs, ZenonT(30) DEF Serving
<1> QED
  BY <1>2, <1>3, <1>4, Zenon DEF SigTerm, StartWebhook

(* A step that neither accepts nor locks a deploy leaves the drain alone.  *)
LEMMA DrainKept ==
  ASSUME Draining, UNCHANGED <<late, drainFlag, coord>>,
         \A q \in Posts : req'[q] \in {"accepted", "locked"} => req[q] = req'[q]
  PROVE  Draining'
<1>1. late' = late /\ drainFlag' = drainFlag /\ coord' = coord
  BY Zenon
<1>2. coord' \in {"settling", "polling", "drained"} => drainFlag' = TRUE
  BY <1>1, Zenon DEF Draining
<1>3. coord' \in {"polling", "drained"} => {p \in Posts : req'[p] = "accepted"} \subseteq late'
  <2>1. {p \in Posts : req'[p] = "accepted"} \subseteq {p \in Posts : req[p] = "accepted"}
    BY Zenon
  <2> QED
    BY <1>1, <2>1, Zenon DEF Draining
<1>4. coord' = "drained" => Locked' \subseteq late'
  <2>1. Locked' \subseteq Locked
    BY Zenon DEF Locked
  <2> QED
    BY <1>1, <2>1, Zenon DEF Draining
<1> QED
  BY <1>2, <1>3, <1>4, Zenon DEF Draining

(* While it drains, the server lets no new deploy in.                      *)
LEMMA WebDraining ==
  ASSUME UpTypes, Draining, NEW p \in Posts,
         Arrive(p) \/ Accept(p) \/ Dispatch(p) \/ DeployLocks(p) \/ DeployEnds(p)
  PROVE  Draining'
<1>1. req \in [Posts -> Fates] /\ drainFlag \in BOOLEAN
  BY Zenon DEF UpTypes
<1>2. UNCHANGED <<late, drainFlag, coord>> /\ late' = late /\ drainFlag' = drainFlag /\ coord' = coord
  BY Zenon DEF Arrive, Accept, Dispatch, DeployLocks, DeployEnds
<1>3. CASE Arrive(p) \/ Accept(p) \/ DeployEnds(p)
  <2>1. \E v \in {"queued", "dropped", "reading", "200", "500"} : req' = [req EXCEPT ![p] = v]
    BY <1>3, Zenon DEF Arrive, Accept, DeployEnds
  <2>2. \A q \in Posts : req'[q] \in {"accepted", "locked"} => req[q] = req'[q]
    BY <1>1, <2>1, Zenon
  <2> QED
    BY <1>2, <2>2, DrainKept, Zenon
<1>4. CASE Dispatch(p)
  <2>1. PICK served \in Served[drainFlag] : req' = [req EXCEPT ![p] = served]
    BY <1>4, Zenon DEF Dispatch
  <2>2. served \in {"400", "405", "401", "503", "accepted"} /\ (drainFlag => served # "accepted")
    BY <1>1, <2>1, ServedIs, Zenon
  <2>3. CASE drainFlag
    <3>1. served \notin {"accepted", "locked"}
      BY <2>2, <2>3, Zenon
    <3>2. \A q \in Posts : req'[q] \in {"accepted", "locked"} => req[q] = req'[q]
      BY <1>1, <2>1, <3>1, Zenon
    <3> QED
      BY <1>2, <3>2, DrainKept, Zenon
  <2>4. CASE ~drainFlag
    BY <1>2, <2>4, Zenon DEF Draining
  <2> QED
    BY <2>3, <2>4, Zenon
<1>5. CASE DeployLocks(p)
  <2>1. req' = [req EXCEPT ![p] = "locked"] /\ req[p] = "accepted"
    BY <1>5, Zenon DEF DeployLocks
  <2>2. \A q \in Posts : /\ req'[q] = "accepted" => req[q] = "accepted"
                         /\ req'[q] = "locked" => q = p \/ req[q] = "locked"
    BY <1>1, <2>1, Zenon
  <2>3. coord' \in {"settling", "polling", "drained"} => drainFlag' = TRUE
    BY <1>2, Zenon DEF Draining
  <2>4. {q \in Posts : req'[q] = "accepted"} \subseteq {q \in Posts : req[q] = "accepted"}
    BY <2>2, Zenon
  <2>5. coord' \in {"polling", "drained"} => {q \in Posts : req'[q] = "accepted"} \subseteq late'
    BY <1>2, <2>4, Zenon DEF Draining
  <2>6. Locked' \subseteq Locked \cup {p} /\ p \in {q \in Posts : req[q] = "accepted"}
    BY <2>1, <2>2, Zenon DEF Locked
  <2>7. coord' = "drained" => Locked' \subseteq late'
    BY <1>2, <2>6, Zenon DEF Draining
  <2> QED
    BY <2>3, <2>5, <2>7, Zenon DEF Draining
<1> QED
  BY <1>3, <1>4, <1>5, Zenon

(* Neither does a unit that ends or comes back.                            *)
LEMMA UnitDraining ==
  ASSUME UpTypes, Draining,
         AnswerProbe \/ ExitOnTerm \/ StopDeadline \/ BootsThenDies \/ RestartOnFailure
  PROVE  Draining'
<1>1. UNCHANGED <<late, drainFlag, coord>>
  BY Zenon DEF AnswerProbe, ExitOnTerm, StopDeadline, BootsThenDies, RestartOnFailure, webVars
<1>2. ASSUME NEW q \in Posts, req'[q] \in {"accepted", "locked"} PROVE req[q] = req'[q]
  <2>1. req' = req \/ req' = ClosedBacklog \/ req' = [ClosedBacklog EXCEPT ![srv.busy] = "killed"]
    BY Zenon DEF AnswerProbe, ExitOnTerm, StopDeadline, BootsThenDies, RestartOnFailure, webVars
  <2>2. req'[q] = req[q] \/ req'[q] = "dropped" \/ req'[q] = "killed"
    BY <2>1, BacklogIs, Zenon DEF ClosedBacklog
  <2> QED
    BY <1>2, <2>2, Zenon
<1> QED
  BY <1>1, <1>2, DrainKept, Zenon

(* The drain's own steps: the settle takes note of the accepted deploys,   *)
(* the poll ends with no lock held.                                        *)
LEMMA DrainDraining ==
  ASSUME UpTypes, Draining, Drain
  PROVE  Draining'
<1>1. req' = req
  BY Zenon DEF Drain, RaiseFlag, Settled, Poll, DrainTimeout, drainUnchanged
<1>2. CASE RaiseFlag
  <2>1. coord' = "settling" /\ drainFlag' = TRUE
    BY <1>2, Zenon DEF RaiseFlag
  <2> QED
    BY <2>1, Zenon DEF Draining
<1>3. CASE Settled
  <2>1. /\ coord = "settling" /\ coord' = "polling" /\ drainFlag' = drainFlag
        /\ late' = {p \in Posts : req[p] = "accepted"}
    BY <1>3, Zenon DEF Settled
  <2> QED
    BY <1>1, <2>1, Zenon DEF Draining
<1>4. CASE Poll
  <2>1. coord = "polling" /\ coord' = "drained" /\ drainFlag' = drainFlag /\ late' = late /\ Locked = {}
    BY <1>4, Zenon DEF Poll
  <2>2. Locked' = {}
    BY <1>1, <2>1, Zenon DEF Locked
  <2> QED
    BY <1>1, <2>1, <2>2, Zenon DEF Draining
<1>5. CASE DrainTimeout
  <2>1. coord' = "timed out"
    BY <1>5, Zenon DEF DrainTimeout
  <2> QED
    BY <2>1, Zenon DEF Draining
<1> QED
  BY <1>2, <1>3, <1>4, <1>5, Zenon DEF Drain

(* The state of the upgrade after a step that leaves it alone.             *)
LEMMA UpgradeKept ==
  ASSUME Upgrading, Whole, UpgradeOutcomeTrue, UNCHANGED <<files, current, app>>
  PROVE  Upgrading' /\ Whole' /\ UpgradeOutcomeTrue'
<1>1. files' = files /\ current' = current /\ app' = app
  BY Zenon
<1>2. Upgrading'
  BY <1>1, Zenon DEF Upgrading, Kept, Forth
<1>3. Whole'
  BY <1>1, Zenon DEF Whole, Intact
<1>4. UpgradeOutcomeTrue'
  BY <1>1, Zenon DEF UpgradeOutcomeTrue
<1> QED
  BY <1>2, <1>3, <1>4, Zenon

(* What the server and systemd do while the upgrade waits for the unit.    *)
LEMMA WebWaits ==
  ASSUME UpInv, NEW p \in Posts, Arrive(p) \/ Accept(p) \/ Dispatch(p) \/ DeployLocks(p) \/ DeployEnds(p)
  PROVE  Upgrading' /\ Waiting' /\ Whole' /\ UpgradeOutcomeTrue'
<1>1. UNCHANGED <<files, current, app>>
      /\ files' = files /\ current' = current /\ app' = app /\ probe' = probe
  BY Zenon DEF Arrive, Accept, Dispatch, DeployLocks, DeployEnds, binVars
<1>2. srv \in Processes /\ Waiting /\ Upgrading /\ Whole /\ UpgradeOutcomeTrue
  BY Zenon DEF UpInv, UpTypes
<1>3. srv' = srv \/ srv' = [srv EXCEPT !.busy = p] \/ srv' = [srv EXCEPT !.busy = None]
  BY Zenon DEF Arrive, Accept, Dispatch, DeployLocks, DeployEnds
<1>4. srv'.up = srv.up /\ srv'.image = srv.image /\ srv'.term = srv.term
  BY <1>2, <1>3, Zenon DEF Processes
<1>5. Waiting'
  BY <1>1, <1>2, <1>4, Zenon DEF Waiting
<1> QED
  BY <1>1, <1>2, <1>5, UpgradeKept, Zenon

(* What the unit and systemd do, the upgrade finds as it expects.          *)
LEMMA UnitWaits ==
  ASSUME UpInv, AnswerProbe \/ ExitOnTerm \/ StopDeadline \/ BootsThenDies \/ RestartOnFailure
  PROVE  Upgrading' /\ Waiting' /\ Whole' /\ UpgradeOutcomeTrue'
<1>1. UNCHANGED <<files, current, app>>
      /\ files' = files /\ current' = current /\ app' = app
  BY Zenon DEF AnswerProbe, ExitOnTerm, StopDeadline, BootsThenDies, RestartOnFailure, webVars,
     binVars
<1>2. srv \in Processes /\ Waiting /\ Upgrading /\ Whole /\ UpgradeOutcomeTrue
  BY Zenon DEF UpInv, UpTypes
<1>3. CASE AnswerProbe
  <2>1. srv' = srv /\ srv.up /\ Works(srv.image) /\ probe' = "healthy"
    BY <1>3, Zenon DEF AnswerProbe, webVars, Idle
  <2>2. Waiting'
    BY <1>1, <1>2, <2>1, Zenon DEF Waiting, Works
  <2> QED
    BY <1>1, <1>2, <2>2, UpgradeKept, Zenon
<1>4. CASE ExitOnTerm \/ StopDeadline
  <2>1. srv.up /\ srv.term /\ srv'.up = FALSE /\ probe' = probe
    BY <1>4, ImageIs, Zenon DEF ExitOnTerm, StopDeadline
  <2>2. Waiting'
    BY <1>1, <1>2, <2>1, Zenon DEF Waiting, Works
  <2> QED
    BY <1>1, <1>2, <2>2, UpgradeKept, Zenon
<1>5. CASE BootsThenDies
  <2>1. srv.up /\ ~Works(srv.image) /\ srv'.up = FALSE /\ probe' = probe
    BY <1>5, ImageIs, Zenon DEF BootsThenDies
  <2>2. Waiting'
    BY <1>1, <1>2, <2>1, Zenon DEF Waiting, Works
  <2> QED
    BY <1>1, <1>2, <2>2, UpgradeKept, Zenon
<1>6. CASE RestartOnFailure
  <2>1. srv' = ImageOf(files[current]) /\ app.pc # "restarting" /\ probe' = probe
    BY <1>6, Zenon DEF RestartOnFailure
  <2>2. srv'.up = TRUE /\ srv'.image = files[current] /\ srv'.term = FALSE
    BY <2>1, ImageIs, Zenon
  <2>3. Waiting'
    BY <1>1, <1>2, <2>1, <2>2, Zenon DEF Waiting, Works, Upgrading, Forth
  <2> QED
    BY <1>1, <1>2, <2>3, UpgradeKept, Zenon
<1> QED
  BY <1>3, <1>4, <1>5, <1>6, Zenon

(* A restart ends with the unit up on what `current` names.                *)
LEMMA StartIs ==
  ASSUME srv \in Processes, StartWebhook, current # None
  PROVE  \/ srv'.up = TRUE /\ srv'.image = files[current] /\ srv'.term = FALSE
         \/ srv' = srv /\ srv.up = TRUE /\ srv.term = FALSE
<1>1. CASE srv' = ImageOf(files[current])
  BY <1>1, ImageIs, Zenon
<1>2. CASE srv' = srv /\ srv.up /\ ~srv.term
  BY <1>2, Zenon DEF Processes
<1> QED
  BY <1>1, <1>2, Zenon DEF StartWebhook

(* The coordinator touches neither.                                        *)
LEMMA DrainWaits ==
  ASSUME UpInv, Drain
  PROVE  Upgrading' /\ Waiting' /\ Whole' /\ UpgradeOutcomeTrue'
<1>1. UNCHANGED <<files, current, app>> /\ files' = files /\ current' = current /\ app' = app
      /\ probe' = probe /\ srv' = srv
  BY Zenon DEF Drain, RaiseFlag, Settled, Poll, DrainTimeout, drainUnchanged, binVars
<1>2. Waiting /\ Upgrading /\ Whole /\ UpgradeOutcomeTrue
  BY Zenon DEF UpInv
<1>3. Waiting'
  BY <1>1, <1>2, Zenon DEF Waiting
<1> QED
  BY <1>1, <1>2, <1>3, UpgradeKept, Zenon

(* A restart by an operator brings up the binary that the upgrade waits    *)
(* for.                                                                    *)
LEMMA CommandWaits ==
  ASSUME UpInv, SelfUpgradeRestart \/ SelfUpgradeRestarted
  PROVE  Upgrading' /\ Waiting' /\ Whole' /\ UpgradeOutcomeTrue'
<1>1. UNCHANGED <<files, current, app>>
      /\ files' = files /\ current' = current /\ app' = app /\ probe' = probe
  BY Zenon DEF SelfUpgradeRestart, SelfUpgradeRestarted, restartUnchanged, binVars
<1>2. srv \in Processes /\ Waiting /\ Upgrading /\ Whole /\ UpgradeOutcomeTrue
  BY Zenon DEF UpInv, UpTypes
<1>3. CASE srv' = srv
  <2>1. Waiting'
    BY <1>1, <1>2, <1>3, Zenon DEF Waiting
  <2> QED
    BY <1>1, <1>2, <2>1, UpgradeKept, Zenon
<1>4. CASE SigTerm
  <2>1. srv' = srv \/ srv' = [srv EXCEPT !.term = TRUE]
    BY <1>4, Zenon DEF SigTerm
  <2>2. srv'.up = srv.up /\ srv'.image = srv.image /\ (srv'.term = srv.term \/ srv'.term = TRUE)
    BY <1>2, <2>1, Zenon DEF Processes
  <2>3. Waiting'
    BY <1>1, <1>2, <2>2, Zenon DEF Waiting
  <2> QED
    BY <1>1, <1>2, <2>3, UpgradeKept, Zenon
<1>5. CASE StartWebhook /\ current # None
  <2>1. \/ srv'.up = TRUE /\ srv'.image = files[current] /\ srv'.term = FALSE
        \/ srv' = srv /\ srv.up = TRUE /\ srv.term = FALSE
    BY <1>2, <1>5, StartIs, Zenon
  <2>2. Waiting'
    BY <1>1, <1>2, <2>1, Zenon DEF Waiting, Upgrading, Forth
  <2> QED
    BY <1>1, <1>2, <2>2, UpgradeKept, Zenon
<1>6. CASE StartWebhook /\ current = None
  <2>1. srv' = Down \/ srv' = srv
    BY <1>6, Zenon DEF StartWebhook
  <2>2. srv' = srv \/ srv'.up = FALSE
    BY <2>1, ImageIs, Zenon
  <2>3. Waiting'
    BY <1>1, <1>2, <2>2, Zenon DEF Waiting
  <2> QED
    BY <1>1, <1>2, <2>3, UpgradeKept, Zenon
<1> QED
  BY <1>3, <1>4, <1>5, <1>6, Zenon DEF SelfUpgradeRestart, SelfUpgradeRestarted, StartFails

(* What the upgrade's next phase, and its report, leave of it.             *)
LEMMA PhaseIs ==
  ASSUME app \in Upgrades, NEW pc, ApplyAt(pc)
  PROVE  /\ app'.pc = pc /\ app'.bytes = app.bytes /\ app'.id = app.id /\ app'.prior = app.prior
         /\ app'.before = app.before /\ app'.back = app.back /\ app'.outcome = app.outcome
BY Zenon DEF ApplyAt, Upgrades

(* The end of an upgrade.                                                  *)
LEMMA ReportIs ==
  ASSUME app \in Upgrades, NEW outcome, NEW notified, ResolveUpgrade(outcome, notified)
  PROVE  /\ app'.pc = "done" /\ app'.bytes = app.bytes /\ app'.id = app.id /\ app'.prior = app.prior
         /\ app'.before = app.before /\ app'.back = app.back /\ app'.outcome = outcome
         /\ app'.notified = notified
BY Zenon DEF ResolveUpgrade, Upgrades

(* The steps of the upgrade.                                               *)
LEMMA FetchKeeps ==
  ASSUME UpInv, Fetch
  PROVE  Upgrading' /\ Waiting' /\ UpgradeOutcomeTrue'
<1>1. /\ app \in Upgrades /\ files' = files /\ current' = current /\ app.pc = "start"
      /\ app.back = FALSE /\ app.outcome = None /\ app.id = None /\ app.prior = None
  BY Zenon DEF UpInv, UpTypes, Upgrading, Fetch, binVars
<1>2. CASE ResolveUpgrade("aborted", FALSE)
  <2>1. app'.pc = "done" /\ app'.back = FALSE /\ app'.outcome = "aborted" /\ app'.id = app'.prior
    BY <1>1, <1>2, ReportIs, Zenon
  <2> QED
    BY <2>1, Zenon DEF Upgrading, Waiting, UpgradeOutcomeTrue
<1>3. CASE \E b \in {"v2", "broken"}, id \in Ids :
              app' = [app EXCEPT !.pc = "stage", !.bytes = b, !.id = id, !.prior = current, !.before = files]
  <2>1. /\ app'.pc = "stage" /\ app'.bytes \in {"v2", "broken"} /\ app'.id \in Ids /\ app'.prior = current
        /\ app'.before = files /\ app'.back = app.back /\ app'.outcome = app.outcome
    BY <1>1, <1>3, ZenonT(30) DEF Upgrades
  <2>2. app'.bytes # None /\ app'.outcome # "manual"
    BY <1>1, <2>1, NoneAssumption, Zenon
  <2> QED
    BY <1>1, <2>1, <2>2, Zenon DEF Upgrading, Kept, Waiting, UpgradeOutcomeTrue
<1> QED
  BY <1>2, <1>3, Zenon DEF Fetch

(* Staging writes only a binary that no process runs.                      *)
LEMMA StageKeeps ==
  ASSUME UpInv, Stage
  PROVE  Upgrading' /\ Waiting' /\ UpgradeOutcomeTrue'
<1>1. /\ app \in Upgrades /\ files \in [Ids -> Binaries] /\ current' = current /\ app.pc = "stage"
      /\ app.back = FALSE /\ app.outcome = None /\ app.id \in Ids /\ app.bytes # None /\ Kept
      /\ current = app.prior
  BY Zenon DEF UpInv, UpTypes, Upgrading, Stage
<1>2. app.prior \in Ids \cup {None}
  BY <1>1, Zenon DEF Upgrades
<1>3. files' = files \/ \E b : files' = [files EXCEPT ![app.id] = b]
  BY Zenon DEF Stage
<1>4. app.id # app.prior /\ app.prior # None => files'[app.prior] = files[app.prior]
  BY <1>1, <1>2, <1>3, Zenon
<1>5. CASE ResolveUpgrade("aborted", FALSE)
  <2>1. /\ app'.pc = "done" /\ app'.back = FALSE /\ app'.outcome = "aborted" /\ app'.id = app.id
        /\ app'.prior = app.prior /\ app'.before = app.before
    BY <1>1, <1>5, ReportIs, Zenon
  <2>2. UpgradeOutcomeTrue'
    BY <1>1, <1>4, <2>1, Zenon DEF UpgradeOutcomeTrue, Kept
  <2> QED
    BY <2>1, <2>2, Zenon DEF Upgrading, Waiting
<1>6. CASE files' = [files EXCEPT ![app.id] = app.bytes] /\ ApplyAt("activate")
  <2>1. /\ app'.pc = "activate" /\ app'.back = FALSE /\ app'.outcome = None /\ app'.id = app.id
        /\ app'.prior = app.prior /\ app'.before = app.before /\ app'.bytes = app.bytes
    BY <1>1, <1>6, PhaseIs, Zenon
  <2>2. files'[app.id] = app.bytes /\ app'.outcome # "manual"
    BY <1>1, <1>6, <2>1, NoneAssumption, Zenon
  <2>3. Upgrading'
    BY <1>1, <1>4, <2>1, <2>2, Zenon DEF Upgrading, Kept
  <2> QED
    BY <2>1, <2>2, <2>3, Zenon DEF Waiting, UpgradeOutcomeTrue
<1> QED
  BY <1>5, <1>6, Zenon DEF Stage

(* Activating points the link to what was staged.                          *)
LEMMA ActivateKeeps ==
  ASSUME UpInv, ActivateBinary
  PROVE  Upgrading' /\ Waiting' /\ UpgradeOutcomeTrue'
<1>1. /\ app \in Upgrades /\ files' = files /\ app.pc = "activate" /\ files[app.id] = app.bytes
      /\ app.back = FALSE /\ app.outcome = None /\ app.id \in Ids /\ app.bytes # None /\ Kept
      /\ current = app.prior
  BY Zenon DEF UpInv, UpTypes, Upgrading, ActivateBinary
<1>2. CASE current' = current /\ ResolveUpgrade("aborted", FALSE)
  <2>1. /\ app'.pc = "done" /\ app'.back = FALSE /\ app'.outcome = "aborted" /\ app'.id = app.id
        /\ app'.prior = app.prior /\ app'.before = app.before
    BY <1>1, <1>2, ReportIs, Zenon
  <2>2. UpgradeOutcomeTrue'
    BY <1>1, <1>2, <2>1, Zenon DEF UpgradeOutcomeTrue, Kept
  <2> QED
    BY <2>1, <2>2, Zenon DEF Upgrading, Waiting
<1>3. CASE current' = app.id /\ ApplyAt("restart")
  <2>1. /\ app'.pc = "restart" /\ app'.back = FALSE /\ app'.outcome = None /\ app'.id = app.id
        /\ app'.prior = app.prior /\ app'.before = app.before /\ app'.bytes = app.bytes
    BY <1>1, <1>3, PhaseIs, Zenon
  <2>2. app'.outcome # "manual"
    BY <2>1, NoneAssumption, Zenon
  <2>3. Upgrading'
    BY <1>1, <1>3, <2>1, Zenon DEF Upgrading, Kept, Forth
  <2> QED
    BY <2>1, <2>2, <2>3, Zenon DEF Waiting, UpgradeOutcomeTrue
<1> QED
  BY <1>2, <1>3, Zenon DEF ActivateBinary

(* What holds of an upgrade that moved the link.                           *)
LEMMA Moved ==
  ASSUME UpInv, app.pc \in {"restart", "restarting", "probe", "revert"}
  PROVE  /\ app \in Upgrades /\ srv \in Processes /\ app.outcome = None /\ app.id \in Ids
         /\ app.bytes # None /\ Kept /\ app.back \in BOOLEAN /\ app.id # None /\ None # "manual"
<1>1. app \in Upgrades /\ srv \in Processes /\ Upgrading
  BY Zenon DEF UpInv, UpTypes
<1>2. app.back \in BOOLEAN
  BY <1>1, Zenon DEF Upgrades
<1> QED
  BY <1>1, <1>2, NoneAssumption, Zenon DEF Upgrading, Ids

(* A unit that does not come up: the upgrade turns back, or asks for an    *)
(* operator.                                                               *)
LEMMA FailureKeeps ==
  ASSUME UpInv, app.pc \in {"restart", "restarting", "probe"}, Failed(app.back), files' = files, current' = current
  PROVE  Upgrading' /\ Waiting' /\ UpgradeOutcomeTrue'
<1>1. /\ app \in Upgrades /\ app.outcome = None /\ app.id \in Ids
      /\ app.bytes # None /\ Kept /\ app.back \in BOOLEAN
  BY Moved, Zenon
<1>2. CASE app.back
  <2>1. ResolveUpgrade("manual", TRUE)
    BY <1>2, Zenon DEF Failed
  <2>2. /\ app'.pc = "done" /\ app'.outcome = "manual" /\ app'.bytes = app.bytes /\ app'.notified = TRUE
    BY <1>1, <2>1, ReportIs, Zenon
  <2>3. UpgradeOutcomeTrue'
    BY <2>2, Zenon DEF UpgradeOutcomeTrue
  <2> QED
    BY <2>2, <2>3, Zenon DEF Upgrading, Waiting
<1>3. CASE app.back = FALSE
  <2>1. ApplyAt("revert")
    BY <1>3, Zenon DEF Failed
  <2>2. /\ app'.pc = "revert" /\ app'.back = FALSE /\ app'.outcome = None /\ app'.id = app.id
        /\ app'.prior = app.prior /\ app'.before = app.before /\ app'.bytes = app.bytes
    BY <1>1, <1>3, <2>1, PhaseIs, Zenon
  <2>3. Upgrading'
    BY <1>1, <2>2, Zenon DEF Upgrading, Kept
  <2> QED
    BY <2>2, <2>3, Zenon DEF Waiting, UpgradeOutcomeTrue
<1> QED
  BY <1>1, <1>2, <1>3, Zenon

(* The upgrade orders a restart.                                           *)
LEMMA RestartKeeps ==
  ASSUME UpInv, RestartWebhook
  PROVE  Upgrading' /\ Waiting' /\ UpgradeOutcomeTrue'
<1>1. app.pc = "restart" /\ files' = files /\ current' = current
  BY Zenon DEF RestartWebhook, binVars
<1>2. /\ app \in Upgrades /\ srv \in Processes /\ app.outcome = None /\ app.id \in Ids
      /\ app.bytes # None /\ Kept /\ app.back \in BOOLEAN /\ None # "manual"
  BY <1>1, Moved, Zenon
<1>3. CASE Failed(app.back)
  BY <1>1, <1>3, FailureKeeps, Zenon
<1>4. CASE SigTerm /\ ApplyAt("restarting")
  <2>1. /\ app'.pc = "restarting" /\ app'.back = app.back /\ app'.outcome = None /\ app'.id = app.id
        /\ app'.prior = app.prior /\ app'.before = app.before /\ app'.bytes = app.bytes
    BY <1>2, <1>4, PhaseIs, Zenon
  <2>2. srv'.up => srv'.term
    BY <1>2, <1>4, Zenon DEF SigTerm, Processes
  <2>3. Upgrading
    BY Zenon DEF UpInv
  <2>4. Upgrading'
    BY <1>1, <1>2, <2>1, <2>3, Zenon DEF Upgrading, Kept, Forth
  <2> QED
    BY <2>1, <2>2, <2>4, Zenon DEF Waiting, UpgradeOutcomeTrue
<1> QED
  BY <1>3, <1>4, Zenon DEF RestartWebhook

(* The unit is up again, from the link.                                    *)
LEMMA RestartedKeeps ==
  ASSUME UpInv, Restarted
  PROVE  Upgrading' /\ Waiting' /\ UpgradeOutcomeTrue'
<1>1. app.pc = "restarting" /\ files' = files /\ current' = current
  BY Zenon DEF Restarted, binVars
<1>2. /\ app \in Upgrades /\ srv \in Processes /\ app.outcome = None /\ app.id \in Ids
      /\ app.bytes # None /\ Kept /\ app.back \in BOOLEAN /\ app.id # None /\ None # "manual"
  BY <1>1, Moved, Zenon
<1>3. CASE Failed(app.back)
  BY <1>1, <1>3, FailureKeeps, Zenon
<1>4. CASE StartWebhook /\ ApplyAt("probe") /\ probe' = "waiting"
  <2>1. /\ app'.pc = "probe" /\ app'.back = app.back /\ app'.outcome = None /\ app'.id = app.id
        /\ app'.prior = app.prior /\ app'.before = app.before /\ app'.bytes = app.bytes
    BY <1>2, <1>4, PhaseIs, Zenon
  <2>2. Upgrading /\ Waiting
    BY Zenon DEF UpInv
  <2>3. current # None /\ (app.back = FALSE => Forth)
    BY <1>1, <1>2, <2>2, Zenon DEF Upgrading, Forth
  <2>4. srv'.up = TRUE /\ srv'.image = files[current]
    <3>1. CASE srv' = srv /\ srv.up = TRUE /\ srv.term = FALSE
      BY <1>1, <2>2, <3>1, Zenon DEF Waiting
    <3> QED
      BY <1>2, <1>4, <2>3, <3>1, StartIs, Zenon
  <2>5. Upgrading'
    BY <1>1, <1>2, <2>1, <2>2, Zenon DEF Upgrading, Kept, Forth
  <2>6. Waiting'
    BY <1>1, <1>2, <1>4, <2>1, <2>3, <2>4, Zenon DEF Waiting, Forth
  <2> QED
    BY <2>1, <2>5, <2>6, Zenon DEF UpgradeOutcomeTrue
<1> QED
  BY <1>3, <1>4, Zenon DEF Restarted

(* A unit that answers: committed on the new binary, or reverted.          *)
LEMMA HealthyKeeps ==
  ASSUME UpInv, Healthy
  PROVE  Upgrading' /\ Waiting' /\ UpgradeOutcomeTrue'
<1>1. app.pc = "probe" /\ probe = "healthy" /\ current' = current
  BY Zenon DEF Healthy
<1>2. /\ app \in Upgrades /\ app.outcome = None /\ app.id \in Ids
      /\ app.bytes # None /\ Kept /\ app.back \in BOOLEAN
  BY <1>1, Moved, Zenon
<1>3. Upgrading /\ Waiting
  BY Zenon DEF UpInv
<1>4. CASE app.back
  <2>1. ResolveUpgrade("reverted", TRUE) /\ files' = files
    BY <1>4, Zenon DEF Healthy
  <2>2. /\ app'.pc = "done" /\ app'.outcome = "reverted" /\ app'.bytes = app.bytes /\ app'.notified = TRUE
        /\ app'.id = app.id /\ app'.prior = app.prior /\ app'.before = app.before
    BY <1>2, <2>1, ReportIs, Zenon
  <2>3. current = app.prior /\ app.prior # None
    BY <1>1, <1>3, <1>4, Zenon DEF Upgrading
  <2>4. UpgradeOutcomeTrue'
    BY <1>1, <1>2, <2>1, <2>2, <2>3, Zenon DEF UpgradeOutcomeTrue, Kept
  <2> QED
    BY <2>2, <2>4, Zenon DEF Upgrading, Waiting
<1>5. CASE app.back = FALSE
  <2>1. /\ ResolveUpgrade("committed", FALSE)
        /\ \E keep \in 1..2 : files' = [id \in Ids |-> IF id \in Prune(keep) THEN files[id] ELSE None]
    BY <1>5, Zenon DEF Healthy
  <2>2. /\ app'.pc = "done" /\ app'.outcome = "committed" /\ app'.bytes = app.bytes /\ app'.back = FALSE
        /\ app'.id = app.id /\ app'.prior = app.prior /\ app'.before = app.before
    BY <1>2, <1>5, <2>1, ReportIs, Zenon
  <2>3. Forth /\ Works(app.bytes)
    BY <1>1, <1>3, <1>5, Zenon DEF Upgrading, Waiting
  <2>4. files'[current] = files[current]
    <3>1. PICK keep \in 1..2 : files' = [id \in Ids |-> IF id \in Prune(keep) THEN files[id] ELSE None]
      BY <2>1, Zenon
    <3>2. current \in Ids /\ current \in Prune(keep)
      BY <1>2, <2>3, Zenon DEF Forth, Prune
    <3> QED
      BY <3>1, <3>2, Zenon
  <2>5. UpgradeOutcomeTrue'
    BY <1>1, <2>2, <2>3, <2>4, Zenon DEF UpgradeOutcomeTrue, Forth, Works
  <2> QED
    BY <2>2, <2>5, Zenon DEF Upgrading, Waiting
<1> QED
  BY <1>2, <1>4, <1>5, Zenon

(* A probe that times out.                                                 *)
LEMMA TimeoutKeeps ==
  ASSUME UpInv, HealthTimeout
  PROVE  Upgrading' /\ Waiting' /\ UpgradeOutcomeTrue'
<1>1. app.pc = "probe" /\ files' = files /\ current' = current /\ Failed(app.back)
  BY Zenon DEF HealthTimeout, binVars
<1> QED
  BY <1>1, FailureKeeps, Zenon

(* A revert points the link back to what was there before.                 *)
LEMMA RevertKeeps ==
  ASSUME UpInv, Revert
  PROVE  Upgrading' /\ Waiting' /\ UpgradeOutcomeTrue'
<1>1. app.pc = "revert" /\ files' = files
  BY Zenon DEF Revert
<1>2. /\ app \in Upgrades /\ app.outcome = None /\ app.id \in Ids
      /\ app.bytes # None /\ Kept /\ app.back \in BOOLEAN
  BY <1>1, Moved, Zenon
<1>4. CASE ResolveUpgrade("manual", TRUE)
  <2>1. /\ app'.pc = "done" /\ app'.outcome = "manual" /\ app'.bytes = app.bytes /\ app'.notified = TRUE
    BY <1>2, <1>4, ReportIs, Zenon
  <2>2. UpgradeOutcomeTrue'
    BY <2>1, Zenon DEF UpgradeOutcomeTrue
  <2> QED
    BY <2>1, <2>2, Zenon DEF Upgrading, Waiting
<1>5. CASE /\ app.prior # None /\ current' = app.prior
           /\ app' = [app EXCEPT !.pc = "restart", !.back = TRUE]
  <2>1. /\ app'.pc = "restart" /\ app'.back = TRUE /\ app'.outcome = app.outcome /\ app'.id = app.id
        /\ app'.prior = app.prior /\ app'.before = app.before /\ app'.bytes = app.bytes
    BY <1>2, <1>5, Zenon DEF Upgrades
  <2>2. Upgrading'
    BY <1>1, <1>2, <1>5, <2>1, Zenon DEF Upgrading, Kept
  <2> QED
    BY <1>2, <2>1, <2>2, Zenon DEF Waiting, UpgradeOutcomeTrue
<1> QED
  BY <1>4, <1>5, Zenon DEF Revert

(* An upgrade that dies reports nothing.                                   *)
LEMMA DyingKeeps ==
  ASSUME UpInv, ApplyDies
  PROVE  Upgrading' /\ Waiting' /\ UpgradeOutcomeTrue'
<1>1. app \in Upgrades /\ ApplyAt("dead")
  BY Zenon DEF UpInv, UpTypes, ApplyDies
<1>2. app'.pc = "dead"
  BY <1>1, PhaseIs, Zenon
<1> QED
  BY <1>2, Zenon DEF Upgrading, Waiting, UpgradeOutcomeTrue

(* A step that moves neither a file nor the link, and commits nothing.     *)
LEMMA WholeKept ==
  ASSUME Whole, app.pc # "start", app'.pc # "start", files' = files, current' = current,
         app'.id = app.id, app'.prior = app.prior, app'.before = app.before,
         app.outcome # "committed"
  PROVE  Whole'
BY Zenon DEF Whole, Intact

(* The upgrade moves the link only between whole binaries, and writes only *)
(* what the link does not name.                                            *)
LEMMA ApplyWhole ==
  ASSUME UpInv, Apply
  PROVE  Whole'
<1>1. UpTypes /\ Upgrading /\ Whole /\ app \in Upgrades /\ files \in [Ids -> Binaries]
      /\ app.prior \in Ids \cup {None} /\ app.bytes \in {"v2", "broken", None}
  BY Zenon DEF UpInv, UpTypes, Upgrades
<1>2. None # "committed"
  BY NoneAssumption, Zenon
<1>3. CASE Fetch
  <2>1. /\ files' = files /\ current' = current /\ app.pc = "start" /\ app.outcome = None
        /\ app.id = None /\ app.prior = None
    BY <1>1, <1>3, Zenon DEF Fetch, binVars, Upgrading
  <2>2. CASE ResolveUpgrade("aborted", FALSE)
    <3>1. app'.pc = "done" /\ app'.id = app'.prior
      BY <1>1, <2>1, <2>2, ReportIs, Zenon
    <3> QED
      BY <3>1, Zenon DEF Whole
  <2>3. CASE \E b \in {"v2", "broken"}, id \in Ids :
                app' = [app EXCEPT !.pc = "stage", !.bytes = b, !.id = id, !.prior = current, !.before = files]
    <3>1. app'.pc = "stage" /\ app'.prior = current /\ app'.before = files
      BY <1>1, <2>3, ZenonT(30) DEF Upgrades
    <3>2. Intact
      BY <1>1, <2>1, Zenon DEF Whole
    <3> QED
      BY <2>1, <3>1, <3>2, Zenon DEF Whole, Intact
  <2> QED
    BY <1>3, <2>2, <2>3, Zenon DEF Fetch
<1>4. CASE Stage
  <2>1. /\ current' = current /\ app.pc = "stage" /\ app.id \in Ids /\ current = app.prior
        /\ app.outcome = None
    BY <1>1, <1>4, Zenon DEF Stage, Upgrading
  <2>2. files' = files \/ \E b : files' = [files EXCEPT ![app.id] = b]
    BY <1>4, Zenon DEF Stage
  <2>3. app.id # app.prior /\ app.prior # None => files'[app.prior] = files[app.prior]
    BY <1>1, <2>1, <2>2, Zenon
  <2>4. ApplyAt("activate") \/ ResolveUpgrade("aborted", FALSE)
    BY <1>4, Zenon DEF Stage
  <2>5. /\ app'.pc # "start" /\ app'.id = app.id /\ app'.prior = app.prior
        /\ app'.before = app.before /\ app.outcome # "committed"
    BY <1>1, <1>2, <2>1, <2>4, ZenonT(30) DEF ApplyAt, ResolveUpgrade, Upgrades
  <2> QED
    BY <1>1, <2>1, <2>3, <2>5, Zenon DEF Whole, Intact
<1>5. CASE ActivateBinary
  <2>1. /\ files' = files /\ app.pc = "activate" /\ app.id \in Ids /\ files[app.id] = app.bytes
        /\ app.bytes # None /\ app.outcome = None
    BY <1>1, <1>5, Zenon DEF ActivateBinary, Upgrading
  <2>2. ApplyAt("restart") \/ ResolveUpgrade("aborted", FALSE)
    BY <1>5, Zenon DEF ActivateBinary
  <2>3. /\ app'.pc # "start" /\ app'.id = app.id /\ app'.prior = app.prior
        /\ app'.before = app.before /\ app.outcome # "committed"
    BY <1>1, <1>2, <2>1, <2>2, ZenonT(30) DEF ApplyAt, ResolveUpgrade, Upgrades
  <2>4. CASE current' = current
    BY <1>1, <2>1, <2>3, <2>4, WholeKept, Zenon
  <2>5. CASE current' = app.id
    <3>1. files'[current'] \notin {None, "torn"}
      BY <1>1, <2>1, <2>5, Zenon
    <3> QED
      BY <1>1, <2>1, <2>3, <2>5, <3>1, Zenon DEF Whole, Intact
  <2> QED
    BY <1>5, <2>4, <2>5, Zenon DEF ActivateBinary
<1>6. CASE RestartWebhook \/ Restarted \/ HealthTimeout
  <2>1. /\ files' = files /\ current' = current /\ app.pc \in {"restart", "restarting", "probe"}
        /\ \/ ApplyAt("restarting") \/ ApplyAt("probe") \/ ApplyAt("revert")
           \/ ResolveUpgrade("manual", TRUE)
    BY <1>6, Zenon DEF RestartWebhook, Restarted, HealthTimeout, Failed, binVars
  <2>2. /\ app'.pc # "start" /\ app'.id = app.id /\ app'.prior = app.prior /\ app'.before = app.before
    BY <1>1, <2>1, ZenonT(30) DEF ApplyAt, ResolveUpgrade, Upgrades
  <2>3. app.outcome # "committed" /\ app.pc # "start"
    BY <1>1, <1>2, <2>1, Zenon DEF Upgrading
  <2> QED
    BY <1>1, <2>1, <2>2, <2>3, WholeKept, Zenon
<1>7. CASE Healthy
  <2>1. /\ current' = current /\ app.pc = "probe" /\ app.outcome = None
    BY <1>1, <1>7, Zenon DEF Healthy, Upgrading
  <2>2. CASE app.back
    <3>1. files' = files /\ ResolveUpgrade("reverted", TRUE)
      BY <1>7, <2>2, Zenon DEF Healthy
    <3>2. app'.pc # "start" /\ app'.id = app.id /\ app'.prior = app.prior /\ app'.before = app.before
      BY <1>1, <3>1, ReportIs, Zenon
    <3> QED
      BY <1>1, <1>2, <2>1, <3>1, <3>2, WholeKept, Zenon
  <2>3. CASE ~app.back
    <3>1. /\ ResolveUpgrade("committed", FALSE)
          /\ \E keep \in 1..2 : files' = [id \in Ids |-> IF id \in Prune(keep) THEN files[id] ELSE None]
      BY <1>7, <2>3, Zenon DEF Healthy
    <3>2. /\ app'.pc = "done" /\ app'.id = app.id /\ app'.prior = app.prior /\ app'.before = app.before
          /\ app'.outcome = "committed"
      BY <1>1, <3>1, ReportIs, Zenon
    <3>3. current # None => files'[current] = files[current]
      <4>1. PICK keep \in 1..2 : files' = [id \in Ids |-> IF id \in Prune(keep) THEN files[id] ELSE None]
        BY <3>1, Zenon
      <4>2. current # None => current \in Ids /\ current \in Prune(keep)
        BY <1>1, Zenon DEF UpTypes, Prune
      <4> QED
        BY <4>1, <4>2, Zenon
    <3> QED
      BY <1>1, <2>1, <3>2, <3>3, Zenon DEF Whole, Intact
  <2> QED
    BY <2>2, <2>3, Zenon
<1>8. CASE Revert
  <2>1. files' = files /\ app.pc = "revert" /\ app.outcome = None
    BY <1>1, <1>8, Zenon DEF Revert, Upgrading
  <2>2. CASE current' = current /\ ResolveUpgrade("manual", TRUE)
    <3>1. app'.pc # "start" /\ app'.id = app.id /\ app'.prior = app.prior /\ app'.before = app.before
      BY <1>1, <2>2, ReportIs, Zenon
    <3> QED
      BY <1>1, <1>2, <2>1, <2>2, <3>1, WholeKept, Zenon
  <2>3. CASE /\ app.prior # None /\ current' = app.prior
             /\ app' = [app EXCEPT !.pc = "restart", !.back = TRUE]
    <3>1. /\ app'.pc = "restart" /\ app'.outcome = app.outcome /\ app'.id = app.id
          /\ app'.prior = app.prior /\ app'.before = app.before
      BY <1>1, <2>3, Zenon DEF Upgrades
    <3>2. app.id # app.prior =>
             files[app.prior] = app.before[app.prior] /\ app.before[app.prior] \notin {None, "torn"}
      BY <1>1, <1>2, <2>1, <2>3, Zenon DEF Whole
    <3> QED
      BY <2>1, <2>3, <3>1, <3>2, Zenon DEF Whole, Intact
  <2> QED
    BY <1>8, <2>2, <2>3, Zenon DEF Revert
<1>9. CASE ApplyDies
  <2>1. files' = files /\ current' = current /\ app.pc \notin {"start", "done"} /\ ApplyAt("dead")
    BY <1>9, Zenon DEF ApplyDies, binVars
  <2>2. /\ app'.pc = "dead" /\ app'.id = app.id /\ app'.prior = app.prior /\ app'.before = app.before
        /\ app'.outcome = app.outcome
    BY <1>1, <2>1, PhaseIs, Zenon
  <2> QED
    BY <1>1, <2>1, <2>2, Zenon DEF Whole, Intact
<1> QED
  BY <1>3, <1>4, <1>5, <1>6, <1>7, <1>8, <1>9, Zenon DEF Apply

(* Every step of the server, the unit, the upgrade and the drain keeps the *)
(* invariant.                                                              *)
LEMMA UpgradeNext == UpInv /\ [UpNext]_upVars => UpInv'
<1> SUFFICES ASSUME UpInv, [UpNext]_upVars PROVE UpInv'
  BY Zenon
<1>1. UpTypes /\ Serving /\ Draining /\ Upgrading /\ Waiting /\ Whole /\ UpgradeOutcomeTrue
  BY Zenon DEF UpInv
<1>2. CASE UNCHANGED upVars
  <2>1. /\ req' = req /\ late' = late /\ srv' = srv /\ activated' = activated /\ files' = files
        /\ current' = current /\ app' = app /\ probe' = probe /\ cmd' = cmd
        /\ drainFlag' = drainFlag /\ coord' = coord
    BY <1>2, Zenon DEF upVars, webVars, binVars
  <2>2. UpTypes' /\ Serving'
    BY <1>1, <2>1, ZenonT(30) DEF UpTypes, Serving
  <2>3. Draining'
    BY <1>1, <2>1, DrainKept, Zenon
  <2>4. Waiting'
    BY <1>1, <2>1, Zenon DEF Waiting
  <2> QED
    BY <1>1, <2>1, <2>2, <2>3, <2>4, UpgradeKept, Zenon DEF UpInv
<1>3. ASSUME NEW p \in Posts, Arrive(p) \/ Accept(p) \/ Dispatch(p) \/ DeployLocks(p) \/ DeployEnds(p) PROVE UpInv'
  BY <1>1, <1>3, WebTypes, WebServing, WebDraining, WebWaits, Zenon DEF UpInv
<1>4. CASE AnswerProbe \/ ExitOnTerm \/ StopDeadline \/ BootsThenDies \/ RestartOnFailure
  BY <1>1, <1>4, UnitTypes, UnitServing, UnitDraining, UnitWaits, Zenon DEF UpInv
<1>5. CASE Apply
  <2>1. req' = req /\ UNCHANGED <<late, drainFlag, coord>> /\ (srv' = srv \/ SigTerm \/ StartWebhook)
    BY <1>5, Zenon
    DEF Apply, Fetch, Stage, ActivateBinary, RestartWebhook, Restarted, StartFails, Healthy,
        HealthTimeout, Revert, ApplyDies, applyUnchanged
  <2>2. UpTypes' /\ Serving' /\ Draining'
    BY <1>1, <1>5, <2>1, ApplyTypes, RestartServing, DrainKept, Zenon
  <2>3. Upgrading' /\ Waiting' /\ UpgradeOutcomeTrue'
    BY <1>5, FetchKeeps, StageKeeps, ActivateKeeps, RestartKeeps, RestartedKeeps, HealthyKeeps,
       TimeoutKeeps,
       RevertKeeps, DyingKeeps, Zenon DEF Apply
  <2>4. Whole'
    BY <1>5, ApplyWhole, Zenon
  <2> QED
    BY <2>2, <2>3, <2>4, Zenon DEF UpInv
<1>6. CASE SelfUpgradeRestart \/ SelfUpgradeRestarted
  <2>1. req' = req /\ UNCHANGED <<late, drainFlag, coord>> /\ (srv' = srv \/ SigTerm \/ StartWebhook)
    BY <1>6, Zenon DEF SelfUpgradeRestart, SelfUpgradeRestarted, StartFails, restartUnchanged
  <2>2. Serving' /\ Draining'
    BY <1>1, <2>1, RestartServing, DrainKept, Zenon
  <2> QED
    BY <1>1, <1>6, <2>2, CommandTypes, CommandWaits, Zenon DEF UpInv
<1>7. CASE Drain
  <2>1. req' = req /\ srv' = srv
    BY <1>7, Zenon DEF Drain, RaiseFlag, Settled, Poll, DrainTimeout, drainUnchanged
  <2> QED
    BY <1>1, <1>7, <2>1, DrainTypes, RestartServing, DrainDraining, DrainWaits, Zenon DEF UpInv
<1> QED
  BY <1>2, <1>3, <1>4, <1>5, <1>6, <1>7, Zenon DEF UpNext

(* The server serves one connection at a time, by a binary that works; a   *)
(* drain lets no new deploy in; the upgrade knows what the unit runs while *)
(* it waits for it; and the link names a whole binary                      *)
(* (fraisier-webhook's serve, apply.rs, drain.rs).                         *)
THEOREM UnitFollowsUpgrade == UpSpec => []UpInv
BY UpgradeInit, UpgradeNext, PTL DEF UpSpec

(* What the upgrade and the drain report is so, and however an upgrade     *)
(* ends or dies the unit has a whole binary to start, the kept one as it   *)
(* was until the commit; for any restarts, of the upgrade and of an        *)
(* operator, and any deploys among them (apply, bring_up, revert,          *)
(* drain_in_flight, self_upgrade_restart).                                 *)
THEOREM UpgradesReportTrue == UpSpec => []UpgradeReportsTrue
<1>1. UpInv => BinariesStayWhole
  <2> SUFFICES ASSUME UpInv PROVE BinariesStayWhole
    BY Zenon
  <2>1. Whole /\ Upgrading
    BY Zenon DEF UpInv
  <2>2. app.pc = "start" => app.id = app.prior
    BY <2>1, Zenon DEF Upgrading
  <2> QED
    BY <2>1, <2>2, Zenon DEF Whole, Intact, BinariesStayWhole
<1>2. UpInv => UpgradeReportsTrue
  BY <1>1, Zenon DEF UpInv, Draining, UpgradeReportsTrue, DrainedMeansIdle
<1> QED
  BY <1>2, UnitFollowsUpgrade, PTL

(* A connection the server took keeps its server until it is answered or   *)
(* systemd's stop deadline kills it, whatever restarts the upgrade, an     *)
(* operator and systemd order (serve: SIGTERM is observed between two      *)
(* requests).                                                              *)
THEOREM DeploysAreNotCut == UpSpec => []NoDeployCutOff
<1>1. UpInv => NoDeployCutOff
  <2>1. \A p \in Posts : p # None
    BY NoneAssumption, Zenon
  <2> QED
    BY <2>1, Zenon DEF UpInv, Serving, Open, NoDeployCutOff
<1> QED
  BY <1>1, UnitFollowsUpgrade, PTL

-----------------------------------------------------------------------------
(* `fraisier db refresh`.                                                  *)

(* The elements of a list of units.                                        *)
Elems(s) == {s[i] : i \in 1..Len(s)}

(* The stages under the lock; those with every unit stopped; those that    *)
(* have changed no data.                                                   *)
Holding == {"isActive", "stop", "restart", "precheck", "marker", "sessions", "drop", "create", "mark",
            "extensions", "objects", "revoke", "revokeFailed", "rows", "migrate", "tables", "sanitize",
            "flag", "startUnits", "prove", "stopAgain", "release"}
Halting == {"precheck", "marker", "sessions", "drop", "create", "mark", "extensions", "objects", "revoke",
            "revokeFailed", "rows", "migrate", "tables", "sanitize", "flag"}
Harmless == {"isActive", "stop", "precheck", "marker", "sessions", "drop", "restart"}

(* The objects, the database, and what an invocation remembers.            *)
Entries == {"EXTENSION", "SCHEMA", "TABLE", "TABLE DATA"} \X (STRING \cup {"-"}) \X STRING
Databases == [there : BOOLEAN, marker : {"none", "mine", "other"}, grant : BOOLEAN,
              data : {"own", "none", "raw", "migrated", "ready"},
              objects : SUBSET Entries]
Causes == {"none", "stop", "refresh", "restore", "migrate", "tables", "sanitize", "outbound flag", "start"}
Reasons == [step : Causes, restarted : BOOLEAN]
Contents == [toc : Listings \cup {{}}, owner : BOOLEAN]

RunTypes ==
    /\ stage \in [Refreshes -> {"start", "archive", "lock", "done"} \cup Holding]
    /\ running \in [Refreshes -> Seq(Units)] /\ queue \in [Refreshes -> Seq(Units)]
    /\ listing \in [Refreshes -> Contents]
    /\ failure \in [Refreshes -> Reasons]
    /\ before \in [Refreshes -> {"own", "none", "raw", "migrated", "ready"}]
HostTypes ==
    /\ extra \in {<<Timer>>, <<Job, Timer>>} /\ loads \subseteq Units
    /\ units \in [Units -> {"stopped", "clear", "flagged"}] /\ flag \in BOOLEAN
    /\ database \in Databases
    /\ marking \in {"idle", "mine", "other", "over"}
    /\ outside \subseteq {Service} /\ cleared \in BOOLEAN /\ overmarked \in BOOLEAN

AllStopped == \A u \in ListedUnits : units[u] = "stopped"

(* Data that no unit may be started on.                                    *)
Unsafe == \/ database.data \notin {"own", "ready"}
          \/ database.data = "ready" /\ ~cleared /\ ~flag

(* What holds between the steps of whoever has the lock.                   *)
HostSafe ==
    /\ Unsafe => \A u \in ListedUnits \ outside : units[u] = "stopped"
    /\ database.data # "own" => LoadedByEveryUnit
    /\ database.grant => database.data = "raw"
    /\ FlaggedOnRefreshedData

(* A refresh on its way to the drop, or back.                              *)
Approach(r) ==
    /\ stage[r] \in Harmless =>
          /\ database.data = before[r]
          /\ Elems(running[r]) \subseteq ListedUnits
          /\ Unsafe => Elems(running[r]) \subseteq outside
    /\ stage[r] \in {"isActive", "stop"} =>
          /\ queue[r] \in {Stopped, <<Job, Service>>, <<Service>>}
          /\ queue[r] # Stopped => units[Timer] = "stopped"
          /\ queue[r] = <<Job, Service>> => Job \in ListedUnits
          /\ queue[r] = <<Service>> /\ Job \in ListedUnits => units[Job] = "stopped"
    /\ stage[r] = "restart" => Elems(queue[r]) \subseteq Elems(running[r])
    /\ stage[r] \in Halting => AllStopped
    /\ stage[r] \in {"sessions", "drop"} => database.there /\ (database.marker = "mine" \/ overmarked)

(* A refresh between the drop and the start of the units.                  *)
Filled(r) == LET toc == listing[r].toc IN
             {e \in toc : ~(e[1] = "TABLE DATA" /\ <<"TABLE", e[2], e[3]>> \notin toc)}
Refill(r) ==
    /\ stage[r] \in Halting \ {"precheck"} => listing[r].toc \in Listings
    /\ stage[r] \in {"create", "mark", "extensions", "objects"} => database.data = "none"
    /\ stage[r] = "objects" => database.objects = Made(ArchiveExtensions(listing[r].toc))
    /\ stage[r] \in {"revoke", "rows"} => Filled(r) \subseteq database.objects
    /\ stage[r] \in {"migrate", "tables", "sanitize"} => listing[r].toc \subseteq database.objects
    /\ stage[r] \in {"rows", "migrate", "tables", "sanitize"} => ~database.grant
    /\ stage[r] \in Halting \cup {"startUnits"} => Elems(running[r]) \subseteq ListedUnits
    /\ stage[r] \in {"flag", "startUnits"} => database.data = "ready"
    /\ stage[r] = "startUnits" => Elems(queue[r]) \subseteq ListedUnits /\ (flag \/ cleared)

(* What a refusal gives back.                                              *)
Returned(r) ==
    /\ failure[r].restarted => stage[r] \in {"restart", "release"}
    /\ stage[r] \in {"restart", "release"} /\ failure[r].restarted =>
          /\ database.data = before[r]
          /\ \A u \in Elems(running[r]) :
                \/ u = Job \/ units[u] # "stopped"
                \/ stage[r] = "restart" /\ u \in Elems(queue[r])

(* What is true of one invocation between any two steps.                   *)
Local(r) ==
    /\ stage[r] \in Holding => refreshLock = r
    /\ stage[r] \notin {"start", "done"} => LoadedByEveryUnit
    /\ stage[r] \in {"start", "archive", "lock"} => running[r] = <<>>
    /\ Approach(r) /\ Refill(r) /\ Returned(r)

RFInv == RunTypes /\ HostTypes /\ HostSafe /\ \A r \in Refreshes : Local(r)

(* Lists with the same elements are the same.                              *)
LEMMA SameList ==
  ASSUME NEW S, NEW s \in Seq(S), NEW t \in Seq(S), Len(s) = Len(t), \A i \in 1..Len(s) : s[i] = t[i]
  PROVE  s = t
OBVIOUS

(* The units a refresh stops.                                              *)
LEMMA StoppedIs ==
  ASSUME extra \in {<<Timer>>, <<Job, Timer>>}
  PROVE  \/ extra = <<Timer>> /\ Stopped = <<Timer, Service>>
         \/ extra = <<Job, Timer>> /\ Stopped = <<Timer, Job, Service>>
<1> DEFINE Fits(s, p) == \A i, j \in DOMAIN s : i < j => Precedes(s, p[i], p[j])
           order(s) == CHOOSE p \in [DOMAIN s -> DOMAIN s] : Fits(s, p)
<1>1. \A s : UnitsToStop(s) = Append([i \in DOMAIN s |-> s[order(s)[i]]], Service)
  BY Zenon DEF UnitsToStop
<1>2. CASE extra = <<Timer>>
  <2>1. <<1>> \in [DOMAIN <<Timer>> -> DOMAIN <<Timer>>] /\ Fits(<<Timer>>, <<1>>)
    BY DEF Precedes
  <2>2. \A p \in [DOMAIN <<Timer>> -> DOMAIN <<Timer>>] : p = <<1>>
    OBVIOUS
  <2>3. order(<<Timer>>) = <<1>>
    <3> HIDE DEF Fits
    <3> QED
      BY <2>1, <2>2, Zenon
  <2> HIDE DEF order
  <2>4. Append([i \in DOMAIN <<Timer>> |-> <<Timer>>[order(<<Timer>>)[i]]], Service) = <<Timer, Service>>
    <3>1. DOMAIN <<Timer>> = {1} /\ <<Timer>>[1] = Timer /\ <<1>>[1] = 1
      OBVIOUS
    <3>2. [i \in DOMAIN <<Timer>> |-> <<Timer>>[order(<<Timer>>)[i]]] = [i \in {1} |-> Timer]
      BY <2>3, <3>1, Zenon
    <3>3. [i \in {1} |-> Timer] = <<Timer>>
      OBVIOUS
    <3>4. Append(<<Timer>>, Service) = <<Timer, Service>>
      <4>1. <<Timer>> \in Seq(Units) /\ <<Timer, Service>> \in Seq(Units) /\ Service \in Units
        BY DEF Units
      <4>4. Append(<<Timer>>, Service) \in Seq(Units)
        BY <4>1
      <4>2. Len(Append(<<Timer>>, Service)) = 2 /\ Len(<<Timer, Service>>) = 2
        OBVIOUS
      <4>3. \A i \in 1..2 : Append(<<Timer>>, Service)[i] = <<Timer, Service>>[i]
        OBVIOUS
      <4> QED
        BY <4>1, <4>2, <4>3, <4>4, SameList, Zenon
    <3> QED
      BY <3>2, <3>3, <3>4, Zenon
  <2> QED
    BY <1>1, <1>2, <2>4, Zenon DEF Stopped
<1>3. CASE extra = <<Job, Timer>>
  <2>1. DOMAIN <<Job, Timer>> = {1, 2} /\ IsTimer(<<Job, Timer>>[2]) /\ ~IsTimer(<<Job, Timer>>[1])
    BY DEF IsTimer, Job, Timer
  <2>2. <<2, 1>> \in [{1, 2} -> {1, 2}]
    OBVIOUS
  <2>3. Fits(<<Job, Timer>>, <<2, 1>>)
    BY <2>1 DEF Precedes
  <2>4. ASSUME NEW p \in [{1, 2} -> {1, 2}], Fits(<<Job, Timer>>, p) PROVE p = <<2, 1>>
    <3>2. Precedes(<<Job, Timer>>, p[1], p[2])
      BY <2>1, <2>4
    <3>3. p[1] = 2 /\ p[2] = 1
      BY <2>1, <3>2 DEF Precedes
    <3> QED
      BY <3>3
  <2>5. order(<<Job, Timer>>) = <<2, 1>>
    <3> HIDE DEF Fits
    <3> QED
      BY <2>1, <2>2, <2>3, <2>4, Zenon
  <2> HIDE DEF order
  <2>6. Append([i \in DOMAIN <<Job, Timer>> |-> <<Job, Timer>>[order(<<Job, Timer>>)[i]]], Service)
          = <<Timer, Job, Service>>
    <3>1. <<Job, Timer>>[1] = Job /\ <<Job, Timer>>[2] = Timer /\ <<2, 1>>[1] = 2 /\ <<2, 1>>[2] = 1
      BY Zenon
    <3>2. [i \in DOMAIN <<Job, Timer>> |-> <<Job, Timer>>[order(<<Job, Timer>>)[i]]]
            = [i \in {1, 2} |-> IF i = 1 THEN Timer ELSE Job]
      BY <2>1, <2>5, <3>1, Zenon
    <3>3. [i \in {1, 2} |-> IF i = 1 THEN Timer ELSE Job] = <<Timer, Job>>
      OBVIOUS
    <3>4. Append(<<Timer, Job>>, Service) = <<Timer, Job, Service>>
      <4>1. <<Timer, Job>> \in Seq(Units) /\ <<Timer, Job, Service>> \in Seq(Units) /\ Service \in Units
        BY DEF Units
      <4>4. Append(<<Timer, Job>>, Service) \in Seq(Units)
        BY <4>1
      <4>2. Len(Append(<<Timer, Job>>, Service)) = 3 /\ Len(<<Timer, Job, Service>>) = 3
        OBVIOUS
      <4>3. \A i \in 1..3 : Append(<<Timer, Job>>, Service)[i] = <<Timer, Job, Service>>[i]
        OBVIOUS
      <4> QED
        BY <4>1, <4>2, <4>3, <4>4, SameList, Zenon
    <3> QED
      BY <3>2, <3>3, <3>4, Zenon
  <2> QED
    BY <1>1, <1>3, <2>6, Zenon DEF Stopped
<1> QED
  BY <1>2, <1>3, Zenon

(* The elements of the lists.                                              *)
LEMMA ElemsAre ==
  ASSUME NEW S, NEW s \in Seq(S)
  PROVE  /\ Elems(s) \subseteq S
         /\ s = <<>> <=> Elems(s) = {}
         /\ s # <<>> => /\ Head(s) \in Elems(s) /\ Tail(s) \in Seq(S)
                        /\ Elems(s) = {Head(s)} \cup Elems(Tail(s))
         /\ \A u \in S : Append(s, u) \in Seq(S) /\ Elems(Append(s, u)) = Elems(s) \cup {u}
         /\ StartOrder(s) \in Seq(S) /\ Elems(StartOrder(s)) = Elems(s)
<1>1. Elems(s) \subseteq S /\ (s = <<>> <=> Elems(s) = {})
  BY DEF Elems
<1>2. s # <<>> => Head(s) \in Elems(s) /\ Tail(s) \in Seq(S)
  BY DEF Elems
<1>3. s # <<>> => Elems(s) = {Head(s)} \cup Elems(Tail(s))
  <2> SUFFICES ASSUME s # <<>> PROVE Elems(s) = {Head(s)} \cup Elems(Tail(s))
    BY Zenon
  <2>1. Len(Tail(s)) = Len(s) - 1 /\ \A i \in 1..Len(s) - 1 : Tail(s)[i] = s[i + 1]
    OBVIOUS
  <2>2. ASSUME NEW i \in 1..Len(s) PROVE s[i] \in {Head(s)} \cup Elems(Tail(s))
    <3>1. CASE i = 1
      BY <3>1
    <3>2. CASE i # 1
      <4>1. i - 1 \in 1..Len(Tail(s)) /\ Tail(s)[i - 1] = s[i]
        BY <2>1, <3>2
      <4> QED
        BY <4>1, Zenon DEF Elems
    <3> QED
      BY <3>1, <3>2, Zenon
  <2>3. ASSUME NEW i \in 1..Len(Tail(s)) PROVE Tail(s)[i] \in Elems(s)
    <3>1. i + 1 \in 1..Len(s) /\ Tail(s)[i] = s[i + 1]
      BY <2>1
    <3> QED
      BY <3>1, Zenon DEF Elems
  <2> QED
    BY <1>2, <2>2, <2>3, Zenon DEF Elems
<1>4. ASSUME NEW u \in S PROVE Append(s, u) \in Seq(S) /\ Elems(Append(s, u)) = Elems(s) \cup {u}
  BY DEF Elems
<1>5. StartOrder(s) \in Seq(S) /\ Elems(StartOrder(s)) = Elems(s)
  <2>1. StartOrder(s) \in Seq(S) /\ Len(StartOrder(s)) = Len(s)
        /\ \A i \in 1..Len(s) : StartOrder(s)[i] = s[Len(s) - i + 1]
    BY DEF StartOrder
  <2>2. ASSUME NEW i \in 1..Len(s) PROVE s[i] \in Elems(StartOrder(s))
    <3>1. PICK k \in 1..Len(s) : k = Len(s) - i + 1
      BY SMTT(30)
    <3>2. StartOrder(s)[k] = s[Len(s) - k + 1] /\ Len(s) - k + 1 = i
      BY <2>1, <3>1
    <3> QED
      BY <2>1, <3>2, Zenon DEF Elems
  <2>3. ASSUME NEW i \in 1..Len(s) PROVE StartOrder(s)[i] \in Elems(s)
    <3>1. Len(s) - i + 1 \in 1..Len(s) /\ StartOrder(s)[i] = s[Len(s) - i + 1]
      BY <2>1
    <3> QED
      BY <3>1, Zenon DEF Elems
  <2> QED
    BY <2>1, <2>2, <2>3, Zenon DEF Elems
<1> QED
  BY <1>1, <1>2, <1>3, <1>4, <1>5, Zenon

(* The three units differ.                                                 *)
LEMMA Names == Timer # Job /\ Timer # Service /\ Job # Service /\ Units = {Service, Timer, Job}
BY Zenon DEF Timer, Job, Service, Units

(* The timer is stopped first and [service] last.                          *)
LEMMA ListedIs ==
  ASSUME HostTypes
  PROVE  /\ Stopped \in Seq(Units) /\ Stopped # <<>> /\ Head(Stopped) = Timer /\ Len(Stopped) # 1
         /\ ListedUnits = Elems(Stopped) /\ ListedUnits \subseteq Units
         /\ Timer \in ListedUnits /\ Service \in ListedUnits
         /\ Job \in ListedUnits => Tail(Stopped) = <<Job, Service>>
         /\ Job \notin ListedUnits => Tail(Stopped) = <<Service>>
         /\ Stopped # <<Service>> /\ Stopped # <<Job, Service>>
         /\ LoadedByEveryUnit => Job \in loads /\ Service \in loads
<1>1. ListedUnits = Elems(Stopped)
  BY Zenon DEF ListedUnits, Elems
<1>2. CASE Stopped = <<Timer, Service>>
  <2>1. Stopped \in Seq(Units) /\ Stopped # <<>> /\ Head(Stopped) = Timer /\ Len(Stopped) = 2
        /\ Stopped[1] = Timer /\ Stopped[2] = Service
    BY <1>2, Names
  <2>2. ListedUnits = {Timer, Service}
    <3>1. 1..Len(Stopped) = {1, 2}
      BY <2>1
    <3> QED
      BY <2>1, <3>1, Zenon DEF ListedUnits
  <2>3. Tail(Stopped) = <<Service>>
    BY <1>2
  <2>4. Stopped # <<Service>> /\ Stopped # <<Job, Service>>
    BY <1>2, Names, Zenon
  <2>5. LoadedByEveryUnit => Job \in loads /\ Service \in loads
    BY <2>1, Names DEF LoadedByEveryUnit, IsTimer
  <2> QED
    BY <1>1, <2>1, <2>2, <2>3, <2>4, <2>5, Names, Zenon
<1>3. CASE Stopped = <<Timer, Job, Service>>
  <2>1. Stopped \in Seq(Units) /\ Stopped # <<>> /\ Head(Stopped) = Timer /\ Len(Stopped) = 3
        /\ Stopped[1] = Timer /\ Stopped[2] = Job /\ Stopped[3] = Service
    BY <1>3, Names
  <2>2. ListedUnits = {Timer, Job, Service}
    <3>1. 1..Len(Stopped) = {1, 2, 3}
      BY <2>1
    <3> QED
      BY <2>1, <3>1, Zenon DEF ListedUnits
  <2>3. Tail(Stopped) = <<Job, Service>>
    BY <1>3
  <2>4. Stopped # <<Service>> /\ Stopped # <<Job, Service>>
    BY <1>3, Names, Zenon
  <2>5. LoadedByEveryUnit => Job \in loads /\ Service \in loads
    BY <2>1, Names DEF LoadedByEveryUnit, IsTimer
  <2> QED
    BY <1>1, <2>1, <2>2, <2>3, <2>4, <2>5, Names, Zenon
<1> QED
  BY <1>2, <1>3, StoppedIs, Zenon DEF HostTypes

(* The lists are the config's, and nobody changes it.                      *)
LEMMA ConfigStays ==
  ASSUME extra' = extra, loads' = loads
  PROVE  Stopped' = Stopped /\ ListedUnits' = ListedUnits /\ (LoadedByEveryUnit' <=> LoadedByEveryUnit)
<1>1. Stopped' = Stopped
  BY Zenon DEF Stopped
<1> QED
  BY <1>1, Zenon DEF ListedUnits, LoadedByEveryUnit

(* How an invocation moves, and what it leaves of the others.              *)
LEMMA GotoIs ==
  ASSUME RunTypes, NEW r \in Refreshes, NEW where, Goto(r, where)
  PROVE  /\ stage'[r] = where /\ running'[r] = running[r] /\ queue'[r] = queue[r]
         /\ listing'[r] = listing[r] /\ failure'[r] = failure[r] /\ before'[r] = before[r]
         /\ \A q \in Refreshes \ {r} : stage'[q] = stage[q] /\ failure'[q] = failure[q] /\ running'[q] = running[q]
         /\ where \in Holding \cup {"archive", "lock"} => RunTypes'
<1>1. stage' = [stage EXCEPT ![r] = where] /\ running' = running /\ queue' = queue /\ listing' = listing
      /\ failure' = failure /\ before' = before
  BY Zenon DEF Goto
<1> QED
  BY <1>1, Zenon DEF RunTypes

(* A refresh that is over.                                                 *)
LEMMA FinishIs ==
  ASSUME RunTypes, NEW r \in Refreshes, Finish(r)
  PROVE  /\ stage'[r] = "done" /\ failure'[r] = NoFailure
         /\ \A q \in Refreshes \ {r} : stage'[q] = stage[q] /\ failure'[q] = failure[q] /\ running'[q] = running[q]
         /\ RunTypes'
<1>1. NoArchive \in Contents
  BY Zenon DEF NoArchive, Contents
<1>2. NoFailure \in Reasons
  BY Zenon DEF NoFailure, Reasons, Causes
<1>3. <<>> \in Seq(Units)
  OBVIOUS
<1> QED
  BY <1>1, <1>2, <1>3, Zenon DEF Finish, RunTypes

(* A refusal turns to starting the units that it stopped.                  *)
LEMMA RestartIs ==
  ASSUME RunTypes, NEW r \in Refreshes, NEW step \in Causes, Restart(r, step, running[r]), UNCHANGED running
  PROVE  /\ stage'[r] = "restart" /\ running'[r] = running[r] /\ queue'[r] = StartOrder(running[r])
         /\ failure'[r] = [step |-> step, restarted |-> TRUE] /\ before'[r] = before[r]
         /\ \A q \in Refreshes \ {r} : stage'[q] = stage[q] /\ failure'[q] = failure[q] /\ running'[q] = running[q]
         /\ RunTypes'
<1>1. running[r] \in Seq(Units)
  BY Zenon DEF RunTypes
<1>2. StartOrder(running[r]) \in Seq(Units)
  BY <1>1, ElemsAre, Zenon
<1>3. [step |-> step, restarted |-> TRUE] \in Reasons
  BY Zenon DEF Reasons
<1> QED
  BY <1>2, <1>3, Zenon DEF Restart, RunTypes, Holding

(* A failure past the drop.                                                *)
LEMMA FailIs ==
  ASSUME RunTypes, NEW r \in Refreshes, NEW step \in Causes, FailAt(r, step)
  PROVE  /\ stage'[r] = "release" /\ failure'[r] = FailureAt(step)
         /\ \A q \in Refreshes \ {r} : stage'[q] = stage[q] /\ failure'[q] = failure[q] /\ running'[q] = running[q]
         /\ RunTypes'
<1>1. FailureAt(step) \in Reasons
  BY Zenon DEF Reasons, FailureAt
<1> QED
  BY <1>1, Zenon DEF FailAt, RunTypes, Holding

(* A failure after the start turns to stopping the units again.            *)
LEMMA StopAgainIs ==
  ASSUME RunTypes, HostTypes, NEW r \in Refreshes, NEW step \in Causes, StopAgain(r, step)
  PROVE  /\ stage'[r] = "stopAgain" /\ failure'[r] = FailureAt(step)
         /\ \A q \in Refreshes \ {r} : stage'[q] = stage[q] /\ failure'[q] = failure[q] /\ running'[q] = running[q]
         /\ RunTypes'
<1>1. FailureAt(step) \in Reasons
  BY Zenon DEF Reasons, FailureAt
<1>2. Stopped \in Seq(Units)
  BY ListedIs, Zenon
<1> QED
  BY <1>1, <1>2, Zenon DEF StopAgain, RunTypes, Holding

(* An invocation that holds no lock has nothing to lose.                   *)
LEMMA QuietKeeps ==
  ASSUME NEW q, Local(q), stage[q] \notin Holding, stage'[q] = stage[q], failure'[q] = failure[q],
         running'[q] = running[q], extra' = extra, loads' = loads
  PROVE  Local(q)'
<1>1. LoadedByEveryUnit' <=> LoadedByEveryUnit
  BY ConfigStays, Zenon
<1>2. stage'[q] \notin Harmless /\ stage'[q] \notin Halting
  BY Zenon DEF Harmless, Halting, Holding
<1>3. stage'[q] \notin {"isActive", "stop", "restart", "release", "startUnits", "sessions", "drop",
                        "create", "mark", "extensions", "objects", "revoke", "rows", "migrate", "tables",
                        "sanitize", "flag"}
  BY Zenon DEF Holding
<1>4. Approach(q)'
  BY <1>2, <1>3, Zenon DEF Approach
<1>5. Refill(q)'
  BY <1>2, <1>3, Zenon DEF Refill
<1>6. Returned(q)'
  BY <1>3, Zenon DEF Returned, Local
<1> QED
  BY <1>1, <1>4, <1>5, <1>6, Zenon DEF Local

(* An invocation ahead of its refresh, or past it with a report that       *)
(* claims no restart.                                                      *)
LEMMA ApartKeeps ==
  ASSUME NEW r, stage'[r] \in {"archive", "lock", "release", "stopAgain", "prove", "done"},
         ~failure'[r].restarted,
         stage'[r] \in {"release", "stopAgain", "prove"} => refreshLock' = r,
         stage'[r] \in {"archive", "lock"} => running'[r] = <<>>,
         stage'[r] # "done" => LoadedByEveryUnit'
  PROVE  Local(r)'
<1>1. stage'[r] \notin Harmless /\ stage'[r] \notin Halting
  BY Zenon DEF Harmless, Halting
<1>2. stage'[r] \notin {"isActive", "stop", "restart", "startUnits", "sessions", "drop",
                        "create", "mark", "extensions", "objects", "revoke", "rows", "migrate", "tables",
                        "sanitize", "flag"}
  BY Zenon
<1>3. Approach(r)'
  BY <1>1, <1>2, Zenon DEF Approach
<1>4. Refill(r)'
  BY <1>1, <1>2, Zenon DEF Refill
<1>5. Returned(r)'
  BY Zenon DEF Returned
<1>6. "done" \notin Holding /\ "archive" \notin Holding /\ "lock" \notin Holding
  BY Zenon DEF Holding
<1> QED
  BY <1>3, <1>4, <1>5, <1>6, Zenon DEF Local

(* A refusal before the drop starts what was running.                      *)
LEMMA RefusalKeeps ==
  ASSUME RunTypes, NEW r \in Refreshes, Local(r), stage[r] \in Harmless, NEW step \in Causes,
         Restart(r, step, running[r]), UNCHANGED running, refreshLock' = refreshLock,
         database' = database, flag' = flag, cleared' = cleared, outside' = outside,
         extra' = extra, loads' = loads
  PROVE  Local(r)'
<1>1. /\ stage'[r] = "restart" /\ running'[r] = running[r] /\ queue'[r] = StartOrder(running[r])
      /\ failure'[r] = [step |-> step, restarted |-> TRUE] /\ before'[r] = before[r]
  BY RestartIs, Zenon
<1>2. Elems(queue'[r]) = Elems(running[r])
  <2>1. running[r] \in Seq(Units)
    BY Zenon DEF RunTypes
  <2> QED
    BY <1>1, <2>1, ElemsAre, Zenon
<1>3. LoadedByEveryUnit' /\ refreshLock' = r /\ ListedUnits' = ListedUnits
  <2>1. stage[r] \in Holding /\ stage[r] \notin {"start", "done"}
    BY Zenon DEF Harmless, Holding
  <2> QED
    BY <2>1, ConfigStays, Zenon DEF Local
<1>4. Approach(r)
  BY Zenon DEF Local
<1>5. "restart" \notin Halting /\ "restart" \in Holding /\ "restart" \in Harmless
  BY Zenon DEF Halting, Holding, Harmless
<1>6. Unsafe' => Unsafe
  BY Zenon DEF Unsafe
<1>7. Approach(r)'
  BY <1>1, <1>2, <1>3, <1>4, <1>5, <1>6, Zenon DEF Approach
<1>8. Refill(r)'
  BY <1>1, <1>5, Zenon DEF Refill
<1>9. Returned(r)'
  BY <1>1, <1>2, <1>4, Zenon DEF Returned, Approach
<1> QED
  BY <1>1, <1>3, <1>7, <1>8, <1>9, Zenon DEF Local

(* A step that leaves the host alone.                                      *)
LEMMA HostKept ==
  ASSUME HostTypes, HostSafe, units' = units, flag' = flag, database' = database, cleared' = cleared,
         outside' = outside, extra' = extra, loads' = loads, marking' = marking, overmarked' = overmarked
  PROVE  HostTypes' /\ HostSafe'
<1>1. ListedUnits' = ListedUnits /\ (LoadedByEveryUnit' <=> LoadedByEveryUnit)
  BY ConfigStays, Zenon
<1>2. HostTypes'
  BY Zenon DEF HostTypes
<1>3. Unsafe' => Unsafe
  BY Zenon DEF Unsafe
<1>4. FlaggedOnRefreshedData'
  BY <1>1, Zenon DEF HostSafe, FlaggedOnRefreshedData
<1> QED
  BY <1>1, <1>2, <1>3, <1>4, Zenon DEF HostSafe

(* What a step of one refresh leaves of the others.                        *)
Apart(r) ==
    /\ extra' = extra /\ loads' = loads
    /\ \A q \in Refreshes \ {r} :
          stage'[q] = stage[q] /\ failure'[q] = failure[q] /\ running'[q] = running[q]

KeepsAll(r) == RunTypes' /\ HostTypes' /\ HostSafe' /\ Local(r)' /\ Apart(r)

(* A refresh of whom nothing changed, on a host where nothing changed.     *)
LEMMA StillKeeps ==
  ASSUME NEW q, Local(q), extra' = extra, loads' = loads, refreshLock' = refreshLock,
         units' = units, flag' = flag, database' = database, cleared' = cleared, outside' = outside,
         overmarked' = overmarked,
         stage'[q] = stage[q], running'[q] = running[q], queue'[q] = queue[q], listing'[q] = listing[q],
         failure'[q] = failure[q], before'[q] = before[q]
  PROVE  Local(q)'
<1>1. Stopped' = Stopped /\ ListedUnits' = ListedUnits /\ (LoadedByEveryUnit' <=> LoadedByEveryUnit)
  BY ConfigStays, Zenon
<1>2. (AllStopped' <=> AllStopped) /\ (Unsafe' => Unsafe)
  BY <1>1, Zenon DEF AllStopped, Unsafe
<1>3. Approach(q) /\ Refill(q) /\ Returned(q)
  BY Zenon DEF Local
<1>4. Approach(q)'
  BY <1>1, <1>2, <1>3, Zenon DEF Approach
<1>5. Refill(q)'
  BY <1>1, <1>3, Zenon DEF Refill, Filled
<1>6. Returned(q)'
  BY <1>3, Zenon DEF Returned
<1> QED
  BY <1>1, <1>4, <1>5, <1>6, Zenon DEF Local

(* The steps before the lock, and the last ones.                           *)
LEMMA Fails ==
  ASSUME NEW step
  PROVE  NoFailure.restarted = FALSE /\ FailureAt(step).restarted = FALSE
BY Zenon DEF NoFailure, FailureAt

(* A refresh that ends or dies leaves the host as it is.                   *)
LEMMA EndKeeps ==
  ASSUME RFInv, NEW r \in Refreshes, Finish(r), UNCHANGED <<units, flag, database, cleared>>,
         refreshUnchanged
  PROVE  KeepsAll(r)
<1>1. RunTypes /\ HostTypes /\ HostSafe
  BY Zenon DEF RFInv
<1>2. extra' = extra /\ loads' = loads /\ marking' = marking /\ outside' = outside /\ overmarked' = overmarked
      /\ units' = units /\ flag' = flag /\ database' = database /\ cleared' = cleared
  BY Zenon DEF refreshUnchanged
<1>3. /\ stage'[r] = "done" /\ failure'[r] = NoFailure /\ RunTypes'
      /\ \A q \in Refreshes \ {r} : stage'[q] = stage[q] /\ failure'[q] = failure[q] /\ running'[q] = running[q]
  BY <1>1, FinishIs, Zenon
<1>4. HostTypes' /\ HostSafe'
  BY <1>1, <1>2, HostKept, Zenon
<1>5. Local(r)'
  <2>1. ~failure'[r].restarted
    BY <1>3, Fails, Zenon
  <2>2. stage'[r] \notin {"release", "stopAgain", "prove"} /\ stage'[r] \notin {"archive", "lock"}
    BY <1>3, Zenon
  <2> QED
    BY <1>3, <2>1, <2>2, ApartKeeps
<1> QED
  BY <1>2, <1>3, <1>4, <1>5, Zenon DEF KeepsAll, Apart

(* The checks before the lock change nothing.                              *)
LEMMA ChecksKeep ==
  ASSUME RFInv, NEW r \in Refreshes, CheckConfig(r) \/ CheckArchive(r)
  PROVE  KeepsAll(r)
<1>1. RunTypes /\ HostTypes /\ HostSafe /\ Local(r)
  BY Zenon DEF RFInv
<1>2. UNCHANGED <<units, flag, database, cleared>> /\ refreshUnchanged
  BY Zenon DEF CheckConfig, CheckArchive, hostVars, histVars, refreshUnchanged
<1>3. extra' = extra /\ loads' = loads /\ marking' = marking /\ outside' = outside /\ overmarked' = overmarked
      /\ units' = units /\ flag' = flag /\ database' = database /\ cleared' = cleared
  BY <1>2, Zenon DEF refreshUnchanged
<1>4. CASE Finish(r)
  BY <1>2, <1>4, EndKeeps, Zenon
<1>5. CASE (Goto(r, "archive") /\ LoadedByEveryUnit) \/ (Goto(r, "lock") /\ stage[r] = "archive")
  <2>1. stage[r] \in {"start", "archive"}
    BY Zenon DEF CheckConfig, CheckArchive
  <2>2. ~failure[r].restarted /\ running[r] = <<>> /\ LoadedByEveryUnit
    BY <1>1, <1>5, <2>1, Zenon DEF Local, Returned
  <2>3. PICK where \in {"archive", "lock"} : Goto(r, where)
    BY <1>5, Zenon
  <2>4. /\ stage'[r] = where /\ running'[r] = running[r] /\ failure'[r] = failure[r] /\ RunTypes'
        /\ \A q \in Refreshes \ {r} : stage'[q] = stage[q] /\ failure'[q] = failure[q] /\ running'[q] = running[q]
    BY <1>1, <2>3, GotoIs, Zenon
  <2>5. HostTypes' /\ HostSafe'
    BY <1>1, <1>3, HostKept, Zenon
  <2>6. LoadedByEveryUnit'
    BY <1>3, <2>2, ConfigStays, Zenon
  <2>7. Local(r)'
    <3>1. ~failure'[r].restarted /\ running'[r] = <<>>
      BY <2>2, <2>4, Zenon
    <3>2. stage'[r] \notin {"release", "stopAgain", "prove"}
          /\ stage'[r] \in {"archive", "lock", "release", "stopAgain", "prove", "done"}
      BY <2>4, Zenon
    <3> QED
      BY <2>6, <3>1, <3>2, ApartKeeps
  <2> QED
    BY <1>3, <2>4, <2>5, <2>7, Zenon DEF KeepsAll, Apart
<1> QED
  BY <1>4, <1>5, Zenon DEF CheckConfig, CheckArchive

(* With the lock, a refresh notes what the data is.                        *)
LEMMA LockKeeps ==
  ASSUME RFInv, NEW r \in Refreshes, TakeLock(r)
  PROVE  KeepsAll(r)
<1>1. RunTypes /\ HostTypes /\ HostSafe /\ Local(r)
  BY Zenon DEF RFInv
<1>2. UNCHANGED <<units, flag, database, cleared>> /\ refreshUnchanged
  BY Zenon DEF TakeLock, hostVars, histVars, refreshUnchanged
<1>3. extra' = extra /\ loads' = loads /\ marking' = marking /\ outside' = outside /\ overmarked' = overmarked
      /\ units' = units /\ flag' = flag /\ database' = database /\ cleared' = cleared
  BY <1>2, Zenon DEF refreshUnchanged
<1>4. CASE Finish(r)
  BY <1>2, <1>4, EndKeeps, Zenon
<1>5. CASE /\ refreshLock' = r
           /\ stage' = [stage EXCEPT ![r] = "isActive"]
           /\ queue' = [queue EXCEPT ![r] = Stopped]
           /\ before' = [before EXCEPT ![r] = database.data]
           /\ UNCHANGED <<running, listing, failure>>
  <2>1. stage[r] = "lock"
    BY Zenon DEF TakeLock
  <2>2. ~failure[r].restarted /\ running[r] = <<>> /\ LoadedByEveryUnit
    BY <1>1, <2>1, Zenon DEF Local, Returned
  <2>3. database.data \in {"own", "none", "raw", "migrated", "ready"}
    BY <1>1, Zenon DEF HostTypes, Databases
  <2>4. Stopped \in Seq(Units) /\ "isActive" \in Holding
    BY <1>1, ListedIs, Zenon DEF Holding
  <2>5. RunTypes'
    BY <1>1, <1>5, <2>3, <2>4, Zenon DEF RunTypes
  <2>6. /\ stage'[r] = "isActive" /\ queue'[r] = Stopped /\ before'[r] = database.data
        /\ running'[r] = <<>> /\ failure'[r] = failure[r]
        /\ \A q \in Refreshes \ {r} : stage'[q] = stage[q] /\ failure'[q] = failure[q] /\ running'[q] = running[q]
    BY <1>1, <1>5, <2>2, Zenon DEF RunTypes
  <2>7. HostTypes' /\ HostSafe'
    BY <1>1, <1>3, HostKept, Zenon
  <2>8. LoadedByEveryUnit' /\ Stopped' = Stopped
    BY <1>3, <2>2, ConfigStays, Zenon
  <2>9. Elems(running'[r]) = {}
    BY <2>6 DEF Elems
  <2>10. Approach(r)'
    <3>1. "isActive" \notin Halting
      BY Zenon DEF Halting
    <3>2. Stopped # <<Service>> /\ Stopped # <<Job, Service>>
      BY <1>1, ListedIs, Zenon
    <3> QED
      BY <1>3, <2>6, <2>8, <2>9, <3>1, <3>2, Zenon DEF Approach
  <2>11. Refill(r)'
    <3>1. "isActive" \notin Halting
      BY Zenon DEF Halting
    <3> QED
      BY <2>6, <3>1, Zenon DEF Refill
  <2>12. Returned(r)'
    BY <2>2, <2>6, Zenon DEF Returned
  <2>13. Local(r)'
    BY <1>5, <2>6, <2>8, <2>10, <2>11, <2>12, Zenon DEF Local
  <2> QED
    BY <1>3, <2>5, <2>6, <2>7, <2>13, Zenon DEF KeepsAll, Apart
<1> QED
  BY <1>4, <1>5, Zenon DEF TakeLock

(* Stopping a unit is always safe; starting one is, on safe data or when a *)
(* deploy has started it before.                                           *)
LEMMA HostStops ==
  ASSUME HostTypes, HostSafe, NEW u \in Units, units' = [units EXCEPT ![u] = "stopped"], flag' = flag,
         database' = database, cleared' = cleared, outside' = outside, extra' = extra, loads' = loads,
         marking' = marking, overmarked' = overmarked
  PROVE  HostTypes' /\ HostSafe' /\ units'[u] = "stopped" /\ \A v \in Units \ {u} : units'[v] = units[v]
<1>1. ListedUnits' = ListedUnits /\ (LoadedByEveryUnit' <=> LoadedByEveryUnit) /\ ListedUnits \subseteq Units
  BY ConfigStays, ListedIs, Zenon
<1>2. HostTypes' /\ units'[u] = "stopped" /\ \A v \in Units \ {u} : units'[v] = units[v]
  BY Zenon DEF HostTypes
<1>3. Unsafe' => Unsafe
  BY Zenon DEF Unsafe
<1>4. \A v \in ListedUnits : units'[v] = units[v] \/ units'[v] = "stopped"
  BY <1>1, <1>2, Zenon
<1>5. FlaggedOnRefreshedData'
  BY <1>1, <1>4, Zenon DEF HostSafe, FlaggedOnRefreshedData
<1>6. Unsafe' => \A v \in ListedUnits' \ outside' : units'[v] = "stopped"
  BY <1>1, <1>3, <1>4, Zenon DEF HostSafe
<1> QED
  BY <1>1, <1>2, <1>5, <1>6, Zenon DEF HostSafe

(* A unit may be started on safe data.                                     *)
LEMMA HostStarts ==
  ASSUME HostTypes, HostSafe, NEW u \in Units, units' = [units EXCEPT ![u] = StartedAs(u)],
         Unsafe /\ u \in ListedUnits => u \in outside, flag' = flag,
         database' = database, cleared' = cleared, outside' = outside, extra' = extra, loads' = loads,
         marking' = marking, overmarked' = overmarked
  PROVE  /\ HostTypes' /\ HostSafe'
         /\ units'[u] # "stopped" /\ \A v \in Units \ {u} : units'[v] = units[v]
<1>1. ListedUnits' = ListedUnits /\ (LoadedByEveryUnit' <=> LoadedByEveryUnit) /\ ListedUnits \subseteq Units
  BY ConfigStays, ListedIs, Zenon
<1>2. StartedAs(u) \in {"clear", "flagged"} /\ StartedAs(u) # "stopped"
  BY Zenon DEF StartedAs, Active, HostTypes
<1>3. HostTypes' /\ units'[u] = StartedAs(u) /\ \A v \in Units \ {u} : units'[v] = units[v]
  BY <1>2, Zenon DEF HostTypes
<1>4. Unsafe' => Unsafe
  BY Zenon DEF Unsafe
<1>5. Unsafe' => \A v \in ListedUnits' \ outside' : units'[v] = "stopped"
  BY <1>1, <1>3, <1>4, Zenon DEF HostSafe
<1>6. FlaggedOnRefreshedData'
  <2>1. CASE database.data # "ready"
    BY <2>1, Zenon DEF FlaggedOnRefreshedData
  <2>2. CASE database.data = "ready"
    <3>1. ASSUME ~cleared, NEW v \in ListedUnits \ (outside \cup {Timer}) PROVE units'[v] # "clear"
      <4>1. units[v] # "clear"
        BY <2>2, <3>1, Zenon DEF HostSafe, FlaggedOnRefreshedData
      <4>2. CASE v = u
        <5>1. CASE Active(u)
          BY <1>3, <4>1, <4>2, <5>1, Zenon DEF StartedAs
        <5>2. CASE ~Active(u)
          <6>1. flag
            BY <2>2, <3>1, <4>2, Zenon DEF Unsafe
          <6>2. LoadedByEveryUnit
            BY <2>2, Zenon DEF HostSafe
          <6>3. u \in loads /\ ~IsTimer(u)
            BY <1>1, <3>1, <4>2, <6>2, ListedIs, Names, Zenon DEF IsTimer
          <6>4. StartedAs(u) = "flagged"
            BY <5>2, <6>1, <6>3, Zenon DEF StartedAs
          <6> QED
            BY <1>3, <4>2, <6>4, Zenon
        <5> QED
          BY <5>1, <5>2, Zenon
      <4> QED
        BY <1>1, <1>3, <4>1, <4>2, Zenon
    <3>2. (\E l \in Listings : l \subseteq database.objects) /\ ~database.grant
      BY <2>2, Zenon DEF HostSafe, FlaggedOnRefreshedData
    <3> QED
      BY <1>1, <3>1, <3>2, Zenon DEF FlaggedOnRefreshedData
  <2> QED
    BY <2>1, <2>2, Zenon
<1> QED
  BY <1>1, <1>2, <1>3, <1>5, <1>6, Zenon DEF HostSafe

(* Where a refresh is while it stops the units.                            *)
LEMMA NextUnit ==
  ASSUME RunTypes, HostTypes, NEW r \in Refreshes, Approach(r), stage[r] \in {"isActive", "stop"}
  PROVE  /\ queue[r] \in Seq(Units) /\ queue[r] # <<>>
         /\ Head(queue[r]) \in ListedUnits /\ Head(queue[r]) \in Units
<1>1. queue[r] \in {Stopped, <<Job, Service>>, <<Service>>} /\ (queue[r] = <<Job, Service>> => Job \in ListedUnits)
  BY Zenon DEF Approach
<1>2. /\ Stopped # <<>> /\ Head(Stopped) = Timer /\ Timer \in ListedUnits /\ Service \in ListedUnits
      /\ ListedUnits \subseteq Units
  BY ListedIs, Zenon
<1>3. <<Job, Service>> # <<>> /\ Head(<<Job, Service>>) = Job /\ <<Service>> # <<>> /\ Head(<<Service>>) = Service
  OBVIOUS
<1> QED
  BY <1>1, <1>2, <1>3, Zenon DEF RunTypes

(* is_active notes a unit that runs.                                       *)
LEMMA IsActiveKeeps ==
  ASSUME RFInv, NEW r \in Refreshes, IsActive(r)
  PROVE  KeepsAll(r)
<1>1. RunTypes /\ HostTypes /\ HostSafe /\ Local(r)
  BY Zenon DEF RFInv
<1>2. extra' = extra /\ loads' = loads /\ marking' = marking /\ outside' = outside /\ overmarked' = overmarked
      /\ units' = units /\ flag' = flag /\ database' = database /\ cleared' = cleared
      /\ refreshLock' = refreshLock
  BY Zenon DEF IsActive, refreshUnchanged
<1>3. HostTypes' /\ HostSafe'
  BY <1>1, <1>2, HostKept, Zenon
<1>4. stage[r] = "isActive" /\ "isActive" \in Harmless /\ "isActive" \in Holding
  BY Zenon DEF IsActive, Harmless, Holding
<1>5. CASE Restart(r, "stop", running[r]) /\ UNCHANGED running
  <2>1. "stop" \in Causes
    BY Zenon DEF Causes
  <2>2. Local(r)'
    BY <1>1, <1>2, <1>4, <1>5, <2>1, RefusalKeeps, Zenon
  <2>3. /\ RunTypes'
        /\ \A q \in Refreshes \ {r} : stage'[q] = stage[q] /\ failure'[q] = failure[q] /\ running'[q] = running[q]
    BY <1>1, <1>5, <2>1, RestartIs, Zenon
  <2> QED
    BY <1>2, <1>3, <2>2, <2>3, Zenon DEF KeepsAll, Apart
<1>6. CASE /\ running' = [running EXCEPT ![r] = IF Active(Head(queue[r])) THEN Append(@, Head(queue[r])) ELSE @]
           /\ stage' = [stage EXCEPT ![r] = "stop"]
           /\ UNCHANGED <<queue, listing, failure, before>>
  <2> DEFINE u == Head(queue[r])
  <2>1. Approach(r) /\ Returned(r) /\ LoadedByEveryUnit /\ refreshLock = r
    BY <1>1, <1>4, Zenon DEF Local
  <2>2. u \in ListedUnits /\ u \in Units /\ running[r] \in Seq(Units)
    BY <1>1, <1>4, <2>1, NextUnit, Zenon DEF RunTypes
  <2> HIDE DEF u
  <2>3. /\ running'[r] = IF Active(u) THEN Append(running[r], u) ELSE running[r]
        /\ stage'[r] = "stop" /\ queue'[r] = queue[r] /\ failure'[r] = failure[r] /\ before'[r] = before[r]
        /\ \A q \in Refreshes \ {r} : stage'[q] = stage[q] /\ failure'[q] = failure[q] /\ running'[q] = running[q]
    BY <1>1, <1>6, Zenon DEF RunTypes, u
  <2>4. /\ running'[r] \in Seq(Units)
        /\ Elems(running'[r]) = Elems(running[r]) \cup (IF Active(u) THEN {u} ELSE {})
    <3>1. Append(running[r], u) \in Seq(Units) /\ Elems(Append(running[r], u)) = Elems(running[r]) \cup {u}
      <4>1. \A v \in Units : Append(running[r], v) \in Seq(Units)
                            /\ Elems(Append(running[r], v)) = Elems(running[r]) \cup {v}
        BY <2>2, ElemsAre, Zenon
      <4> QED
        BY <2>2, <4>1, Zenon
    <3>2. CASE Active(u)
      BY <2>3, <3>1, <3>2, Zenon
    <3>3. CASE ~Active(u)
      BY <2>2, <2>3, <3>3, Zenon
    <3> QED
      BY <3>2, <3>3, Zenon
  <2>5. RunTypes'
    <3>1. "stop" \in Holding
      BY Zenon DEF Holding
    <3>2. running' = [running EXCEPT ![r] = running'[r]]
      BY <1>1, <1>6, Zenon DEF RunTypes
    <3> QED
      BY <1>1, <1>6, <2>4, <3>1, <3>2, Zenon DEF RunTypes
  <2>6. Stopped' = Stopped /\ ListedUnits' = ListedUnits /\ LoadedByEveryUnit'
    BY <1>2, <2>1, ConfigStays, Zenon
  <2>7. Unsafe /\ Active(u) => u \in outside
    BY <1>1, <2>2, Zenon DEF HostSafe, Active
  <2>8. Unsafe' => Unsafe
    BY <1>2, Zenon DEF Unsafe
  <2>9. Elems(running'[r]) \subseteq ListedUnits /\ (Unsafe => Elems(running'[r]) \subseteq outside)
    BY <1>4, <2>1, <2>2, <2>4, <2>7, Zenon DEF Approach
  <2>10. Approach(r)'
    <3>1. "stop" \notin Halting
      BY Zenon DEF Halting
    <3> QED
      BY <1>2, <1>4, <2>1, <2>3, <2>6, <2>8, <2>9, <3>1, ZenonT(30) DEF Approach
  <2>11. Refill(r)'
    <3>1. "stop" \notin Halting
      BY Zenon DEF Halting
    <3> QED
      BY <2>3, <3>1, Zenon DEF Refill
  <2>12. Returned(r)'
    BY <1>4, <2>1, <2>3, Zenon DEF Returned
  <2>13. Local(r)'
    BY <1>2, <2>1, <2>3, <2>6, <2>10, <2>11, <2>12, ZenonT(30) DEF Local
  <2> QED
    BY <1>2, <1>3, <2>3, <2>5, <2>13, Zenon DEF KeepsAll, Apart
<1> QED
  BY <1>5, <1>6, Zenon DEF IsActive

(* A unit is stopped, or the refresh turns back.                           *)
LEMMA StopUnitKeeps ==
  ASSUME RFInv, NEW r \in Refreshes, Stop(r)
  PROVE  KeepsAll(r)
<1> DEFINE u == Head(queue[r])
<1>1. RunTypes /\ HostTypes /\ HostSafe /\ Local(r)
  BY Zenon DEF RFInv
<1>2. extra' = extra /\ loads' = loads /\ marking' = marking /\ outside' = outside /\ overmarked' = overmarked
      /\ flag' = flag /\ database' = database /\ cleared' = cleared
      /\ refreshLock' = refreshLock
  BY Zenon DEF Stop, refreshUnchanged
<1>3. stage[r] = "stop" /\ "stop" \in Harmless /\ "stop" \in Holding
  BY Zenon DEF Stop, Harmless, Holding
<1>4. Approach(r) /\ Returned(r) /\ LoadedByEveryUnit /\ refreshLock = r
  BY <1>1, <1>3, Zenon DEF Local
<1>5. u \in Units /\ queue[r] \in Seq(Units) /\ queue[r] # <<>>
  BY <1>1, <1>3, <1>4, NextUnit, Zenon
<1>6. units' = units \/ units' = [units EXCEPT ![u] = "stopped"]
  BY Zenon DEF Stop
<1> HIDE DEF u
<1>7. HostTypes' /\ HostSafe'
  <2>1. CASE units' = units
    BY <1>1, <1>2, <2>1, HostKept, Zenon
  <2>2. CASE units' = [units EXCEPT ![u] = "stopped"]
    BY <1>1, <1>2, <1>5, <2>2, HostStops, Zenon
  <2> QED
    BY <1>6, <2>1, <2>2, Zenon
<1>8. CASE Restart(r, "stop", running[r]) /\ UNCHANGED running
  <2>1. "stop" \in Causes
    BY Zenon DEF Causes
  <2>2. Local(r)'
    BY <1>1, <1>2, <1>3, <1>8, <2>1, RefusalKeeps, ZenonT(30)
  <2>3. /\ RunTypes'
        /\ \A q \in Refreshes \ {r} : stage'[q] = stage[q] /\ failure'[q] = failure[q] /\ running'[q] = running[q]
    BY <1>1, <1>8, <2>1, RestartIs, Zenon
  <2> QED
    BY <1>2, <1>7, <2>2, <2>3, Zenon DEF KeepsAll, Apart
<1>9. CASE /\ units' = [units EXCEPT ![u] = "stopped"]
           /\ queue' = [queue EXCEPT ![r] = Tail(@)]
           /\ stage' = [stage EXCEPT ![r] = IF Len(queue[r]) = 1 THEN "precheck" ELSE "isActive"]
           /\ UNCHANGED <<running, listing, failure, before>>
  <2>1. /\ running'[r] = running[r] /\ failure'[r] = failure[r] /\ before'[r] = before[r]
        /\ stage'[r] = (IF Len(queue[r]) = 1 THEN "precheck" ELSE "isActive") /\ queue'[r] = Tail(queue[r])
        /\ \A q \in Refreshes \ {r} : stage'[q] = stage[q] /\ failure'[q] = failure[q] /\ running'[q] = running[q]
    BY <1>1, <1>9, Zenon DEF RunTypes
  <2>2. RunTypes'
    <3>1. "precheck" \in Holding /\ "isActive" \in Holding
      BY Zenon DEF Holding
    <3>2. Tail(queue[r]) \in Seq(Units)
      BY <1>5, ElemsAre, Zenon
    <3> QED
      BY <1>1, <1>9, <3>1, <3>2, Zenon DEF RunTypes
  <2>3. units'[u] = "stopped" /\ \A v \in Units \ {u} : units'[v] = units[v]
    BY <1>1, <1>2, <1>5, <1>9, HostStops, Zenon
  <2>4. Stopped' = Stopped /\ ListedUnits' = ListedUnits /\ LoadedByEveryUnit'
    BY <1>2, <1>4, ConfigStays, Zenon
  <2>5. Unsafe' => Unsafe
    BY <1>2, Zenon DEF Unsafe
  <2>6. /\ queue[r] \in {Stopped, <<Job, Service>>, <<Service>>}
        /\ queue[r] # Stopped => units[Timer] = "stopped"
        /\ queue[r] = <<Job, Service>> => Job \in ListedUnits
        /\ queue[r] = <<Service>> /\ Job \in ListedUnits => units[Job] = "stopped"
        /\ database.data = before[r] /\ Elems(running[r]) \subseteq ListedUnits
        /\ Unsafe => Elems(running[r]) \subseteq outside
    BY <1>3, <1>4, Zenon DEF Approach
  <2>7. /\ stage'[r] \in {"isActive", "precheck"}
        /\ stage'[r] = "isActive" =>
             /\ queue'[r] \in {Stopped, <<Job, Service>>, <<Service>>}
             /\ units'[Timer] = "stopped"
             /\ queue'[r] = <<Job, Service>> => Job \in ListedUnits
             /\ queue'[r] = <<Service>> /\ Job \in ListedUnits => units'[Job] = "stopped"
        /\ stage'[r] = "precheck" => \A v \in ListedUnits : units'[v] = "stopped"
    <3>1. CASE queue[r] = Stopped
      <4>1. u = Timer /\ Len(queue[r]) # 1 /\ queue'[r] = Tail(Stopped)
        BY <1>1, <2>1, <3>1, ListedIs, Zenon DEF u
      <4>2. stage'[r] = "isActive" /\ units'[Timer] = "stopped"
        BY <2>1, <2>3, <4>1, Zenon
      <4>3. \/ Job \in ListedUnits /\ queue'[r] = <<Job, Service>>
            \/ Job \notin ListedUnits /\ queue'[r] = <<Service>>
        BY <1>1, <4>1, ListedIs, Zenon
      <4>4. <<Job, Service>> # <<Service>>
        BY Zenon
      <4> QED
        BY <4>2, <4>3, <4>4, Zenon
    <3>2. CASE queue[r] = <<Job, Service>>
      <4>1. u = Job /\ Len(queue[r]) # 1 /\ queue'[r] = <<Service>>
        BY <2>1, <3>2 DEF u
      <4>2. stage'[r] = "isActive" /\ units'[Job] = "stopped"
        BY <2>1, <2>3, <4>1, Zenon
      <4>3. <<Job, Service>> # <<Service>>
        BY Zenon
      <4>4. units'[Timer] = "stopped"
        <5>1. queue[r] # Stopped
          BY <1>1, <3>2, ListedIs, Zenon
        <5> QED
          BY <2>3, <2>6, <4>1, <5>1, Names, Zenon
      <4> QED
        BY <4>1, <4>2, <4>3, <4>4, Zenon
    <3>3. CASE queue[r] = <<Service>>
      <4>1. u = Service /\ Len(queue[r]) = 1
        BY <3>3 DEF u
      <4>2. stage'[r] = "precheck" /\ units'[Service] = "stopped"
        BY <2>1, <2>3, <4>1, Zenon
      <4>3. units'[Timer] = "stopped"
        <5>1. queue[r] # Stopped
          BY <1>1, <3>3, ListedIs, Zenon
        <5> QED
          BY <2>3, <2>6, <4>1, <5>1, Names, Zenon
      <4>4. Job \in ListedUnits => units'[Job] = "stopped"
        BY <2>3, <2>6, <3>3, <4>1, Names, Zenon
      <4>5. ListedUnits \subseteq {Service, Timer, Job}
        BY <1>1, ListedIs, Names, Zenon
      <4> QED
        BY <4>2, <4>3, <4>4, <4>5, Zenon
    <3> QED
      BY <2>6, <3>1, <3>2, <3>3, Zenon
  <2>8. Approach(r)'
    <3>1. stage'[r] \in Harmless /\ stage'[r] \notin {"restart", "sessions", "drop", "stop"}
          /\ "isActive" \notin Halting /\ (stage'[r] # "isActive" => stage'[r] = "precheck")
      BY <2>7, Zenon DEF Harmless, Halting
    <3>2. stage'[r] \in Halting => AllStopped'
      BY <2>4, <2>7, <3>1, Zenon DEF AllStopped
    <3> QED
      BY <1>2, <2>1, <2>4, <2>5, <2>6, <2>7, <3>1, <3>2, ZenonT(30) DEF Approach
  <2>9. Refill(r)'
    <3>1. "isActive" \notin Halting /\ stage'[r] \notin Halting \ {"precheck"}
      BY <2>7, Zenon DEF Halting
    <3>2. stage'[r] \notin {"create", "mark", "extensions", "objects", "revoke", "rows", "migrate", "tables",
                               "sanitize", "flag", "startUnits"}
      BY <2>7, Zenon
    <3> QED
      BY <2>1, <2>4, <2>6, <3>1, <3>2, Zenon DEF Refill
  <2>10. Returned(r)'
    BY <1>3, <1>4, <2>1, <2>7, Zenon DEF Returned
  <2>11. Local(r)'
    <3>1. stage'[r] \in Holding /\ stage'[r] \notin {"start", "archive", "lock"}
      BY <2>7, Zenon DEF Holding
    <3> QED
      BY <1>2, <1>4, <2>4, <2>8, <2>9, <2>10, <3>1, ZenonT(30) DEF Local
  <2> QED
    BY <1>2, <1>7, <2>1, <2>2, <2>11, Zenon DEF KeepsAll, Apart
<1> QED
  BY <1>8, <1>9, Zenon DEF Stop, u

(* A failure that leaves the units stopped, or stops them again.           *)
LEMMA LeftStoppedKeeps ==
  ASSUME RunTypes, HostTypes, NEW r \in Refreshes, Local(r), stage[r] \in Holding, NEW step \in Causes,
         FailAt(r, step) \/ StopAgain(r, step), refreshLock' = refreshLock, extra' = extra, loads' = loads
  PROVE  RunTypes' /\ Local(r)' /\ Apart(r)
<1>1. /\ stage'[r] \in {"release", "stopAgain"} /\ failure'[r] = FailureAt(step) /\ RunTypes'
      /\ \A q \in Refreshes \ {r} : stage'[q] = stage[q] /\ failure'[q] = failure[q] /\ running'[q] = running[q]
  BY FailIs, StopAgainIs, Zenon
<1>2. ~failure'[r].restarted
  BY <1>1, Fails, Zenon
<1>3. LoadedByEveryUnit' /\ refreshLock' = r
  <2>1. stage[r] \notin {"start", "done"}
    BY Zenon DEF Holding
  <2> QED
    BY <2>1, ConfigStays, Zenon DEF Local
<1>4. /\ stage'[r] \in {"archive", "lock", "release", "stopAgain", "prove", "done"}
      /\ stage'[r] \notin {"archive", "lock"}
  BY <1>1, Zenon
<1>5. Local(r)'
  BY <1>2, <1>3, <1>4, ApartKeeps
<1> QED
  BY <1>1, <1>5, Zenon DEF Apart

(* With every unit stopped the database and the flag may be anything, but  *)
(* sanitized data is whole and nobody's grant is left on it.               *)
LEMMA HostRefills ==
  ASSUME HostTypes, AllStopped, LoadedByEveryUnit, units' = units, refreshUnchanged,
         flag' \in BOOLEAN, cleared' \in BOOLEAN, database' \in Databases,
         database'.grant => database'.data = "raw",
         database'.data = "ready" => \E l \in Listings : l \subseteq database'.objects
  PROVE  HostTypes' /\ HostSafe' /\ AllStopped' /\ extra' = extra /\ loads' = loads
<1>1. extra' = extra /\ loads' = loads /\ marking' = marking /\ outside' = outside /\ overmarked' = overmarked
  BY Zenon DEF refreshUnchanged
<1>2. ListedUnits' = ListedUnits /\ LoadedByEveryUnit'
  BY <1>1, ConfigStays, Zenon
<1>3. HostTypes'
  BY <1>1, Zenon DEF HostTypes
<1>4. AllStopped' /\ \A u \in ListedUnits' : units'[u] = "stopped"
  BY <1>2, Zenon DEF AllStopped
<1>5. FlaggedOnRefreshedData'
  <2>1. "raw" # "ready" /\ "stopped" # "clear"
    BY Zenon
  <2> QED
    BY <1>4, <2>1, Zenon DEF FlaggedOnRefreshedData
<1> QED
  BY <1>1, <1>2, <1>3, <1>4, <1>5, Zenon DEF HostSafe

(* A refresh between the drop and the flag.                                *)
Refilling == {"create", "mark", "extensions", "objects", "revoke", "revokeFailed", "rows", "migrate",
              "tables", "sanitize", "flag"}

(* A refresh that goes on refilling has what its next stage counts on.     *)
LEMMA RefillKeeps ==
  ASSUME RunTypes, NEW r \in Refreshes, Local(r), stage[r] \in Refilling \cup {"drop"},
         NEW where \in Refilling, Goto(r, where), refreshLock' = refreshLock,
         extra' = extra, loads' = loads, AllStopped',
         where \in {"create", "mark", "extensions", "objects"} => database'.data = "none",
         where = "objects" => database'.objects = Made(ArchiveExtensions(listing[r].toc)),
         where \in {"revoke", "rows"} => Filled(r) \subseteq database'.objects,
         where \in {"migrate", "tables", "sanitize"} => listing[r].toc \subseteq database'.objects,
         where \in {"rows", "migrate", "tables", "sanitize"} => ~database'.grant,
         where = "flag" => database'.data = "ready"
  PROVE  RunTypes' /\ Local(r)' /\ Apart(r)
<1>1. /\ stage'[r] = where /\ running'[r] = running[r] /\ queue'[r] = queue[r]
      /\ listing'[r] = listing[r] /\ failure'[r] = failure[r] /\ before'[r] = before[r]
      /\ \A q \in Refreshes \ {r} : stage'[q] = stage[q] /\ failure'[q] = failure[q] /\ running'[q] = running[q]
      /\ RunTypes'
  <2>1. where \in Holding
    BY Zenon DEF Refilling, Holding
  <2> QED
    BY <2>1, GotoIs, Zenon
<1>2. /\ stage[r] \in Holding /\ stage[r] \in Halting \ {"precheck"} /\ stage[r] \notin {"start", "done"}
      /\ stage[r] \notin {"restart", "release"}
  BY Zenon DEF Refilling, Holding, Halting
<1>3. /\ LoadedByEveryUnit /\ refreshLock = r /\ ~failure[r].restarted /\ listing[r].toc \in Listings
      /\ Elems(running[r]) \subseteq ListedUnits
  BY <1>2, Zenon DEF Local, Returned, Refill
<1>4. LoadedByEveryUnit' /\ ListedUnits' = ListedUnits
  BY <1>3, ConfigStays, Zenon
<1>5. /\ where \in Holding /\ where \notin Harmless /\ where \notin {"start", "archive", "lock", "done"}
      /\ where \notin {"isActive", "stop", "restart", "release", "sessions", "drop", "startUnits"}
  BY Zenon DEF Refilling, Holding, Harmless
<1>6. Approach(r)'
  BY <1>1, <1>5, Zenon DEF Approach
<1>7. Filled(r)' = Filled(r)
  BY <1>1, Zenon DEF Filled
<1>8. Refill(r)'
  BY <1>1, <1>3, <1>4, <1>5, <1>7, Zenon DEF Refill
<1>9. Returned(r)'
  BY <1>1, <1>3, <1>5, Zenon DEF Returned
<1>10. Local(r)'
  BY <1>1, <1>3, <1>4, <1>5, <1>6, <1>8, <1>9, Zenon DEF Local
<1> QED
  BY <1>1, <1>10, Zenon DEF Apart

(* The checks with the units stopped.                                      *)
LEMMA PreludeKeeps ==
  ASSUME RFInv, NEW r \in Refreshes, stage[r] \in {"precheck", "marker", "sessions"},
         UNCHANGED <<refreshLock, units, flag, database, cleared>>, refreshUnchanged,
         \/ Restart(r, "refresh", running[r]) /\ UNCHANGED running
         \/ /\ stage'[r] \in {"marker", "sessions", "drop"} /\ RunTypes'
            /\ running' = running /\ before' = before /\ failure' = failure
            /\ listing'[r].toc \in Listings
            /\ \A q \in Refreshes \ {r} : stage'[q] = stage[q]
            /\ stage'[r] # "marker" => database.there /\ (database.marker = "mine" \/ overmarked)
  PROVE  KeepsAll(r)
<1>1. RunTypes /\ HostTypes /\ HostSafe /\ Local(r)
  BY Zenon DEF RFInv
<1>2. extra' = extra /\ loads' = loads /\ marking' = marking /\ outside' = outside /\ overmarked' = overmarked
      /\ units' = units /\ flag' = flag /\ database' = database /\ cleared' = cleared
      /\ refreshLock' = refreshLock
  BY Zenon DEF refreshUnchanged
<1>3. HostTypes' /\ HostSafe'
  BY <1>1, <1>2, HostKept, Zenon
<1>4. /\ stage[r] \in Harmless /\ stage[r] \in Holding /\ stage[r] \in Halting
      /\ stage[r] \notin {"restart", "release", "start", "done"}
  BY Zenon DEF Harmless, Holding, Halting
<1>5. CASE Restart(r, "refresh", running[r]) /\ UNCHANGED running
  <2>1. "refresh" \in Causes
    BY Zenon DEF Causes
  <2>2. Local(r)'
    BY <1>1, <1>2, <1>4, <1>5, <2>1, RefusalKeeps, ZenonT(30)
  <2>3. /\ RunTypes'
        /\ \A q \in Refreshes \ {r} : stage'[q] = stage[q] /\ failure'[q] = failure[q] /\ running'[q] = running[q]
    BY <1>1, <1>5, <2>1, RestartIs, Zenon
  <2> QED
    BY <1>2, <1>3, <2>2, <2>3, Zenon DEF KeepsAll, Apart
<1>6. CASE /\ stage'[r] \in {"marker", "sessions", "drop"} /\ RunTypes'
           /\ running' = running /\ before' = before /\ failure' = failure
           /\ listing'[r].toc \in Listings
           /\ \A q \in Refreshes \ {r} : stage'[q] = stage[q]
           /\ stage'[r] # "marker" => database.there /\ (database.marker = "mine" \/ overmarked)
  <2>1. Approach(r) /\ LoadedByEveryUnit /\ refreshLock = r /\ ~failure[r].restarted /\ AllStopped
    BY <1>1, <1>4, Zenon DEF Local, Returned, Approach
  <2>2. ListedUnits' = ListedUnits /\ LoadedByEveryUnit'
    BY <1>2, <2>1, ConfigStays, Zenon
  <2>3. AllStopped' /\ (Unsafe' => Unsafe)
    <3>1. Unsafe' => Unsafe
      BY <1>2 DEF Unsafe
    <3>2. AllStopped'
      BY <1>2, <2>1, <2>2, Zenon DEF AllStopped
    <3> QED
      BY <3>1, <3>2, Zenon
  <2>4. /\ stage'[r] \notin {"isActive", "stop", "restart", "release", "start", "archive", "lock", "done"}
        /\ stage'[r] \notin {"create", "mark", "extensions", "objects", "revoke", "rows", "migrate", "tables",
                               "sanitize", "flag", "startUnits"}
        /\ (stage'[r] \in {"sessions", "drop"} => stage'[r] # "marker")
    BY <1>6, Zenon
  <2>5. Approach(r)'
    BY <1>2, <1>4, <1>6, <2>1, <2>2, <2>3, <2>4, ZenonT(30) DEF Approach
  <2>6. Refill(r)'
    BY <1>4, <1>6, <2>1, <2>2, <2>4, ZenonT(30) DEF Refill, Approach
  <2>7. Returned(r)'
    BY <1>6, <2>1, <2>4, Zenon DEF Returned
  <2>8. Local(r)'
    BY <1>2, <2>1, <2>2, <2>4, <2>5, <2>6, <2>7, ZenonT(30) DEF Local
  <2> QED
    BY <1>2, <1>3, <1>6, <2>8, Zenon DEF KeepsAll, Apart
<1> QED
  BY <1>5, <1>6, Zenon

(* The checks of the archive, with every unit stopped.                     *)
LEMMA PrecheckKeeps ==
  ASSUME RFInv, NEW r \in Refreshes, Precheck(r)
  PROVE  KeepsAll(r)
<1>1. RunTypes
  BY Zenon DEF RFInv
<1>2. stage[r] \in {"precheck", "marker", "sessions"} /\ UNCHANGED <<refreshLock, units, flag, database, cleared>>
      /\ refreshUnchanged
  BY Zenon DEF Precheck
<1>3. CASE Restart(r, "refresh", running[r]) /\ UNCHANGED running
  BY <1>2, <1>3, PreludeKeeps, Zenon
<1>4. ASSUME NEW l \in Listings, NEW admin \in BOOLEAN,
             /\ stage' = [stage EXCEPT ![r] = "marker"]
             /\ listing' = [listing EXCEPT ![r] = [toc |-> l, owner |-> admin]]
             /\ UNCHANGED <<running, queue, failure, before>>
      PROVE  KeepsAll(r)
  <2>1. [toc |-> l, owner |-> admin] \in Contents /\ [toc |-> l, owner |-> admin].toc = l
    BY Zenon DEF Contents
  <2>2. "marker" \in Holding
    BY Zenon DEF Holding
  <2>3. RunTypes'
    BY <1>1, <1>4, <2>1, <2>2, Zenon DEF RunTypes
  <2>4. /\ stage'[r] \in {"marker", "sessions", "drop"} /\ stage'[r] = "marker"
        /\ running' = running /\ before' = before /\ failure' = failure
        /\ listing'[r].toc \in Listings
        /\ \A q \in Refreshes \ {r} : stage'[q] = stage[q]
    BY <1>1, <1>4, <2>1, Zenon DEF RunTypes
  <2> QED
    BY <1>2, <2>3, <2>4, PreludeKeeps, Zenon
<1> QED
  BY <1>3, <1>4, Zenon DEF Precheck

(* The marker and the sessions are read before the drop.                   *)
LEMMA MarkedKeep ==
  ASSUME RFInv, NEW r \in Refreshes, ReadMarker(r) \/ ReadSessions(r)
  PROVE  KeepsAll(r)
<1>1. RunTypes /\ Local(r)
  BY Zenon DEF RFInv
<1>2. /\ stage[r] \in {"precheck", "marker", "sessions"} /\ stage[r] \in Halting \ {"precheck"}
      /\ UNCHANGED <<refreshLock, units, flag, database, cleared>>
      /\ refreshUnchanged
  BY Zenon DEF ReadMarker, ReadSessions, Halting
<1>3. CASE Restart(r, "refresh", running[r]) /\ UNCHANGED running
  BY <1>2, <1>3, PreludeKeeps, Zenon
<1>4. ASSUME NEW where \in {"sessions", "drop"}, Goto(r, where),
             database.there /\ (database.marker = "mine" \/ overmarked)
      PROVE  KeepsAll(r)
  <2>1. where \in Holding
    BY Zenon DEF Holding
  <2>2. /\ stage'[r] = where /\ listing'[r] = listing[r] /\ RunTypes'
        /\ \A q \in Refreshes \ {r} : stage'[q] = stage[q]
    BY <1>1, <1>4, <2>1, GotoIs, Zenon
  <2>3. running' = running /\ before' = before /\ failure' = failure
    BY <1>4, Zenon DEF Goto
  <2>4. listing'[r].toc \in Listings
    BY <1>1, <1>2, <2>2, Zenon DEF Local, Refill
  <2> QED
    BY <1>2, <1>4, <2>2, <2>3, <2>4, PreludeKeeps, ZenonT(30)
<1>5. stage[r] = "sessions" => database.there /\ (database.marker = "mine" \/ overmarked)
  BY <1>1, Zenon DEF Local, Approach
<1> QED
  BY <1>3, <1>4, <1>5, Zenon DEF ReadMarker, ReadSessions

(* After a refusal the units come back, those only that ran.               *)
LEMMA RestartUnitKeeps ==
  ASSUME RFInv, NEW r \in Refreshes, RestartUnit(r)
  PROVE  KeepsAll(r)
<1>1. RunTypes /\ HostTypes /\ HostSafe /\ Local(r)
  BY Zenon DEF RFInv
<1>2. extra' = extra /\ loads' = loads /\ marking' = marking /\ outside' = outside /\ overmarked' = overmarked
      /\ flag' = flag /\ database' = database /\ cleared' = cleared /\ refreshLock' = refreshLock
      /\ running' = running /\ listing' = listing /\ before' = before
  BY Zenon DEF RestartUnit, refreshUnchanged
<1>3. stage[r] = "restart" /\ "restart" \in Harmless /\ "restart" \in Holding /\ "restart" \notin Halting
      /\ "release" \notin Harmless /\ "release" \notin Halting /\ "release" \in Holding
  BY Zenon DEF RestartUnit, Harmless, Holding, Halting
<1>4. Approach(r) /\ Returned(r) /\ LoadedByEveryUnit /\ refreshLock = r
  BY <1>1, <1>3, Zenon DEF Local
<1>5. /\ database.data = before[r] /\ Elems(running[r]) \subseteq ListedUnits
      /\ Unsafe => Elems(running[r]) \subseteq outside
      /\ Elems(queue[r]) \subseteq Elems(running[r])
      /\ failure[r].restarted => \A u \in Elems(running[r]) : u = Job \/ units[u] # "stopped" \/ u \in Elems(queue[r])
  BY <1>3, <1>4, Zenon DEF Approach, Returned
<1>6. queue[r] \in Seq(Units) /\ ListedUnits \subseteq Units
  BY <1>1, ListedIs, Zenon DEF RunTypes
<1>7. ListedUnits' = ListedUnits /\ LoadedByEveryUnit'
  BY <1>2, <1>4, ConfigStays, Zenon
<1>8. Unsafe' => Unsafe
  BY <1>2, Zenon DEF Unsafe
<1>9. CASE queue[r] = <<>>
  <2>1. stage' = [stage EXCEPT ![r] = "release"] /\ queue' = queue /\ failure' = failure /\ units' = units
    BY <1>9, Zenon DEF RestartUnit
  <2>2. RunTypes' /\ stage'[r] = "release" /\ \A q \in Refreshes \ {r} : stage'[q] = stage[q]
    BY <1>1, <1>2, <1>3, <2>1, Zenon DEF RunTypes
  <2>3. HostTypes' /\ HostSafe'
    BY <1>1, <1>2, <2>1, HostKept, Zenon
  <2>4. Elems(queue[r]) = {}
    BY <1>6, <1>9, ElemsAre, Zenon
  <2>5. Returned(r)'
    BY <1>2, <1>5, <2>1, <2>2, <2>4, Zenon DEF Returned
  <2>6. Approach(r)'
    BY <1>3, <2>2, Zenon DEF Approach
  <2>7. Refill(r)'
    BY <1>3, <2>2, Zenon DEF Refill
  <2>8. Local(r)'
    BY <1>2, <1>4, <1>7, <2>2, <2>5, <2>6, <2>7, Zenon DEF Local
  <2> QED
    BY <1>2, <2>1, <2>2, <2>3, <2>8, Zenon DEF KeepsAll, Apart
<1>10. CASE queue[r] # <<>>
  <2> DEFINE u == Head(queue[r])
  <2>1. /\ stage' = stage /\ queue' = [queue EXCEPT ![r] = Tail(@)]
        /\ \/ units' = [units EXCEPT ![u] = StartedAs(u)] /\ failure' = failure
           \/ failure' = [failure EXCEPT ![r].restarted = FALSE] /\ units' = units
    BY <1>10, Zenon DEF RestartUnit
  <2>2. /\ u \in Elems(queue[r]) /\ Tail(queue[r]) \in Seq(Units)
        /\ Elems(queue[r]) = {u} \cup Elems(Tail(queue[r]))
    BY <1>6, <1>10, ElemsAre, Zenon
  <2>3. u \in Units /\ (Unsafe => u \in outside)
    BY <1>5, <1>6, <2>2, Zenon
  <2> HIDE DEF u
  <2>4. queue' \in [Refreshes -> Seq(Units)] /\ queue'[r] = Tail(queue[r])
    BY <1>1, <2>1, <2>2, Zenon DEF RunTypes
  <2>5. failure' \in [Refreshes -> Reasons] /\ \A q \in Refreshes \ {r} : failure'[q] = failure[q]
    <3>1. CASE failure' = failure
      BY <1>1, <3>1, Zenon DEF RunTypes
    <3>2. CASE failure' = [failure EXCEPT ![r].restarted = FALSE]
      <4>1. failure[r] \in Reasons
        BY <1>1, Zenon DEF RunTypes
      <4>2. [failure[r] EXCEPT !.restarted = FALSE] \in Reasons
        BY <4>1, Zenon DEF Reasons
      <4>3. failure' = [failure EXCEPT ![r] = [failure[r] EXCEPT !.restarted = FALSE]]
        BY <1>1, <3>2, Zenon DEF RunTypes
      <4> QED
        BY <1>1, <4>2, <4>3, Zenon DEF RunTypes
    <3> QED
      BY <2>1, <3>1, <3>2, Zenon
  <2>6. RunTypes'
    BY <1>1, <1>2, <2>1, <2>4, <2>5, Zenon DEF RunTypes
  <2>7. HostTypes' /\ HostSafe'
    <3>1. CASE units' = units
      BY <1>1, <1>2, <3>1, HostKept, Zenon
    <3>2. CASE units' = [units EXCEPT ![u] = StartedAs(u)]
      BY <1>1, <1>2, <2>3, <3>2, HostStarts, Zenon
    <3> QED
      BY <2>1, <3>1, <3>2, Zenon
  <2>8. Returned(r)'
    <3>1. CASE units' = [units EXCEPT ![u] = StartedAs(u)] /\ failure' = failure
      <4>1. units'[u] # "stopped" /\ \A v \in Units \ {u} : units'[v] = units[v]
        BY <1>1, <1>2, <2>3, <3>1, HostStarts, Zenon
      <4>2. failure'[r].restarted =>
              \A v \in Elems(running[r]) : v = Job \/ units'[v] # "stopped" \/ v \in Elems(queue'[r])
        BY <1>5, <1>6, <2>2, <2>4, <3>1, <4>1, Zenon
      <4> QED
        BY <1>2, <1>3, <1>5, <2>1, <4>2, Zenon DEF Returned
    <3>2. CASE failure' = [failure EXCEPT ![r].restarted = FALSE]
      <4>1. failure[r] \in Reasons
        BY <1>1, Zenon DEF RunTypes
      <4>2. failure'[r].restarted = FALSE
        BY <1>1, <3>2, <4>1, Zenon DEF RunTypes, Reasons
      <4> QED
        BY <4>2, Zenon DEF Returned
    <3> QED
      BY <2>1, <3>1, <3>2, Zenon
  <2>9. Approach(r)'
    BY <1>2, <1>3, <1>5, <1>7, <1>8, <2>1, <2>2, <2>4, ZenonT(30) DEF Approach
  <2>10. Refill(r)'
    BY <1>3, <2>1, Zenon DEF Refill
  <2>11. Local(r)'
    BY <1>2, <1>3, <1>4, <1>7, <2>1, <2>8, <2>9, <2>10, ZenonT(30) DEF Local
  <2> QED
    BY <1>2, <2>1, <2>5, <2>6, <2>7, <2>11, Zenon DEF KeepsAll, Apart
<1> QED
  BY <1>9, <1>10, Zenon

(* The outbound flag is there before any unit starts.                      *)
LEMMA FlagKeeps ==
  ASSUME RFInv, NEW r \in Refreshes, WriteFlag(r)
  PROVE  KeepsAll(r)
<1>1. RunTypes /\ HostTypes /\ HostSafe /\ Local(r)
  BY Zenon DEF RFInv
<1>2. /\ refreshLock' = refreshLock /\ units' = units /\ database' = database /\ refreshUnchanged
      /\ flag' \in BOOLEAN /\ cleared' \in BOOLEAN
  BY <1>1, Zenon DEF WriteFlag, HostTypes
<1>3. stage[r] = "flag" /\ "flag" \in Holding /\ "flag" \in Halting
  BY Zenon DEF WriteFlag, Holding, Halting
<1>4. /\ Approach(r) /\ Returned(r) /\ LoadedByEveryUnit /\ refreshLock = r /\ AllStopped
      /\ database.data = "ready" /\ Elems(running[r]) \subseteq ListedUnits /\ ~failure[r].restarted
  BY <1>1, <1>3, Zenon DEF Local, Approach, Refill, Returned
<1>5. HostTypes' /\ HostSafe' /\ AllStopped' /\ extra' = extra /\ loads' = loads
  <2>1. database' \in Databases /\ (database'.grant => database'.data = "raw")
        /\ (database'.data = "ready" => \E l \in Listings : l \subseteq database'.objects)
    BY <1>1, <1>2, Zenon DEF HostTypes, HostSafe, FlaggedOnRefreshedData
  <2> QED
    BY <1>1, <1>2, <1>4, <2>1, HostRefills, Zenon
<1>6. CASE FailAt(r, "outbound flag")
  <2>1. "outbound flag" \in Causes
    BY Zenon DEF Causes
  <2>2. RunTypes' /\ Local(r)' /\ Apart(r)
    BY <1>1, <1>2, <1>3, <1>5, <1>6, <2>1, LeftStoppedKeeps, ZenonT(30)
  <2> QED
    BY <1>5, <2>2, Zenon DEF KeepsAll
<1>7. CASE /\ flag' = TRUE /\ cleared' = FALSE
           /\ stage' = [stage EXCEPT ![r] = "startUnits"]
           /\ queue' = [queue EXCEPT ![r] = StartOrder(running[r])]
           /\ UNCHANGED <<running, listing, failure, before>>
  <2>1. "startUnits" \in Holding /\ "startUnits" \notin Halting /\ "startUnits" \notin Harmless
    BY Zenon DEF Holding, Halting, Harmless
  <2>2. StartOrder(running[r]) \in Seq(Units) /\ Elems(StartOrder(running[r])) = Elems(running[r])
    <3>1. running[r] \in Seq(Units)
      BY <1>1, Zenon DEF RunTypes
    <3> QED
      BY <3>1, ElemsAre, Zenon
  <2>3. RunTypes'
    BY <1>1, <1>7, <2>1, <2>2, Zenon DEF RunTypes
  <2>4. /\ stage'[r] = "startUnits" /\ queue'[r] = StartOrder(running[r]) /\ running'[r] = running[r]
        /\ failure'[r] = failure[r]
        /\ \A q \in Refreshes \ {r} : stage'[q] = stage[q] /\ failure'[q] = failure[q] /\ running'[q] = running[q]
    BY <1>1, <1>7, Zenon DEF RunTypes
  <2>5. ListedUnits' = ListedUnits /\ LoadedByEveryUnit'
    BY <1>4, <1>5, ConfigStays, Zenon
  <2>6. Approach(r)'
    BY <2>1, <2>4, Zenon DEF Approach
  <2>7. Refill(r)'
    BY <1>2, <1>4, <1>7, <2>1, <2>2, <2>4, <2>5, ZenonT(30) DEF Refill
  <2>8. Returned(r)'
    BY <1>4, <2>4, Zenon DEF Returned
  <2>9. Local(r)'
    BY <1>2, <1>4, <2>4, <2>5, <2>6, <2>7, <2>8, ZenonT(30) DEF Local
  <2> QED
    BY <1>5, <2>3, <2>4, <2>9, Zenon DEF KeepsAll, Apart
<1> QED
  BY <1>6, <1>7, Zenon DEF WriteFlag

(* The units are started on ready and flagged data.                        *)
LEMMA StartUnitKeeps ==
  ASSUME RFInv, NEW r \in Refreshes, StartUnit(r)
  PROVE  KeepsAll(r)
<1>1. RunTypes /\ HostTypes /\ HostSafe /\ Local(r)
  BY Zenon DEF RFInv
<1>2. extra' = extra /\ loads' = loads /\ marking' = marking /\ outside' = outside /\ overmarked' = overmarked
      /\ flag' = flag /\ database' = database /\ cleared' = cleared /\ refreshLock' = refreshLock
  BY Zenon DEF StartUnit, refreshUnchanged
<1>3. /\ stage[r] = "startUnits" /\ "startUnits" \in Holding
      /\ "startUnits" \notin Halting /\ "startUnits" \notin Harmless
  BY Zenon DEF StartUnit, Holding, Halting, Harmless
<1>4. /\ LoadedByEveryUnit /\ refreshLock = r /\ ~failure[r].restarted
      /\ database.data = "ready" /\ (flag \/ cleared)
      /\ Elems(running[r]) \subseteq ListedUnits /\ Elems(queue[r]) \subseteq ListedUnits
  BY <1>1, <1>3, Zenon DEF Local, Refill, Returned
<1>5. queue[r] \in Seq(Units) /\ ListedUnits \subseteq Units
  BY <1>1, ListedIs, Zenon DEF RunTypes
<1>6. ListedUnits' = ListedUnits /\ LoadedByEveryUnit'
  BY <1>2, <1>4, ConfigStays, Zenon
<1>7. CASE Goto(r, "prove") /\ units' = units
  <2>1. /\ stage'[r] = "prove" /\ failure'[r] = failure[r] /\ RunTypes'
        /\ \A q \in Refreshes \ {r} : stage'[q] = stage[q] /\ failure'[q] = failure[q] /\ running'[q] = running[q]
    <3>1. "prove" \in Holding
      BY Zenon DEF Holding
    <3> QED
      BY <1>1, <1>7, <3>1, GotoIs, Zenon
  <2>2. HostTypes' /\ HostSafe'
    BY <1>1, <1>2, <1>7, HostKept, Zenon
  <2>3. ~failure'[r].restarted /\ refreshLock' = r
    BY <1>2, <1>4, <2>1, Zenon
  <2>4. /\ stage'[r] \notin {"archive", "lock"}
        /\ stage'[r] \in {"archive", "lock", "release", "stopAgain", "prove", "done"}
    BY <2>1, Zenon
  <2>5. Local(r)'
    BY <1>6, <2>3, <2>4, ApartKeeps
  <2> QED
    BY <1>2, <2>1, <2>2, <2>5, Zenon DEF KeepsAll, Apart
<1>8. CASE StopAgain(r, "start") /\ units' = units
  <2>1. "start" \in Causes
    BY Zenon DEF Causes
  <2>2. RunTypes' /\ Local(r)' /\ Apart(r)
    BY <1>1, <1>2, <1>3, <1>8, <2>1, LeftStoppedKeeps, Zenon
  <2>3. HostTypes' /\ HostSafe'
    BY <1>1, <1>2, <1>8, HostKept, Zenon
  <2> QED
    BY <2>2, <2>3, Zenon DEF KeepsAll
<1>9. CASE /\ queue[r] # <<>>
           /\ units' = [units EXCEPT ![Head(queue[r])] = StartedAs(Head(queue[r]))]
           /\ queue' = [queue EXCEPT ![r] = Tail(@)]
           /\ UNCHANGED <<stage, running, listing, failure, before>>
  <2> DEFINE u == Head(queue[r])
  <2>1. /\ u \in Elems(queue[r]) /\ Tail(queue[r]) \in Seq(Units)
        /\ Elems(queue[r]) = {u} \cup Elems(Tail(queue[r]))
    BY <1>5, <1>9, ElemsAre, Zenon
  <2>2. u \in Units /\ units' = [units EXCEPT ![u] = StartedAs(u)]
    BY <1>4, <1>5, <1>9, <2>1, Zenon
  <2> HIDE DEF u
  <2>3. ~Unsafe
    BY <1>4, Zenon DEF Unsafe
  <2>4. HostTypes' /\ HostSafe'
    BY <1>1, <1>2, <2>2, <2>3, HostStarts, Zenon
  <2>5. RunTypes' /\ queue'[r] = Tail(queue[r]) /\ stage'[r] = "startUnits"
    BY <1>1, <1>3, <1>9, <2>1, Zenon DEF RunTypes
  <2>6. Approach(r)'
    BY <1>3, <2>5, Zenon DEF Approach
  <2>7. Refill(r)'
    BY <1>2, <1>3, <1>4, <1>6, <1>9, <2>1, <2>5, ZenonT(30) DEF Refill
  <2>8. Returned(r)'
    BY <1>4, <1>9, Zenon DEF Returned
  <2>9. Local(r)'
    BY <1>2, <1>4, <1>6, <2>5, <2>6, <2>7, <2>8, ZenonT(30) DEF Local
  <2> QED
    BY <1>2, <1>9, <2>4, <2>5, <2>9, Zenon DEF KeepsAll, Apart
<1> QED
  BY <1>7, <1>8, <1>9, Zenon DEF StartUnit

(* A start that is not proved has its units stopped again.                 *)
LEMMA ProofsKeep ==
  ASSUME RFInv, NEW r \in Refreshes, Prove(r) \/ StopUnitAgain(r)
  PROVE  KeepsAll(r)
<1>1. RunTypes /\ HostTypes /\ HostSafe /\ Local(r)
  BY Zenon DEF RFInv
<1>2. extra' = extra /\ loads' = loads /\ marking' = marking /\ outside' = outside /\ overmarked' = overmarked
      /\ flag' = flag /\ database' = database /\ cleared' = cleared /\ refreshLock' = refreshLock
  BY Zenon DEF Prove, StopUnitAgain, refreshUnchanged
<1>3. /\ stage[r] \in {"prove", "stopAgain"} /\ stage[r] \in Holding /\ stage[r] \notin {"start", "done"}
      /\ stage[r] \notin {"restart", "release"}
  BY Zenon DEF Prove, StopUnitAgain, Holding
<1>4. LoadedByEveryUnit /\ refreshLock = r /\ ~failure[r].restarted
  BY <1>1, <1>3, Zenon DEF Local, Returned
<1>5. LoadedByEveryUnit' /\ refreshLock' = r
  BY <1>2, <1>4, ConfigStays, Zenon
<1>6. CASE StopAgain(r, "outbound flag") /\ units' = units
  <2>1. "outbound flag" \in Causes
    BY Zenon DEF Causes
  <2>2. RunTypes' /\ Local(r)' /\ Apart(r)
    BY <1>1, <1>2, <1>3, <1>6, <2>1, LeftStoppedKeeps, Zenon
  <2>3. HostTypes' /\ HostSafe'
    BY <1>1, <1>2, <1>6, HostKept, Zenon
  <2> QED
    BY <2>2, <2>3, Zenon DEF KeepsAll
<1>7. CASE Goto(r, "release") /\ units' = units
  <2>1. /\ stage'[r] = "release" /\ failure'[r] = failure[r] /\ RunTypes'
        /\ \A q \in Refreshes \ {r} : stage'[q] = stage[q] /\ failure'[q] = failure[q] /\ running'[q] = running[q]
    <3>1. "release" \in Holding
      BY Zenon DEF Holding
    <3> QED
      BY <1>1, <1>7, <3>1, GotoIs, Zenon
  <2>2. HostTypes' /\ HostSafe'
    BY <1>1, <1>2, <1>7, HostKept, Zenon
  <2>3. ~failure'[r].restarted
    BY <1>4, <2>1, Zenon
  <2>4. /\ stage'[r] \notin {"archive", "lock"}
        /\ stage'[r] \in {"archive", "lock", "release", "stopAgain", "prove", "done"}
    BY <2>1, Zenon
  <2>5. Local(r)'
    BY <1>5, <2>3, <2>4, ApartKeeps
  <2> QED
    BY <1>2, <2>1, <2>2, <2>5, Zenon DEF KeepsAll, Apart
<1>8. CASE /\ queue[r] # <<>>
           /\ units' \in {units, [units EXCEPT ![Head(queue[r])] = "stopped"]}
           /\ queue' = [queue EXCEPT ![r] = Tail(@)]
           /\ UNCHANGED <<stage, running, listing, failure, before>>
  <2>1. queue[r] \in Seq(Units)
    BY <1>1, Zenon DEF RunTypes
  <2>2. Head(queue[r]) \in Units /\ Tail(queue[r]) \in Seq(Units)
    BY <1>8, <2>1
  <2>3. HostTypes' /\ HostSafe'
    <3>1. CASE units' = units
      BY <1>1, <1>2, <3>1, HostKept, Zenon
    <3>2. CASE units' = [units EXCEPT ![Head(queue[r])] = "stopped"]
      BY <1>1, <1>2, <2>2, <3>2, HostStops, Zenon
    <3> QED
      BY <1>8, <3>1, <3>2, Zenon
  <2>4. RunTypes'
    BY <1>1, <1>8, <2>2, Zenon DEF RunTypes
  <2>5. ~failure'[r].restarted /\ stage'[r] \notin {"archive", "lock"}
        /\ stage'[r] \in {"archive", "lock", "release", "stopAgain", "prove", "done"}
    BY <1>3, <1>4, <1>8, Zenon
  <2>6. Local(r)'
    BY <1>5, <2>5, ApartKeeps
  <2> QED
    BY <1>2, <1>8, <2>3, <2>4, <2>6, Zenon DEF KeepsAll, Apart
<1> QED
  BY <1>6, <1>7, <1>8, Zenon DEF Prove, StopUnitAgain

(* A database a step of the refresh may leave.                             *)
Sound(d) == /\ d \in Databases
            /\ d.grant => d.data = "raw"
            /\ d.data = "ready" => \E l \in Listings : l \subseteq d.objects

(* The invariant has the database sound.                                   *)
LEMMA DatabaseSound ==
  ASSUME RFInv
  PROVE  Sound(database)
BY Zenon DEF RFInv, HostTypes, HostSafe, FlaggedOnRefreshedData, Sound

(* What holds while a refresh fills the database.                          *)
LEMMA RefillHas ==
  ASSUME RFInv, NEW r \in Refreshes, stage[r] \in Refilling \cup {"drop"}
  PROVE  /\ AllStopped /\ LoadedByEveryUnit /\ refreshLock = r /\ listing[r].toc \in Listings
         /\ stage[r] \in Holding
<1>1. Local(r)
  BY Zenon DEF RFInv
<1>2. stage[r] \in Holding /\ stage[r] \in Halting /\ stage[r] # "precheck" /\ stage[r] \notin {"start", "done"}
  BY Zenon DEF Refilling, Holding, Halting
<1> QED
  BY <1>1, <1>2, Zenon DEF Local, Approach, Refill

(* A stage past the drop succeeds: the units are stopped, the database is  *)
(* sound.                                                                  *)
LEMMA AdvanceKeeps ==
  ASSUME RFInv, NEW r \in Refreshes, stage[r] \in Refilling \cup {"drop"}, Sound(database'),
         UNCHANGED <<refreshLock, units, flag, cleared>>, refreshUnchanged,
         NEW where \in Refilling, Goto(r, where),
         where \in {"create", "mark", "extensions", "objects"} => database'.data = "none",
         where = "objects" => database'.objects = Made(ArchiveExtensions(listing[r].toc)),
         where \in {"revoke", "rows"} => Filled(r) \subseteq database'.objects,
         where \in {"migrate", "tables", "sanitize"} => listing[r].toc \subseteq database'.objects,
         where \in {"rows", "migrate", "tables", "sanitize"} => ~database'.grant,
         where = "flag" => database'.data = "ready"
  PROVE  KeepsAll(r)
<1>1. RunTypes /\ HostTypes /\ Local(r) /\ AllStopped /\ LoadedByEveryUnit
  BY RefillHas, Zenon DEF RFInv
<1>2. refreshLock' = refreshLock /\ units' = units /\ flag' \in BOOLEAN /\ cleared' \in BOOLEAN
  BY <1>1, Zenon DEF HostTypes
<1>3. HostTypes' /\ HostSafe' /\ AllStopped' /\ extra' = extra /\ loads' = loads
  BY <1>1, <1>2, HostRefills, Zenon DEF Sound
<1>4. RunTypes' /\ Local(r)' /\ Apart(r)
  BY <1>1, <1>2, <1>3, RefillKeeps, Zenon
<1> QED
  BY <1>3, <1>4, Zenon DEF KeepsAll

(* A stage past the drop fails, with the units left stopped.               *)
LEMMA GivesUpKeeps ==
  ASSUME RFInv, NEW r \in Refreshes, stage[r] \in Refilling \cup {"drop"}, Sound(database'),
         UNCHANGED <<refreshLock, units, flag, cleared>>, refreshUnchanged,
         NEW step \in Causes, FailAt(r, step)
  PROVE  KeepsAll(r)
<1>1. RunTypes /\ HostTypes /\ Local(r) /\ AllStopped /\ LoadedByEveryUnit /\ stage[r] \in Holding
  BY RefillHas, Zenon DEF RFInv
<1>2. refreshLock' = refreshLock /\ units' = units /\ flag' \in BOOLEAN /\ cleared' \in BOOLEAN
  BY <1>1, Zenon DEF HostTypes
<1>3. HostTypes' /\ HostSafe' /\ AllStopped' /\ extra' = extra /\ loads' = loads
  BY <1>1, <1>2, HostRefills, Zenon DEF Sound
<1>4. RunTypes' /\ Local(r)' /\ Apart(r)
  BY <1>1, <1>2, <1>3, LeftStoppedKeeps, Zenon
<1> QED
  BY <1>3, <1>4, Zenon DEF KeepsAll

(* The entries of an archive, as objects of a database.                    *)
LEMMA ObjectsAre ==
  ASSUME NEW l \in Listings
  PROVE  /\ l \subseteq Entries
         /\ Made(ArchiveExtensions(l)) \subseteq Entries
         /\ \A e \in l : e[1] = "EXTENSION" => e \in Made(ArchiveExtensions(l))
<1>1. l \subseteq {"EXTENSION", "SCHEMA", "TABLE", "TABLE DATA"} \X STRING \X STRING
  BY ListingsAssumption, Zenon
<1>2. {"EXTENSION", "SCHEMA", "TABLE", "TABLE DATA"} \X STRING \X STRING \subseteq Entries
  BY Zenon DEF Entries
<1>3. \A e \in l : e \in Entries /\ e = <<e[1], e[2], e[3]>> /\ e[3] \in STRING
  <2>1. \A e \in {"EXTENSION", "SCHEMA", "TABLE", "TABLE DATA"} \X STRING \X STRING :
           e = <<e[1], e[2], e[3]>> /\ e[3] \in STRING
    <3>1. \A A, B, C : \A e \in A \X B \X C : e = <<e[1], e[2], e[3]>> /\ e[3] \in C
      OBVIOUS
    <3> QED
      BY <3>1, ZenonT(30)
  <2> QED
    BY <1>1, <1>2, <2>1, Zenon
<1>4. ArchiveExtensions(l) \subseteq STRING
  BY <1>3, Zenon DEF ArchiveExtensions
<1>5. Made(ArchiveExtensions(l)) \subseteq Entries
  <2>1. \A x \in STRING : <<"EXTENSION", "-", x>> \in Entries /\ <<"SCHEMA", "-", x>> \in Entries
    BY Zenon DEF Entries
  <2> QED
    BY <1>4, <2>1, Zenon DEF Made
<1>6. ASSUME NEW e \in l, e[1] = "EXTENSION" PROVE e \in Made(ArchiveExtensions(l))
  <2>1. e[2] = "-"
    BY <1>6, ListingsAssumption, Zenon
  <2>2. e[3] \in ArchiveExtensions(l)
    BY <1>6, Zenon DEF ArchiveExtensions
  <2>3. e = <<"EXTENSION", "-", e[3]>>
    BY <1>3, <1>6, <2>1, Zenon
  <2> QED
    BY <2>2, <2>3, Zenon DEF Made
<1> QED
  BY <1>3, <1>5, <1>6, Zenon

(* The database is dropped and made anew, with its marker and extensions.  *)
LEMMA RecreateKeeps ==
  ASSUME RFInv, NEW r \in Refreshes,
         Drop(r) \/ Create(r) \/ SetMarker(r) \/ CreateExtensions(r)
  PROVE  KeepsAll(r)
<1>1. /\ stage[r] \in {"drop", "create", "mark", "extensions"} /\ stage[r] \in Refilling \cup {"drop"}
      /\ UNCHANGED <<refreshLock, units, flag, cleared>> /\ refreshUnchanged
  BY Zenon DEF Drop, Create, SetMarker, CreateExtensions, DbStep, Refilling
<1>2. Sound(database) /\ Local(r) /\ listing[r].toc \in Listings
  BY <1>1, DatabaseSound, RefillHas, Zenon DEF RFInv
<1>3. stage[r] # "drop" => database.data = "none"
  BY <1>1, <1>2, Zenon DEF Local, Refill
<1>4. CASE FailAt(r, "restore") /\ database' = database
  <2>1. "restore" \in Causes
    BY Zenon DEF Causes
  <2>2. Sound(database')
    BY <1>2, <1>4, Zenon
  <2> QED
    BY <1>1, <1>4, <2>1, <2>2, GivesUpKeeps, Zenon
<1>5. CASE \/ Goto(r, "create") /\ database' = Gone
           \/ Goto(r, "mark") /\ database' = [Gone EXCEPT !.there = TRUE]
  <2>1. Sound(database') /\ database'.data = "none"
    <3>1. database'.data = "none" /\ database'.grant = FALSE /\ database' \in Databases
      <4>1. Gone.data = "none" /\ Gone.grant = FALSE /\ Gone \in Databases
        BY Zenon DEF Gone, Databases
      <4>2. /\ [Gone EXCEPT !.there = TRUE] \in Databases
            /\ [Gone EXCEPT !.there = TRUE].data = "none" /\ [Gone EXCEPT !.there = TRUE].grant = FALSE
        BY <4>1, Zenon DEF Databases
      <4> QED
        BY <1>5, <4>1, <4>2, Zenon
    <3> QED
      BY <3>1, Zenon DEF Sound
  <2>2. "create" \in Refilling /\ "mark" \in Refilling
    BY Zenon DEF Refilling
  <2> QED
    BY <1>1, <1>5, <2>1, <2>2, AdvanceKeeps, Zenon
<1>6. CASE stage[r] # "drop" /\ Goto(r, "extensions") /\ database' = [database EXCEPT !.marker = "mine"]
  <2>1. database'.data = "none"
    BY <1>2, <1>3, <1>6, Zenon DEF Sound, Databases
  <2>2. Sound(database')
    BY <1>2, <1>6, <2>1, Zenon DEF Sound, Databases
  <2>3. "extensions" \in Refilling
    BY Zenon DEF Refilling
  <2> QED
    BY <1>1, <1>6, <2>1, <2>2, <2>3, AdvanceKeeps, ZenonT(30)
<1>7. CASE /\ stage[r] # "drop" /\ Goto(r, "objects")
           /\ database' = [database EXCEPT !.objects = Made(ArchiveExtensions(listing[r].toc))]
  <2> DEFINE made == Made(ArchiveExtensions(listing[r].toc))
  <2>1. made \subseteq Entries
    BY <1>2, ObjectsAre, Zenon
  <2> HIDE DEF made
  <2>2. database' = [database EXCEPT !.objects = made]
    BY <1>7, Zenon DEF made
  <2>3. database'.data = "none" /\ database'.objects = made
    BY <1>2, <1>3, <1>7, <2>2, Zenon DEF Sound, Databases
  <2>4. Sound(database')
    BY <1>2, <2>1, <2>2, <2>3, Zenon DEF Sound, Databases
  <2>5. "objects" \in Refilling /\ database'.objects = Made(ArchiveExtensions(listing[r].toc))
    BY <2>3, Zenon DEF Refilling, made
  <2> QED
    BY <1>1, <1>7, <2>3, <2>4, <2>5, AdvanceKeeps, ZenonT(30)
<1> QED
  BY <1>1, <1>4, <1>5, <1>6, <1>7, Zenon DEF Drop, Create, SetMarker, CreateExtensions, DbStep

(* The objects, then the rows of the extensions, are all the archive has.  *)
LEMMA ArchiveIsCovered ==
  ASSUME NEW r \in Refreshes, listing[r].toc \in Listings
  PROVE  /\ database.objects = Made(ArchiveExtensions(listing[r].toc))
              => Filled(r) \subseteq database.objects \cup Lists(r).app
         /\ Filled(r) \subseteq database.objects
              => listing[r].toc \subseteq database.objects \cup Lists(r).extensionData
         /\ Lists(r).app \subseteq listing[r].toc /\ Lists(r).extensionData \subseteq listing[r].toc
<1> DEFINE toc == listing[r].toc
           rows == {e \in toc : e[1] = "TABLE DATA" /\ <<"TABLE", e[2], e[3]>> \notin toc}
           kept == {e \in toc : e[1] # "EXTENSION"}
<1>1. Lists(r).app = kept \ (database.objects \cup rows) /\ Lists(r).extensionData = rows
  BY Zenon DEF Lists, SplitListing
<1>2. \A e \in toc : e \in Filled(r) <=> e \notin rows
  BY Zenon DEF Filled
<1>3. \A e \in toc : e[1] = "EXTENSION" => e \in Made(ArchiveExtensions(toc))
  BY ObjectsAre, Zenon
<1>4. Filled(r) \subseteq toc
  BY Zenon DEF Filled
<1>5. \A e \in toc : e \in kept <=> e[1] # "EXTENSION"
  BY Zenon
<1>6. rows \subseteq toc /\ kept \subseteq toc
  BY Zenon
<1> HIDE DEF rows, kept, toc
<1>7. Lists(r).app \subseteq toc /\ Lists(r).extensionData \subseteq toc
  BY <1>1, <1>6, Zenon
<1>8. ASSUME database.objects = Made(ArchiveExtensions(toc))
      PROVE  Filled(r) \subseteq database.objects \cup Lists(r).app
  BY <1>1, <1>2, <1>3, <1>4, <1>5, <1>8, Zenon
<1>9. ASSUME Filled(r) \subseteq database.objects
      PROVE  toc \subseteq database.objects \cup Lists(r).extensionData
  BY <1>1, <1>2, <1>9, Zenon
<1> QED
  BY <1>7, <1>8, <1>9, Zenon DEF toc

(* The archive is restored, all but the extensions' rows.                  *)
LEMMA ObjectsKeep ==
  ASSUME RFInv, NEW r \in Refreshes, RestoreObjects(r)
  PROVE  KeepsAll(r)
<1> DEFINE granted == [database EXCEPT !.data = "raw", !.grant = Reached(r) # {}]
           restored == [granted EXCEPT !.objects = @ \cup Lists(r).app]
<1>1. /\ stage[r] = "objects" /\ stage[r] \in Refilling \cup {"drop"}
      /\ UNCHANGED <<refreshLock, units, flag, cleared>> /\ refreshUnchanged
  BY Zenon DEF RestoreObjects, Refilling
<1>2. database \in Databases /\ Local(r) /\ listing[r].toc \in Listings
  BY <1>1, DatabaseSound, RefillHas, Zenon DEF RFInv, Sound
<1>3. Lists(r).app \subseteq Entries /\ Filled(r) \subseteq database.objects \cup Lists(r).app
  <2>1. listing[r].toc \subseteq Entries
    BY <1>2, ObjectsAre, Zenon
  <2>2. database.objects = Made(ArchiveExtensions(listing[r].toc))
    BY <1>1, <1>2, Zenon DEF Local, Refill
  <2> QED
    BY <1>2, <2>1, <2>2, ArchiveIsCovered, Zenon
<1>4. (Reached(r) # {}) \in BOOLEAN
  BY Zenon
<1>5. granted \in Databases /\ granted.data = "raw" /\ granted.objects = database.objects
  BY <1>2, <1>4, Zenon DEF Databases
<1>6. restored \in Databases /\ restored.data = "raw" /\ restored.objects = database.objects \cup Lists(r).app
  <2> HIDE DEF granted
  <2> QED
    BY <1>3, <1>5, Zenon DEF Databases
<1>7. \/ Goto(r, "revoke") /\ database' = restored
      \/ Goto(r, "revokeFailed") /\ database' = granted
  BY Zenon DEF RestoreObjects
<1> HIDE DEF restored, granted
<1>8. "revoke" \in Refilling /\ "revokeFailed" \in Refilling
  BY Zenon DEF Refilling
<1>9. Sound(database')
  BY <1>5, <1>6, <1>7, Zenon DEF Sound
<1>10. CASE Goto(r, "revoke") /\ database' = restored
  <2>1. Filled(r) \subseteq database'.objects
    BY <1>3, <1>6, <1>10, Zenon
  <2> QED
    BY <1>1, <1>8, <1>9, <1>10, <2>1, AdvanceKeeps, Zenon
<1>11. CASE Goto(r, "revokeFailed")
  BY <1>1, <1>8, <1>9, <1>11, AdvanceKeeps, Zenon
<1> QED
  BY <1>7, <1>10, <1>11, Zenon

(* The privilege lent for the restore is taken back.                       *)
LEMMA RevokeKeeps ==
  ASSUME RFInv, NEW r \in Refreshes, Revoke(r)
  PROVE  KeepsAll(r)
<1>1. /\ stage[r] \in {"revoke", "revokeFailed"} /\ stage[r] \in Refilling \cup {"drop"}
      /\ UNCHANGED <<refreshLock, units, flag, cleared>> /\ refreshUnchanged
  BY Zenon DEF Revoke, Refilling
<1>2. Sound(database) /\ database \in Databases /\ Local(r)
  BY <1>1, DatabaseSound, Zenon DEF RFInv, Sound
<1>3. database' = database \/ database' = [database EXCEPT !.grant = FALSE]
  BY Zenon DEF Revoke
<1>4. ASSUME database' = [database EXCEPT !.grant = FALSE]
      PROVE  /\ database' \in Databases /\ database'.grant = FALSE /\ database'.data = database.data
             /\ database'.objects = database.objects
  BY <1>2, <1>4, Zenon DEF Databases
<1>5. Sound(database')
  BY <1>2, <1>3, <1>4, Zenon DEF Sound
<1>6. CASE FailAt(r, "restore")
  <2>1. "restore" \in Causes
    BY Zenon DEF Causes
  <2> QED
    BY <1>1, <1>5, <1>6, <2>1, GivesUpKeeps, Zenon
<1>7. CASE stage[r] = "revoke" /\ Goto(r, "rows") /\ database' = [database EXCEPT !.grant = FALSE]
  <2>1. Filled(r) \subseteq database'.objects /\ ~database'.grant
    BY <1>2, <1>4, <1>7, Zenon DEF Local, Refill
  <2>2. "rows" \in Refilling
    BY Zenon DEF Refilling
  <2> QED
    BY <1>1, <1>5, <1>7, <2>1, <2>2, AdvanceKeeps, Zenon
<1> QED
  BY <1>6, <1>7, Zenon DEF Revoke

(* The extensions' rows are restored.                                      *)
LEMMA RowsKeep ==
  ASSUME RFInv, NEW r \in Refreshes, RestoreRows(r)
  PROVE  KeepsAll(r)
<1> DEFINE made == [database EXCEPT !.objects = @ \cup Lists(r).extensionData]
<1>1. /\ stage[r] = "rows" /\ stage[r] \in Refilling \cup {"drop"}
      /\ UNCHANGED <<refreshLock, units, flag, cleared>> /\ refreshUnchanged
  BY Zenon DEF RestoreRows, DbStep, Refilling
<1>2. Sound(database) /\ database \in Databases /\ Local(r) /\ listing[r].toc \in Listings
  BY <1>1, DatabaseSound, RefillHas, Zenon DEF RFInv, Sound
<1>3. ~database.grant /\ Filled(r) \subseteq database.objects
  BY <1>1, <1>2, Zenon DEF Local, Refill
<1>4. /\ Lists(r).extensionData \subseteq Entries
      /\ listing[r].toc \subseteq database.objects \cup Lists(r).extensionData
  <2>1. listing[r].toc \subseteq Entries
    BY <1>2, ObjectsAre, Zenon
  <2> QED
    BY <1>2, <1>3, <2>1, ArchiveIsCovered, Zenon
<1>5. /\ made \in Databases /\ made.grant = database.grant /\ made.data = database.data
      /\ made.objects = database.objects \cup Lists(r).extensionData
  BY <1>2, <1>4, Zenon DEF Databases
<1>6. \/ Goto(r, "migrate") /\ database' = made
      \/ FailAt(r, "restore") /\ (database' = database \/ database' = made)
  BY Zenon DEF RestoreRows, DbStep
<1> HIDE DEF made
<1>7. Sound(made)
  BY <1>2, <1>5, Zenon DEF Sound
<1>8. CASE FailAt(r, "restore") /\ (database' = database \/ database' = made)
  <2>1. "restore" \in Causes /\ Sound(database')
    BY <1>2, <1>7, <1>8, Zenon DEF Causes
  <2> QED
    BY <1>1, <1>8, <2>1, GivesUpKeeps, Zenon
<1>9. CASE Goto(r, "migrate") /\ database' = made
  <2>1. "migrate" \in Refilling /\ Sound(database')
    BY <1>7, <1>9, Zenon DEF Refilling
  <2>2. listing[r].toc \subseteq database'.objects /\ ~database'.grant
    BY <1>3, <1>4, <1>5, <1>9, Zenon
  <2> QED
    BY <1>1, <1>9, <2>1, <2>2, AdvanceKeeps, Zenon
<1> QED
  BY <1>6, <1>8, <1>9, Zenon

(* Migrating, counting and sanitizing only come nearer to ready data.      *)
LEMMA LaterKeep ==
  ASSUME RFInv, NEW r \in Refreshes, Migrate(r) \/ CountTables(r) \/ Sanitize(r)
  PROVE  KeepsAll(r)
<1>1. /\ stage[r] \in {"migrate", "tables", "sanitize"} /\ stage[r] \in Refilling \cup {"drop"}
      /\ UNCHANGED <<refreshLock, units, flag, cleared>> /\ refreshUnchanged
  BY Zenon DEF Migrate, CountTables, Sanitize, DbStep, Refilling
<1>2. Sound(database) /\ database \in Databases /\ Local(r) /\ listing[r].toc \in Listings
  BY <1>1, DatabaseSound, RefillHas, Zenon DEF RFInv, Sound
<1>3. ~database.grant /\ listing[r].toc \subseteq database.objects
  BY <1>1, <1>2, Zenon DEF Local, Refill
<1>4. ASSUME NEW d \in {"migrated", "ready"}, database' = [database EXCEPT !.data = d]
      PROVE  /\ database' \in Databases /\ database'.grant = database.grant /\ database'.data = d
             /\ database'.objects = database.objects
  <2>1. d \in {"own", "none", "raw", "migrated", "ready"}
    BY <1>4, Zenon
  <2> QED
    BY <1>2, <1>4, <2>1, Zenon DEF Databases
<1>5. \/ database' = database
      \/ database' = [database EXCEPT !.data = "migrated"] \/ database' = [database EXCEPT !.data = "ready"]
  BY Zenon DEF Migrate, CountTables, Sanitize, DbStep
<1>6. Sound(database') /\ ~database'.grant /\ listing[r].toc \subseteq database'.objects
  BY <1>2, <1>3, <1>4, <1>5, Zenon DEF Sound
<1>7. CASE FailAt(r, "migrate") \/ FailAt(r, "tables") \/ FailAt(r, "sanitize")
  <2>1. "migrate" \in Causes /\ "tables" \in Causes /\ "sanitize" \in Causes
    BY Zenon DEF Causes
  <2> QED
    BY <1>1, <1>6, <1>7, <2>1, GivesUpKeeps, Zenon
<1>8. CASE Goto(r, "tables") \/ Goto(r, "sanitize")
  <2>1. "tables" \in Refilling /\ "sanitize" \in Refilling
    BY Zenon DEF Refilling
  <2> QED
    BY <1>1, <1>6, <1>8, <2>1, AdvanceKeeps, Zenon
<1>9. CASE Goto(r, "flag") /\ database' = [database EXCEPT !.data = "ready"]
  <2>1. "flag" \in Refilling /\ database'.data = "ready"
    BY <1>4, <1>9, Zenon DEF Refilling
  <2> QED
    BY <1>1, <1>6, <1>9, <2>1, AdvanceKeeps, Zenon
<1> QED
  BY <1>7, <1>8, <1>9, Zenon DEF Migrate, CountTables, Sanitize, DbStep

(* A step of one refresh and the others.                                   *)
LEMMA WithoutLock ==
  ASSUME NEW r \in Refreshes, RefreshStep(r), stage[r] \notin Holding, refreshLock # NoOne, refreshLock # r
  PROVE  /\ Finish(r) \/ Goto(r, "archive") \/ Goto(r, "lock")
         /\ refreshLock' = refreshLock /\ UNCHANGED <<units, flag, database, cleared>> /\ refreshUnchanged
<1>1. stage[r] \notin {"isActive", "stop", "restart", "precheck", "marker", "sessions", "drop", "create", "mark",
                       "extensions", "objects", "revoke", "revokeFailed", "rows", "migrate", "tables",
                       "sanitize", "flag", "startUnits", "prove", "stopAgain", "release"}
  BY Zenon DEF Holding
<1>2. ~(IsActive(r) \/ Stop(r) \/ RestartUnit(r) \/ Precheck(r) \/ ReadMarker(r) \/ ReadSessions(r))
  BY <1>1, Zenon DEF IsActive, Stop, RestartUnit, Precheck, ReadMarker, ReadSessions
<1>3. ~(Drop(r) \/ Create(r) \/ SetMarker(r) \/ CreateExtensions(r)
        \/ RestoreObjects(r) \/ Revoke(r) \/ RestoreRows(r))
  BY <1>1, Zenon
  DEF Drop, Create, SetMarker, CreateExtensions, RestoreObjects, Revoke, RestoreRows, DbStep
<1>4. ~(Migrate(r) \/ CountTables(r) \/ Sanitize(r) \/ WriteFlag(r) \/ StartUnit(r) \/ Prove(r)
        \/ StopUnitAgain(r) \/ Release(r))
  BY <1>1, Zenon
  DEF Migrate, CountTables, Sanitize, WriteFlag, StartUnit, Prove, StopUnitAgain, Release, DbStep
<1>5. CheckConfig(r) \/ CheckArchive(r) \/ TakeLock(r) \/ Crash(r)
  BY <1>2, <1>3, <1>4, Zenon DEF RefreshStep
<1>6. CASE CheckConfig(r) \/ CheckArchive(r)
  BY <1>6, Zenon DEF CheckConfig, CheckArchive, hostVars, histVars, refreshUnchanged
<1>7. CASE TakeLock(r)
  BY <1>7, Zenon DEF TakeLock, hostVars, histVars, refreshUnchanged
<1>8. CASE Crash(r)
  BY <1>8, Zenon DEF Crash
<1> QED
  BY <1>5, <1>6, <1>7, <1>8, Zenon

(* Only the holder of the lock changes what a refresh relies on.           *)
LEMMA OthersKeep ==
  ASSUME RFInv, NEW r \in Refreshes, RefreshStep(r), Apart(r), NEW q \in Refreshes \ {r}
  PROVE  Local(q)'
<1>1. /\ RunTypes /\ Local(q) /\ Local(r) /\ extra' = extra /\ loads' = loads
      /\ stage'[q] = stage[q] /\ failure'[q] = failure[q] /\ running'[q] = running[q]
  BY Zenon DEF RFInv, Apart
<1>2. CASE stage[q] \notin Holding
  BY <1>1, <1>2, QuietKeeps, Zenon
<1>3. CASE stage[q] \in Holding
  <2>1. refreshLock = q /\ refreshLock # r /\ refreshLock # NoOne
    BY <1>1, <1>3, LockAssumption, Zenon DEF Local
  <2>2. stage[r] \notin Holding
    BY <1>1, <2>1, Zenon DEF Local
  <2>3. /\ Finish(r) \/ Goto(r, "archive") \/ Goto(r, "lock")
        /\ refreshLock' = refreshLock /\ UNCHANGED <<units, flag, database, cleared>> /\ refreshUnchanged
    BY <2>1, <2>2, WithoutLock, Zenon
  <2>4. queue'[q] = queue[q] /\ listing'[q] = listing[q] /\ before'[q] = before[q]
    BY <1>1, <2>3, Zenon DEF Finish, Goto, RunTypes
  <2>5. units' = units /\ flag' = flag /\ database' = database /\ cleared' = cleared /\ outside' = outside
        /\ overmarked' = overmarked
    BY <2>3, Zenon DEF refreshUnchanged
  <2> QED
    BY <1>1, <2>3, <2>4, <2>5, StillKeeps, Zenon
<1> QED
  BY <1>2, <1>3, Zenon

(* Every step of a refresh keeps the invariant.                            *)
LEMMA RefreshStepKeeps ==
  ASSUME RFInv, NEW r \in Refreshes, RefreshStep(r)
  PROVE  RFInv'
<1>1. KeepsAll(r)
  <2>1. CASE CheckConfig(r) \/ CheckArchive(r)
    BY <2>1, ChecksKeep, Zenon
  <2>2. CASE TakeLock(r)
    BY <2>2, LockKeeps, Zenon
  <2>3. CASE IsActive(r)
    BY <2>3, IsActiveKeeps, ZenonT(30)
  <2>4. CASE Stop(r)
    BY <2>4, StopUnitKeeps, Zenon
  <2>5. CASE RestartUnit(r)
    BY <2>5, RestartUnitKeeps, Zenon
  <2>6. CASE Precheck(r)
    BY <2>6, PrecheckKeeps, Zenon
  <2>7. CASE ReadMarker(r) \/ ReadSessions(r)
    BY <2>7, MarkedKeep, Zenon
  <2>8. CASE Drop(r) \/ Create(r) \/ SetMarker(r) \/ CreateExtensions(r)
    BY <2>8, RecreateKeeps, ZenonT(30)
  <2>9. CASE RestoreObjects(r)
    BY <2>9, ObjectsKeep, Zenon
  <2>10. CASE Revoke(r)
    BY <2>10, RevokeKeeps, Zenon
  <2>11. CASE RestoreRows(r)
    BY <2>11, RowsKeep, Zenon
  <2>12. CASE Migrate(r) \/ CountTables(r) \/ Sanitize(r)
    BY <2>12, LaterKeep, ZenonT(30)
  <2>13. CASE WriteFlag(r)
    BY <2>13, FlagKeeps, Zenon
  <2>14. CASE StartUnit(r)
    BY <2>14, StartUnitKeeps, Zenon
  <2>15. CASE Prove(r) \/ StopUnitAgain(r)
    BY <2>15, ProofsKeep, Zenon
  <2>16. CASE Release(r) \/ Crash(r)
    <3>1. Finish(r) /\ UNCHANGED <<units, flag, database, cleared>> /\ refreshUnchanged
      BY <2>16, Zenon DEF Release, Crash
    <3> QED
      BY <3>1, EndKeeps, Zenon
  <2> QED
    BY <2>1, <2>2, <2>3, <2>4, <2>5, <2>6, <2>7, <2>8, <2>9, <2>10, <2>11, <2>12, <2>13, <2>14,
       <2>15, <2>16, ZenonT(30) DEF RefreshStep
<1>2. RunTypes' /\ HostTypes' /\ HostSafe' /\ Local(r)' /\ Apart(r)
  BY <1>1, Zenon DEF KeepsAll
<1>3. \A q \in Refreshes \ {r} : Local(q)'
  BY <1>2, OthersKeep, Zenon
<1> QED
  BY <1>2, <1>3, Zenon DEF RFInv

(* What happens around the refreshes.                                      *)
LEMMA AroundKeeps ==
  ASSUME RunTypes, HostTypes, NEW q \in Refreshes, Local(q), UNCHANGED runVars, refreshLock' = refreshLock,
         extra' = extra, loads' = loads, outside' = outside,
         database'.data = database.data, database'.objects = database.objects,
         database'.grant = database.grant, database'.there = database.there,
         Unsafe' => Unsafe, flag \/ cleared => flag' \/ cleared',
         database.marker = "mine" \/ overmarked => database'.marker = "mine" \/ overmarked',
         \A u \in Units \ {Job} : units'[u] = units[u],
         units'[Job] = units[Job] \/ units'[Job] = "stopped" \/ units[Timer] # "stopped"
  PROVE  Local(q)'
<1>1. stage' = stage /\ running' = running /\ queue' = queue /\ listing' = listing /\ failure' = failure
      /\ before' = before
  BY Zenon DEF runVars
<1>2. Stopped' = Stopped /\ ListedUnits' = ListedUnits /\ (LoadedByEveryUnit' <=> LoadedByEveryUnit)
  BY ConfigStays, Zenon
<1>3. Approach(q) /\ Refill(q) /\ Returned(q)
  BY Zenon DEF Local
<1>4. Timer \in ListedUnits /\ ListedUnits \subseteq Units /\ Stopped # <<Service>> /\ Timer \in Units \ {Job}
  BY ListedIs, Names, Zenon
<1>5. units'[Timer] = units[Timer]
  BY <1>4, Zenon
<1>6. AllStopped => AllStopped'
  BY <1>2, <1>4, Zenon DEF AllStopped
<1>7. Approach(q)'
  <2>1. stage'[q] \in {"isActive", "stop"} =>
          /\ queue'[q] \in {Stopped', <<Job, Service>>, <<Service>>}
          /\ queue'[q] # Stopped' => units'[Timer] = "stopped"
          /\ queue'[q] = <<Job, Service>> => Job \in ListedUnits'
          /\ queue'[q] = <<Service>> /\ Job \in ListedUnits' => units'[Job] = "stopped"
    BY <1>1, <1>2, <1>3, <1>4, <1>5, ZenonT(30) DEF Approach
  <2>2. stage'[q] \in Harmless =>
          /\ database'.data = before'[q]
          /\ Elems(running'[q]) \subseteq ListedUnits'
          /\ Unsafe' => Elems(running'[q]) \subseteq outside'
    BY <1>1, <1>2, <1>3, Zenon DEF Approach
  <2>3. stage'[q] = "restart" => Elems(queue'[q]) \subseteq Elems(running'[q])
    BY <1>1, <1>3, Zenon DEF Approach
  <2>4. stage'[q] \in Halting => AllStopped'
    BY <1>1, <1>3, <1>6, Zenon DEF Approach
  <2>5. stage'[q] \in {"sessions", "drop"} => database'.there /\ (database'.marker = "mine" \/ overmarked')
    BY <1>1, <1>3, Zenon DEF Approach
  <2> QED
    BY <2>1, <2>2, <2>3, <2>4, <2>5, ZenonT(30) DEF Approach
<1>8. Refill(q)'
  <2>1. Filled(q)' = Filled(q)
    BY <1>1, Zenon DEF Filled
  <2> QED
    BY <1>1, <1>2, <1>3, <2>1, Zenon DEF Refill
<1>9. Returned(q)'
  <2>1. ASSUME stage[q] \in {"restart", "release"}, failure[q].restarted, NEW u \in Elems(running[q])
        PROVE  u = Job \/ units'[u] # "stopped" \/ (stage[q] = "restart" /\ u \in Elems(queue[q]))
    <3>1. running[q] \in Seq(Units)
      BY Zenon DEF RunTypes
    <3>2. u \in Units
      BY <2>1, <3>1, ElemsAre, Zenon
    <3> QED
      BY <1>3, <2>1, <3>2, Zenon DEF Returned
  <2> QED
    BY <1>1, <1>3, <2>1, Zenon DEF Returned
<1> QED
  BY <1>1, <1>2, <1>7, <1>8, <1>9, Zenon DEF Local

(* A deploy beside the refreshes keeps it.                                 *)
LEMMA DeployKeeps ==
  ASSUME RFInv, DeployTakesLock \/ DeployRestarts \/ RestartingDeployEnds
  PROVE  RFInv'
<1>1. RunTypes /\ HostTypes /\ HostSafe /\ \A q \in Refreshes : Local(q)
  BY Zenon DEF RFInv
<1>2. /\ refreshLock \in {NoOne, Deployer} /\ UNCHANGED runVars /\ extra' = extra /\ loads' = loads
      /\ flag' = flag /\ database' = database /\ marking' = marking /\ cleared' = cleared /\ overmarked' = overmarked
  BY Zenon DEF DeployTakesLock, DeployRestarts, RestartingDeployEnds, hostVars, histVars
<1>3. stage' = stage /\ running' = running /\ queue' = queue /\ listing' = listing /\ failure' = failure
      /\ before' = before
  BY <1>2, Zenon DEF runVars
<1>4. RunTypes'
  BY <1>1, <1>3, Zenon DEF RunTypes
<1>5. \A q \in Refreshes : stage[q] \notin Holding
  BY <1>1, <1>2, LockAssumption, Zenon DEF Local
<1>6. ASSUME NEW q \in Refreshes PROVE Local(q)'
  BY <1>1, <1>2, <1>3, <1>5, QuietKeeps, Zenon
<1>7. HostTypes' /\ HostSafe'
  <2>1. CASE units' = units /\ outside' = outside
    BY <1>1, <1>2, <2>1, HostKept, Zenon
  <2>2. CASE DeployRestarts
    <3>1. /\ units' = [units EXCEPT ![Service] = IF Service \in loads /\ flag THEN "flagged" ELSE "clear"]
          /\ outside' = IF database.data = "own" \/ (database.data = "ready" /\ flag) THEN outside
                        ELSE outside \cup {Service}
      BY <2>2, Zenon DEF DeployRestarts
    <3>2. outside' \subseteq {Service} /\ outside \subseteq outside'
      BY <1>1, <3>1, Zenon DEF HostTypes
    <3>3. /\ Service \in Units
          /\ (IF Service \in loads /\ flag THEN "flagged" ELSE "clear") \in {"stopped", "clear", "flagged"}
      BY Names, Zenon
    <3>4. /\ units' \in [Units -> {"stopped", "clear", "flagged"}]
          /\ units'[Service] = (IF Service \in loads /\ flag THEN "flagged" ELSE "clear")
          /\ \A v \in Units \ {Service} : units'[v] = units[v]
      BY <1>1, <3>1, <3>3, Zenon DEF HostTypes
    <3>5. HostTypes'
      BY <1>1, <1>2, <3>2, <3>4, ZenonT(30) DEF HostTypes
    <3>6. /\ ListedUnits' = ListedUnits /\ (LoadedByEveryUnit' <=> LoadedByEveryUnit) /\ ListedUnits \subseteq Units
          /\ (LoadedByEveryUnit => Service \in loads)
      BY <1>1, <1>2, ConfigStays, ListedIs, Zenon
    <3>7. Unsafe' => Unsafe
      BY <1>2, Zenon DEF Unsafe
    <3>8. Unsafe => Service \in outside'
      BY <3>1, Zenon DEF Unsafe
    <3>9. Unsafe' => \A v \in ListedUnits' \ outside' : units'[v] = "stopped"
      BY <1>1, <3>2, <3>4, <3>6, <3>7, <3>8, ZenonT(30) DEF HostSafe
    <3>10. FlaggedOnRefreshedData'
      <4>1. CASE database.data # "ready"
        BY <1>2, <4>1, Zenon DEF FlaggedOnRefreshedData
      <4>2. CASE database.data = "ready"
        <5>1. LoadedByEveryUnit /\ (\E l \in Listings : l \subseteq database.objects) /\ ~database.grant
          BY <1>1, <4>2, Zenon DEF HostSafe, FlaggedOnRefreshedData
        <5>2. ASSUME ~cleared, NEW v \in ListedUnits \ (outside' \cup {Timer}) PROVE units'[v] # "clear"
          <6>1. CASE v = Service
            <7>1. flag
              BY <3>1, <4>2, <5>2, <6>1, Zenon
            <7>2. units'[Service] = "flagged"
              BY <3>4, <3>6, <5>1, <7>1, Zenon
            <7> QED
              BY <6>1, <7>2, Zenon
          <6>2. CASE v # Service
            <7>1. v \in ListedUnits \ (outside \cup {Timer}) /\ v \in Units \ {Service}
              BY <3>2, <3>6, <5>2, <6>2, Zenon
            <7>2. units[v] # "clear"
              BY <1>1, <4>2, <5>2, <7>1, Zenon DEF HostSafe, FlaggedOnRefreshedData
            <7> QED
              BY <3>4, <7>1, <7>2, Zenon
          <6> QED
            BY <6>1, <6>2, Zenon
        <5> QED
          BY <1>2, <3>6, <5>1, <5>2, Zenon DEF FlaggedOnRefreshedData
      <4> QED
        BY <4>1, <4>2, Zenon
    <3> QED
      BY <1>1, <1>2, <3>5, <3>6, <3>9, <3>10, ZenonT(30) DEF HostSafe
  <2> QED
    BY <2>1, <2>2, Zenon DEF DeployTakesLock, RestartingDeployEnds, hostVars, histVars
<1> QED
  BY <1>4, <1>6, <1>7, Zenon DEF RFInv

(* A timer that fires, and the job it starts, keep it.                     *)
LEMMA SystemdKeeps ==
  ASSUME RFInv, ListedTimerFires \/ JobEnds
  PROVE  RFInv'
<1>1. RunTypes /\ HostTypes /\ HostSafe /\ \A q \in Refreshes : Local(q)
  BY Zenon DEF RFInv
<1>2. /\ refreshLock' = refreshLock /\ UNCHANGED runVars /\ extra' = extra /\ loads' = loads
      /\ flag' = flag /\ database' = database /\ marking' = marking /\ cleared' = cleared /\ overmarked' = overmarked
      /\ outside' = outside
  BY Zenon DEF ListedTimerFires, JobEnds, histVars
<1>3. RunTypes'
  BY <1>1, <1>2, Zenon DEF RunTypes, runVars
<1>4. /\ HostTypes' /\ HostSafe' /\ \A u \in Units \ {Job} : units'[u] = units[u]
      /\ units'[Job] = units[Job] \/ units'[Job] = "stopped" \/ units[Timer] # "stopped"
  <2>1. Job \in Units
    BY Names, Zenon
  <2>2. CASE JobEnds
    <3>1. units' = [units EXCEPT ![Job] = "stopped"]
      BY <2>2, Zenon DEF JobEnds
    <3> QED
      BY <1>1, <1>2, <2>1, <3>1, HostStops, Zenon
  <2>3. CASE ListedTimerFires
    <3>1. units' = [units EXCEPT ![Job] = StartedAs(Job)] /\ units[Timer] # "stopped"
      BY <2>3, Zenon DEF ListedTimerFires
    <3>2. ~Unsafe
      <4>1. Timer \in ListedUnits \ outside
        BY <1>1, ListedIs, Names, Zenon DEF HostTypes
      <4> QED
        BY <1>1, <3>1, <4>1, Zenon DEF HostSafe
    <3> QED
      BY <1>1, <1>2, <2>1, <3>1, <3>2, HostStarts, ZenonT(30)
  <2> QED
    BY <2>2, <2>3, Zenon
<1>5. Unsafe' => Unsafe
  BY <1>2, Zenon DEF Unsafe
<1>6. ASSUME NEW q \in Refreshes PROVE Local(q)'
  BY <1>1, <1>2, <1>4, <1>5, AroundKeeps, Zenon
<1> QED
  BY <1>3, <1>4, <1>6, Zenon DEF RFInv

(* --clear-flag and mark-refresh-target keep it.                           *)
LEMMA CommandsKeep ==
  ASSUME RFInv, ClearFlag \/ (\E c \in {"mine", "other"} : MarkReads(c)) \/ MarkSets
  PROVE  RFInv'
<1>1. RunTypes /\ HostTypes /\ HostSafe /\ \A q \in Refreshes : Local(q)
  BY Zenon DEF RFInv
<1>2. /\ refreshLock' = refreshLock /\ UNCHANGED runVars /\ extra' = extra /\ loads' = loads
      /\ units' = units /\ outside' = outside
  BY Zenon DEF ClearFlag, MarkReads, MarkSets, hostVars, histVars
<1>3. RunTypes'
  BY <1>1, <1>2, Zenon DEF RunTypes, runVars
<1>4. /\ database' \in Databases /\ database'.data = database.data /\ database'.objects = database.objects
      /\ database'.grant = database.grant /\ database'.there = database.there
      /\ database.marker = "mine" \/ overmarked => database'.marker = "mine" \/ overmarked'
      /\ overmarked' \in BOOLEAN
  <2>1. CASE database' = database /\ overmarked' = overmarked
    BY <1>1, <2>1, Zenon DEF HostTypes
  <2>2. CASE /\ marking \in {"mine", "other"}
             /\ database' = [database EXCEPT !.marker = marking]
             /\ overmarked' = (overmarked \/ database.marker \notin {"none", marking})
    <3>1. database \in Databases /\ marking \in {"none", "mine", "other"}
      BY <1>1, <2>2, Zenon DEF HostTypes
    <3>2. /\ database' \in Databases /\ database'.data = database.data /\ database'.objects = database.objects
          /\ database'.grant = database.grant /\ database'.there = database.there
          /\ database'.marker = marking
      BY <2>2, <3>1, Zenon DEF Databases
    <3>3. database.marker = "mine" \/ overmarked => marking = "mine" \/ overmarked'
      BY <2>2, Zenon
    <3>4. overmarked' \in BOOLEAN
      BY <2>2, Zenon
    <3> QED
      BY <3>2, <3>3, <3>4, Zenon
  <2> QED
    BY <2>1, <2>2, Zenon DEF ClearFlag, MarkReads, MarkSets, histVars
<1>5. /\ (flag' = flag /\ cleared' = cleared) \/ (flag' = FALSE /\ cleared' = TRUE)
      /\ marking' \in {"idle", "mine", "other", "over"}
  BY <1>1, Zenon DEF ClearFlag, MarkReads, MarkSets, hostVars, histVars, HostTypes
<1>6. flag' \in BOOLEAN /\ cleared' \in BOOLEAN
  BY <1>1, <1>5, Zenon DEF HostTypes
<1>7. HostTypes'
  BY <1>1, <1>2, <1>4, <1>5, <1>6, ZenonT(30) DEF HostTypes
<1>8. (Unsafe' => Unsafe) /\ (flag \/ cleared => flag' \/ cleared')
  BY <1>4, <1>5 DEF Unsafe
<1>9. HostSafe'
  <2>1. ListedUnits' = ListedUnits /\ (LoadedByEveryUnit' <=> LoadedByEveryUnit)
    BY <1>2, ConfigStays, Zenon
  <2>2. FlaggedOnRefreshedData'
    <3>1. FlaggedOnRefreshedData
      BY <1>1, Zenon DEF HostSafe
    <3>2. cleared => cleared'
      BY <1>5, Zenon
    <3> QED
      BY <1>2, <1>4, <2>1, <3>1, <3>2, ZenonT(30) DEF FlaggedOnRefreshedData
  <2> QED
    BY <1>1, <1>2, <1>4, <1>8, <2>1, <2>2, ZenonT(30) DEF HostSafe
<1>10. ASSUME NEW q \in Refreshes PROVE Local(q)'
  BY <1>1, <1>2, <1>4, <1>8, AroundKeeps, ZenonT(30)
<1> QED
  BY <1>3, <1>7, <1>9, <1>10, Zenon DEF RFInv

(* Before the first refresh the environment has its own data.              *)
LEMMA RFInitInv == RFInit => RFInv
<1> SUFFICES ASSUME RFInit PROVE RFInv
  BY Zenon
<1>1. <<>> \in Seq(Units) /\ NoFailure \in Reasons /\ NoArchive \in Contents /\ ~NoFailure.restarted
  BY DEF NoFailure, Reasons, Causes, NoArchive, Contents
<1>2. RunTypes
  BY <1>1, Zenon DEF RFInit, RunTypes
<1>3. database \in Databases /\ database.data = "own" /\ ~database.grant
  <2>1. /\ database \in Database /\ database.data = "own" /\ ~database.grant /\ database.objects = {}
    BY Zenon DEF RFInit
  <2>2. [database EXCEPT !.objects = {}] = database
    BY <2>1, Zenon DEF Database
  <2>3. [database EXCEPT !.objects = {}] \in Databases
    BY <2>1, Zenon DEF Database, Databases
  <2> QED
    BY <2>1, <2>2, <2>3, Zenon
<1>4. HostTypes
  <2>1. loads \subseteq Units
    BY Names, Zenon DEF RFInit
  <2>2. units \in [Units -> {"stopped", "clear", "flagged"}]
    BY Zenon DEF RFInit
  <2> QED
    BY <1>3, <2>1, <2>2, Zenon DEF RFInit, HostTypes
<1>5. HostSafe
  BY <1>3, Zenon DEF HostSafe, Unsafe, FlaggedOnRefreshedData
<1>6. ASSUME NEW r \in Refreshes PROVE Local(r)
  <2>1. stage[r] = "start" /\ running[r] = <<>> /\ ~failure[r].restarted
    BY <1>1, Zenon DEF RFInit
  <2>2. "start" \notin Holding /\ "start" \notin Harmless /\ "start" \notin Halting
    BY Zenon DEF Holding, Harmless, Halting
  <2>3. Approach(r)
    BY <2>1, <2>2, Zenon DEF Approach
  <2>4. Refill(r)
    BY <2>1, <2>2, Zenon DEF Refill
  <2>5. Returned(r)
    BY <2>1, Zenon DEF Returned
  <2> QED
    BY <2>1, <2>2, <2>3, <2>4, <2>5, ZenonT(30) DEF Local
<1> QED
  BY <1>2, <1>4, <1>5, <1>6, ZenonT(30) DEF RFInv

(* Every step of anyone keeps the invariant.                               *)
LEMMA RFNextInv == RFInv /\ [RFNext]_rfVars => RFInv'
<1> SUFFICES ASSUME RFInv, [RFNext]_rfVars PROVE RFInv'
  BY Zenon
<1>1. ASSUME NEW r \in Refreshes, RefreshStep(r) PROVE RFInv'
  BY <1>1, RefreshStepKeeps, Zenon
<1>2. CASE DeployTakesLock \/ DeployRestarts \/ RestartingDeployEnds
  BY <1>2, DeployKeeps, Zenon
<1>3. CASE ListedTimerFires \/ JobEnds
  BY <1>3, SystemdKeeps, Zenon
<1>4. CASE ClearFlag \/ (\E c \in {"mine", "other"} : MarkReads(c)) \/ MarkSets
  BY <1>4, CommandsKeep, Zenon
<1>5. CASE UNCHANGED rfVars
  <2>1. RunTypes /\ HostTypes /\ HostSafe /\ \A q \in Refreshes : Local(q)
    BY Zenon DEF RFInv
  <2>2. /\ refreshLock' = refreshLock /\ stage' = stage /\ running' = running /\ queue' = queue
        /\ listing' = listing /\ failure' = failure /\ before' = before
    BY <1>5, Zenon DEF rfVars, runVars
  <2>3. /\ extra' = extra /\ loads' = loads /\ units' = units /\ flag' = flag /\ database' = database
        /\ marking' = marking /\ outside' = outside /\ cleared' = cleared /\ overmarked' = overmarked
    BY <1>5, Zenon DEF rfVars, hostVars, histVars
  <2>4. RunTypes'
    BY <2>1, <2>2, Zenon DEF RunTypes
  <2>5. HostTypes' /\ HostSafe'
    BY <2>1, <2>3, HostKept, Zenon
  <2>6. ASSUME NEW q \in Refreshes PROVE Local(q)'
    BY <2>1, <2>2, <2>3, StillKeeps, ZenonT(30)
  <2> QED
    BY <2>4, <2>5, <2>6, Zenon DEF RFInv
<1> QED
  BY <1>1, <1>2, <1>3, <1>4, <1>5, ZenonT(30) DEF RFNext

(* Between any two steps of the refreshes, the deploys, systemd and the    *)
(* other commands: whoever is past the lock holds it; while data that is   *)
(* neither the environment's nor sanitized and flagged is there, every     *)
(* unit a refresh lists is stopped but one a deploy started; a refresh     *)
(* that has not dropped the database found the data as it was when it took *)
(* the lock, and the units it noted are units it may start (run_locked,    *)
(* stop_all, restart, start_flagged).                                      *)
THEOREM UnitsFollowRefresh == RFSpec => []RFInv
<1>1. RFInit => RFInv
  BY RFInitInv, Zenon
<1>2. RFInv /\ [RFNext]_rfVars => RFInv'
  BY RFNextInv, Zenon
<1> QED
  BY <1>1, <1>2, PTL DEF RFSpec

(* However the refreshes, a deploy, a timer, --clear-flag and              *)
(* mark-refresh-target interleave, and wherever a refresh fails or dies,   *)
(* no unit meets raw or half restored data, none runs on refreshed data    *)
(* without the outbound flag until it is cleared, and a refusal that       *)
(* reports the units restarted changed nothing and started them all.       *)
THEOREM SafeDataOnly == RFSpec => []UnitsSeeSafeData
<1>1. RFInv => UnitsSeeSafeData
  <2> SUFFICES ASSUME RFInv PROVE UnitsSeeSafeData
    BY Zenon
  <2>1. RunTypes /\ HostSafe /\ \A r \in Refreshes : Local(r)
    BY Zenon DEF RFInv
  <2>2. RawDataUnreached
    BY <2>1, Zenon DEF RawDataUnreached, HostSafe, Unsafe
  <2>3. FlaggedOnRefreshedData
    BY <2>1, Zenon DEF HostSafe
  <2>4. ASSUME NEW r \in Refreshes, stage[r] = "release", UnitsReport(r) = "restarted"
        PROVE  /\ database.data = before[r]
               /\ \A i \in 1..Len(running[r]) : running[r][i] = Job \/ units[running[r][i]] # "stopped"
    <3>1. failure[r].restarted
      BY <2>4, Zenon DEF UnitsReport
    <3>2. /\ database.data = before[r]
          /\ \A u \in Elems(running[r]) : u = Job \/ units[u] # "stopped"
      BY <2>1, <2>4, <3>1, Zenon DEF Local, Returned
    <3>3. \A i \in 1..Len(running[r]) : running[r][i] \in Elems(running[r])
      BY Zenon DEF Elems
    <3> QED
      BY <3>2, <3>3, Zenon
  <2> QED
    BY <2>2, <2>3, <2>4, Zenon DEF UnitsSeeSafeData, RefusalRestores
<1> QED
  BY <1>1, UnitsFollowRefresh, PTL

(* Only a refresh that read this environment's own marker drops the        *)
(* database, and the marker is still there, or one that                    *)
(* mark-refresh-target set over it.                                        *)
LEMMA DropIsMarked ==
  ASSUME RFInv, RFNext, database.there, ~database'.there
  PROVE  database.marker = "mine" \/ overmarked
<1>1. database \in Databases
  BY Zenon DEF RFInv, HostTypes
<1>2. ASSUME NEW r \in Refreshes, RefreshStep(r) PROVE database.marker = "mine" \/ overmarked
  <2>1. CASE Drop(r)
    <3>1. stage[r] = "drop" /\ Local(r)
      BY <2>1, Zenon DEF Drop, DbStep, RFInv
    <3> QED
      BY <3>1, Zenon DEF Local, Approach
  <2>2. CASE database' = database
    BY <2>2, Zenon
  <2>3. CASE Create(r) \/ SetMarker(r) \/ CreateExtensions(r) \/ RestoreRows(r) \/ Migrate(r) \/ Sanitize(r)
    <3>1. [Gone EXCEPT !.there = TRUE].there = TRUE
      BY Zenon DEF Gone
    <3>2. \A m : [database EXCEPT !.marker = m].there = database.there
                 /\ [database EXCEPT !.objects = m].there = database.there
                 /\ [database EXCEPT !.data = m].there = database.there
      BY <1>1, Zenon DEF Databases
    <3>3. database'.there = database.there \/ database'.there = TRUE
      <4>1. CASE Create(r)
        BY <3>1, <4>1, Zenon DEF Create, DbStep
      <4>2. CASE SetMarker(r) \/ CreateExtensions(r) \/ RestoreRows(r)
        BY <3>2, <4>2, Zenon DEF SetMarker, CreateExtensions, RestoreRows, DbStep
      <4>3. CASE Migrate(r) \/ Sanitize(r)
        BY <3>2, <4>3, Zenon DEF Migrate, Sanitize, DbStep
      <4> QED
        BY <2>3, <4>1, <4>2, <4>3, Zenon
    <3> QED
      BY <3>3, Zenon
  <2>4. CASE RestoreObjects(r)
    <3> DEFINE granted == [database EXCEPT !.data = "raw", !.grant = Reached(r) # {}]
               restored == [granted EXCEPT !.objects = @ \cup Lists(r).app]
    <3>1. granted.there = database.there /\ restored.there = database.there
      BY <1>1, Zenon DEF Databases
    <3>2. database' = restored \/ database' = granted
      BY <2>4, Zenon DEF RestoreObjects
    <3> HIDE DEF granted, restored
    <3>3. database'.there = database.there
      BY <3>1, <3>2, Zenon
    <3> QED
      BY <3>3, Zenon
  <2>5. CASE Revoke(r)
    <3>1. [database EXCEPT !.grant = FALSE].there = database.there
      BY <1>1, Zenon DEF Databases
    <3>2. database'.there = database.there
      BY <2>5, <3>1, Zenon DEF Revoke
    <3> QED
      BY <3>2, Zenon
  <2>6. CASE CheckConfig(r) \/ CheckArchive(r) \/ TakeLock(r) \/ IsActive(r) \/ Stop(r) \/ RestartUnit(r)
             \/ Precheck(r) \/ ReadMarker(r) \/ ReadSessions(r) \/ CountTables(r) \/ WriteFlag(r)
             \/ StartUnit(r) \/ Prove(r) \/ StopUnitAgain(r) \/ Release(r) \/ Crash(r)
    <3>1. database' = database
      BY <2>6, Zenon
      DEF CheckConfig, CheckArchive, TakeLock, IsActive, Stop, RestartUnit, Precheck, ReadMarker,
                         ReadSessions, CountTables, WriteFlag, StartUnit, Prove, StopUnitAgain,
                            Release, Crash
    <3> QED
      BY <2>2, <3>1, Zenon
  <2> QED
    BY <1>2, <2>1, <2>3, <2>4, <2>5, <2>6, ZenonT(30) DEF RefreshStep
<1>3. CASE database' = database
  BY <1>3, Zenon
<1>4. CASE MarkSets
  <2>1. \A m : [database EXCEPT !.marker = m].there = database.there
    BY <1>1, Zenon DEF Databases
  <2>2. database'.there = database.there
    BY <1>4, <2>1, Zenon DEF MarkSets
  <2> QED
    BY <2>2, Zenon
<1>5. CASE DeployTakesLock \/ DeployRestarts \/ RestartingDeployEnds \/ ListedTimerFires \/ JobEnds
           \/ ClearFlag \/ \E c \in {"mine", "other"} : MarkReads(c)
  <2>1. database' = database
    BY <1>5, Zenon
    DEF DeployTakesLock, DeployRestarts, RestartingDeployEnds, ListedTimerFires, JobEnds,
                       ClearFlag, MarkReads
  <2> QED
    BY <1>3, <2>1, Zenon
<1> QED
  BY <1>2, <1>4, <1>5, Zenon DEF RFNext

(* A refresh drops a database only while it carries this environment's     *)
(* marker, unless a mark-refresh-target that had read no marker set        *)
(* another one over it (marked_and_idle).                                  *)
THEOREM OnlyMarkedDrops == RFSpec => DropsOnlyMarked
<1>1. RFInv /\ [RFNext]_rfVars =>
        [database.there /\ ~database'.there => database.marker = "mine" \/ overmarked]_rfVars
  BY DropIsMarked, Zenon
<1> QED
  BY <1>1, UnitsFollowRefresh, PTL DEF RFSpec, DropsOnlyMarked

=============================================================================
