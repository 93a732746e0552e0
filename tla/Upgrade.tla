------------------------------ MODULE Upgrade -------------------------------
(***************************************************************************)
(* The webhook server (fraisier-webhook), `self-upgrade apply`             *)
(* and `self-upgrade restart` (fraisier-self-upgrade), and the drain       *)
(* coordinator (drain.rs) around one systemd unit: the server takes one    *)
(* connection at a time and answers health probes and deploy POSTs alike;  *)
(* an upgrade stages a binary, swaps the `current` link, restarts the      *)
(* unit, probes it and reverts when it does not come up in time.  The      *)
(* coordinator is a library operation that no command calls: both restarts *)
(* happen whether or not one is at work.                                   *)
(*                                                                         *)
(* systemd is external: restart stops the unit (SIGTERM, and SIGKILL at    *)
(* its stop deadline) and starts what `current` names; Restart=on-failure. *)
(***************************************************************************)
EXTENDS Naturals, FiniteSets

CONSTANTS Posts,       \* the deploy POSTs
          None

(* None is no POST, no name, no binary and no outcome.                     *)
ASSUME NoneAssumption ==
    None \notin Posts \cup {"old", "new", "v2", "broken", "aborted", "committed", "reverted", "manual"}

Ids   == {"old", "new"}                      \* the names of staged binaries
Works(b) == b \in {"v1", "v2"}              \* not "broken", not "torn" by a failed write

VARIABLES req,         \* what became of each POST
          late,        \* history: POSTs accepted but unlocked when the drain settled
          srv,         \* the unit's process
          activated,   \* the listener is systemd's (socket activation)
          files,       \* the staged binaries
          current,     \* the link ExecStart names
          app,         \* the upgrade
          probe,       \* its health probe
          cmd,         \* `self-upgrade restart`: idle, restarting
          drainFlag,   \* the drain flag file
          coord        \* the drain coordinator

webVars == <<req, late, srv, activated>>
binVars == <<files, current>>
upVars  == <<webVars, binVars, app, probe, cmd, drainFlag, coord>>

Down == [up |-> FALSE, image |-> None, term |-> FALSE, busy |-> None]
ImageOf(b) == [up |-> TRUE, image |-> b, term |-> FALSE, busy |-> None]

-----------------------------------------------------------------------------
(* One connection.                                                         *)

(* verify: the first check that fails.                                     *)
Verify(r) ==
    IF r.stamp = "missing" THEN "MissingTimestamp"
    ELSE IF r.stamp = "bad" THEN "BadTimestamp"
    ELSE IF r.stamp = "stale" THEN "Stale"
    ELSE IF r.sig = "missing" THEN "MissingSignature"
    ELSE IF r.sig = "malformed" THEN "BadSignatureFormat"
    ELSE IF r.sig = "wrong" THEN "Mismatch"
    ELSE "Ok"

(* read_request: the headers and the body within their bounds, in time; a  *)
(* body the peer cut short is read as it is.                               *)
ReadRequest(r) == IF r.arrives \in {"late", "oversize", "cut head"} THEN "bad" ELSE "ok"

Requests == [arrives : {"whole", "late", "oversize", "cut head", "cut body"},
             method : {"POST", "GET"}, stamp : {"missing", "bad", "stale", "fresh"},
             sig : {"missing", "malformed", "wrong", "right"}]

ServeUndrained(r, draining) ==
    IF ReadRequest(r) # "ok" THEN "400"
    ELSE IF r.method # "POST" THEN "405"
    ELSE IF Verify(r) # "Ok" \/ r.arrives = "cut body" THEN "401"
    ELSE "accepted"

(* serve_connection up to the handler; a body cut short does not match its *)
(* signature.                                                              *)
ServeConnection(r, draining) ==
    IF ReadRequest(r) # "ok" THEN "400"
    ELSE IF r.method # "POST" THEN "405"
    ELSE IF Verify(r) # "Ok" \/ r.arrives = "cut body" THEN "401"
    ELSE IF draining THEN "503"
    ELSE "accepted"

Served == [draining \in BOOLEAN |-> {ServeConnection(r, draining) : r \in Requests}]

(* A connection waits in the listener's backlog; without socket activation *)
(* nobody listens while the unit is down.                                  *)
Arrive(p) ==
    /\ req[p] = "none"
    /\ req' = [req EXCEPT ![p] = IF srv.up \/ activated THEN "queued" ELSE "dropped"]
    /\ UNCHANGED <<late, srv, activated, binVars, app, probe, cmd, drainFlag, coord>>

(* Between two connections; only a binary that works serves any.           *)
Idle == srv.up /\ Works(srv.image) /\ srv.busy = None

(* The accept loop; select takes either branch when a SIGTERM waits too.   *)
(* Whoever connected has the server to itself while its request is read.   *)
Accept(p) ==
    /\ Idle /\ req[p] = "queued"
    /\ req' = [req EXCEPT ![p] = "reading"]
    /\ srv' = [srv EXCEPT !.busy = p]
    /\ UNCHANGED <<late, activated, binVars, app, probe, cmd, drainFlag, coord>>

(* The request is there, or the time to read it is over.                   *)
Dispatch(p) ==
    /\ req[p] = "reading" /\ srv.busy = p
    /\ \E served \in Served[drainFlag] :
          /\ req' = [req EXCEPT ![p] = served]
          /\ srv' = IF served = "accepted" THEN srv ELSE [srv EXCEPT !.busy = None]
    /\ UNCHANGED <<late, activated, binVars, app, probe, cmd, drainFlag, coord>>

AnswerProbe ==
    /\ Idle /\ probe = "waiting" /\ probe' = "healthy"
    /\ UNCHANGED <<webVars, binVars, app, cmd, drainFlag, coord>>

(* The handler: run_deploy takes the deploy lock, or fails before it.      *)
DeployLocks(p) ==
    /\ req[p] = "accepted" /\ srv.busy = p
    /\ req' = [req EXCEPT ![p] = "locked"]
    /\ UNCHANGED <<late, srv, activated, binVars, app, probe, cmd, drainFlag, coord>>

DeployEnds(p) ==
    /\ req[p] \in {"accepted", "locked"} /\ srv.busy = p
    /\ \E code \in {"200", "500"} : req' = [req EXCEPT ![p] = code]
    /\ srv' = [srv EXCEPT !.busy = None]
    /\ UNCHANGED <<late, activated, binVars, app, probe, cmd, drainFlag, coord>>

-----------------------------------------------------------------------------
(* The unit.                                                               *)

ClosedBacklog == [p \in Posts |-> IF req[p] = "queued" /\ ~activated THEN "dropped" ELSE req[p]]

(* SIGTERM is seen between two connections, never inside one.              *)
ExitMidRequest ==
    /\ srv.up /\ srv.term
    /\ srv' = Down
    /\ req' = ClosedBacklog
    /\ UNCHANGED <<late, activated, binVars, app, probe, cmd, drainFlag, coord>>

ExitOnTerm ==
    /\ srv.up /\ srv.term /\ srv.busy = None
    /\ srv' = Down
    /\ req' = ClosedBacklog
    /\ UNCHANGED <<late, activated, binVars, app, probe, cmd, drainFlag, coord>>

(* systemd's stop deadline kills a server that still serves a connection.  *)
StopDeadline ==
    /\ srv.up /\ srv.term /\ srv.busy # None
    /\ srv' = Down
    /\ req' = [ClosedBacklog EXCEPT ![srv.busy] = "killed"]
    /\ UNCHANGED <<late, activated, binVars, app, probe, cmd, drainFlag, coord>>

(* A binary that does not work boots and dies; systemd starts it again.    *)
BootsThenDies ==
    /\ srv.up /\ ~Works(srv.image)
    /\ srv' = Down /\ req' = ClosedBacklog
    /\ UNCHANGED <<late, activated, binVars, app, probe, cmd, drainFlag, coord>>

RestartOnFailure ==
    /\ ~srv.up /\ current # None /\ app.pc # "restarting" /\ cmd # "restarting"
    /\ srv' = ImageOf(files[current])
    /\ UNCHANGED <<req, late, activated, binVars, app, probe, cmd, drainFlag, coord>>

(* systemctl restart: the stop half, then the start half, which may fail;  *)
(* two restarts at once are one job, and the second finds the unit started *)
SigTerm == srv' = IF srv.up THEN [srv EXCEPT !.term = TRUE] ELSE srv
StartWebhook ==
    \/ ~srv.up /\ srv' = IF current = None THEN Down ELSE ImageOf(files[current])
    \/ srv.up /\ ~srv.term /\ UNCHANGED srv
StartFails == ~srv.up /\ UNCHANGED srv

-----------------------------------------------------------------------------
(* self-upgrade apply.  bytes is what the source yields; prior, before and *)
(* the outcome are what apply knows or says.                               *)

ApplyAt(pc) == app' = [app EXCEPT !.pc = pc]
ResolveUpgrade(outcome, notified) ==
    app' = [app EXCEPT !.pc = "done", !.outcome = outcome, !.notified = notified]

applyUnchanged == UNCHANGED <<req, late, activated, cmd, drainFlag, coord>>

(* A configured checksum is compared before anything is staged.            *)
Verified(expected) == expected \in {"absent", "matches"}

(* The gates, the fetch, and the target to revert to.                      *)
Fetch ==
    /\ app.pc = "start"
    /\ \E systemd, ok \in BOOLEAN, expected \in {"absent", "matches", "differs"},
         b \in {"v2", "broken"}, id \in Ids :
       IF systemd /\ ok /\ Verified(expected)
       THEN app' = [app EXCEPT !.pc = "stage", !.bytes = b, !.id = id,
                               !.prior = current, !.before = files]
       ELSE ResolveUpgrade("aborted", FALSE)
    /\ UNCHANGED <<srv, binVars, probe>> /\ applyUnchanged

(* The file is written in place: a file the unit executes is busy, a write *)
(* that fails leaves it torn.                                              *)
Running(id) == srv.up /\ id = current
Stage ==
    /\ app.pc = "stage"
    /\ \/ /\ ~Running(app.id)
          /\ files' = [files EXCEPT ![app.id] = app.bytes]
          /\ ApplyAt("activate")
       \/ /\ files' \in {files} \cup (IF Running(app.id) THEN {}
                                      ELSE {[files EXCEPT ![app.id] = "torn"]})
          /\ ResolveUpgrade("aborted", FALSE)
    /\ UNCHANGED <<srv, current, probe>> /\ applyUnchanged

(* activate_symlink: a temporary link and a rename.                        *)
ActivateBinary ==
    /\ app.pc = "activate"
    /\ \/ current' = app.id /\ ApplyAt("restart")
       \/ UNCHANGED current /\ ResolveUpgrade("aborted", FALSE)
    /\ UNCHANGED <<srv, files, probe>> /\ applyUnchanged

(* bring_up, for the new binary and again for the kept one.                *)
Failed(back) == IF back THEN ResolveUpgrade("manual", TRUE) ELSE ApplyAt("revert")

RestartWebhook ==
    /\ app.pc = "restart"
    /\ \/ SigTerm /\ ApplyAt("restarting")
       \/ UNCHANGED srv /\ Failed(app.back)
    /\ UNCHANGED <<binVars, probe>> /\ applyUnchanged

Restarted ==
    /\ app.pc = "restarting"
    /\ \/ StartWebhook /\ ApplyAt("probe") /\ probe' = "waiting"
       \/ StartFails /\ Failed(app.back) /\ UNCHANGED probe
    /\ UNCHANGED binVars /\ applyUnchanged

Prune(keep) == {id \in Ids : id = current \/ keep > 1}

(* is_active was asked before the probe was sent: the answer decides.      *)
Healthy ==
    /\ app.pc = "probe" /\ probe = "healthy" /\ probe' = "none"
    /\ IF app.back THEN ResolveUpgrade("reverted", TRUE) /\ UNCHANGED files
       ELSE /\ ResolveUpgrade("committed", FALSE)
            /\ \E keep \in 1..2 :
                 files' = [id \in Ids |-> IF id \in Prune(keep) THEN files[id] ELSE None]
    /\ UNCHANGED <<srv, current>> /\ applyUnchanged

(* The time is over, whatever the reason: a binary that is broken or slow  *)
(* to boot, a connection that has the server, an answer on its way.        *)
HealthTimeout ==
    /\ app.pc = "probe" /\ probe' = "none"
    /\ Failed(app.back)
    /\ UNCHANGED <<srv, binVars>> /\ applyUnchanged

(* One revert: to the kept binary, if there was one and the link moves.    *)
RevertToStaged ==
    /\ app.pc = "revert"
    /\ app' = [app EXCEPT !.pc = "restart", !.back = TRUE]
    /\ UNCHANGED <<srv, binVars, probe>> /\ applyUnchanged

Revert ==
    /\ app.pc = "revert"
    /\ \/ /\ app.prior # None
          /\ current' = app.prior
          /\ app' = [app EXCEPT !.pc = "restart", !.back = TRUE]
       \/ UNCHANGED current /\ ResolveUpgrade("manual", TRUE)
    /\ UNCHANGED <<srv, files, probe>> /\ applyUnchanged

(* The process of the upgrade dies; nobody continues it.                   *)
ApplyDies ==
    /\ app.pc \notin {"start", "done"}
    /\ ApplyAt("dead") /\ probe' = "none"
    /\ UNCHANGED <<srv, binVars>> /\ applyUnchanged

-----------------------------------------------------------------------------
(* self_upgrade_restart: systemctl restart and nothing before it.          *)

restartUnchanged == UNCHANGED <<req, late, activated, binVars, app, probe, drainFlag, coord>>

SelfUpgradeRestart ==
    /\ cmd = "idle" /\ SigTerm /\ cmd' = "restarting"
    /\ restartUnchanged

SelfUpgradeRestarted ==
    /\ cmd = "restarting" /\ (StartWebhook \/ StartFails) /\ cmd' = "idle"
    /\ restartUnchanged

-----------------------------------------------------------------------------
(* drain_in_flight.                                                        *)

drainUnchanged == UNCHANGED <<req, srv, activated, binVars, app, probe, cmd>>

RaiseFlag ==
    /\ coord = "idle" /\ coord' = "settling" /\ drainFlag' = TRUE
    /\ UNCHANGED late /\ drainUnchanged

Settled ==
    /\ coord = "settling" /\ coord' = "polling"
    /\ late' = {p \in Posts : req[p] = "accepted"}
    /\ UNCHANGED drainFlag /\ drainUnchanged

Locked == {p \in Posts : req[p] = "locked"}

Poll ==
    /\ coord = "polling" /\ Locked = {} /\ coord' = "drained"
    /\ UNCHANGED <<late, drainFlag>> /\ drainUnchanged

DrainTimeout ==
    /\ coord = "polling" /\ Locked # {}
    /\ coord' = "timed out" /\ drainFlag' = FALSE
    /\ UNCHANGED late /\ drainUnchanged

-----------------------------------------------------------------------------
UpInit ==
    /\ req = [p \in Posts |-> "none"] /\ late = {}
    /\ activated \in BOOLEAN
    /\ files \in {[id \in Ids |-> None],
                  [id \in Ids |-> IF id = "old" THEN "v1" ELSE None]}
    /\ current = IF files["old"] = None THEN None ELSE "old"
    /\ srv \in {Down} \cup (IF current = None THEN {} ELSE {ImageOf(files["old"])})
    /\ app = [pc |-> "start", bytes |-> None, id |-> None, prior |-> None, before |-> files,
              back |-> FALSE, outcome |-> None, notified |-> FALSE]
    /\ probe = "none" /\ cmd = "idle"
    /\ drainFlag = FALSE /\ coord = "idle"

Apply == \/ Fetch \/ Stage \/ ActivateBinary \/ RestartWebhook \/ Restarted \/ Healthy
         \/ HealthTimeout \/ Revert \/ ApplyDies

Drain == RaiseFlag \/ Settled \/ Poll \/ DrainTimeout

UpNext ==
    \/ \E p \in Posts : Arrive(p) \/ Accept(p) \/ Dispatch(p) \/ DeployLocks(p) \/ DeployEnds(p)
    \/ AnswerProbe \/ ExitOnTerm \/ StopDeadline \/ BootsThenDies \/ RestartOnFailure
    \/ Apply \/ SelfUpgradeRestart \/ SelfUpgradeRestarted \/ Drain

UpSpec == UpInit /\ [][UpNext]_upVars

-----------------------------------------------------------------------------
(* What an upgrade says is what it left: committed, `current` is the new   *)
(* binary, whole and working; reverted, it is the kept one as it was, and  *)
(* the failure was notified; aborted, nothing moved.  An upgrade under the *)
(* name of the kept binary overwrites it, and is left out (apply, revert). *)
UpgradeOutcomeTrue ==
    app.pc = "done" /\ app.outcome # None /\ app.id # app.prior =>
        /\ app.outcome = "committed" =>
               current = app.id /\ files[current] = app.bytes /\ Works(app.bytes)
        /\ app.outcome = "reverted" =>
               current = app.prior /\ files[current] = app.before[current] /\ app.notified
        /\ app.outcome = "aborted" =>
               current = app.prior /\ (current # None => files[current] = app.before[current])
        /\ app.outcome = "manual" => app.notified

(* However an upgrade ends or dies, the unit has a whole binary to start,  *)
(* and until the upgrade commits the binary to go back to is on disk as it *)
(* was (stage before activate, prune after the probe; the same exception). *)
BinariesStayWhole ==
    app.id # app.prior =>
        /\ current # None => files[current] \notin {None, "torn"}
        /\ app.prior # None /\ app.outcome # "committed" =>
               files[app.prior] = app.before[app.prior] /\ current \in {app.prior, app.id}

(* A connection the server took has its server until it is answered or     *)
(* systemd's stop deadline kills it, the deploy it asked for included: no  *)
(* SIGTERM, no restart, drained or not, of the upgrade or of an operator,  *)
(* and no binary that dies at boot takes the server from under it (serve:  *)
(* SIGTERM is observed after the request).                                 *)
NoDeployCutOff ==
    \A p \in Posts : req[p] \in {"reading", "accepted", "locked"} => srv.up /\ srv.busy = p

(* When the coordinator reports the unit drained, the deploys that hold    *)
(* their lock are those that took longer than the settle window to get to  *)
(* it (drain_in_flight, serve_connection).                                 *)
DrainedMeansIdle == coord = "drained" => Locked \subseteq late

(* What the upgrade and the drain report is so, and neither an upgrade nor *)
(* its death leaves the unit without a binary.                             *)
UpgradeReportsTrue == UpgradeOutcomeTrue /\ BinariesStayWhole /\ DrainedMeansIdle
=============================================================================
