-------------------------------- MODULE Ipc --------------------------------
(***************************************************************************)
(* One call of an external adapter (fraisier-ipc): the client spawns the   *)
(* program, directly or through ssh, writes one framed request, reads one  *)
(* framed response and stderr under the call timeout, awaits the child's   *)
(* exit and decodes.  The adapter is a program of its own: it may answer   *)
(* anything, die or hang at any point, close its outputs early, and have a *)
(* helper (a tool it runs) do the work, which outlives it.                 *)
(***************************************************************************)
EXTENDS Naturals

VARIABLES launcher,    \* "local", "ssh" or an ssh launcher with no host address
          client,      \* idle, sending, exchanging, waiting
          child,       \* the spawned process: none, up, exited
          adapter,     \* the program: none, up, cut, read, worked, answered, exited
          helper,      \* a process of the adapter that does the work: none, up, over
          outputs,     \* the child's open outputs, a subset of {"out", "err"}
          request,     \* the method called; it is on the child's stdin once sent
          response,    \* what is on the child's stdout
          applied,     \* the adapter did what the method asks
          result,      \* what `call` returned
          late         \* history: the adapter acted after `call` returned

ipcVars ==
    <<launcher, client, child, adapter, helper, outputs, request, response, applied, result, late>>

None == "none"

MigrationMethods ==
    {"describe", "current_revision", "up", "down_to", "verify", "preflight", "post_migrate"}
ArtifactMethods == {"stage", "activate", "current"}
Mutating == {"up", "down_to", "post_migrate", "stage", "activate"}

(* The shapes decode_response tells apart.                                 *)
Responses == {"result", "result_no_id", "error", "other_id", "neither", "undecodable", "malformed"}

IpcInit ==
    /\ launcher \in {"local", "ssh", "unaddressed"}
    /\ client = "idle" /\ child = None /\ adapter = None /\ helper = None /\ outputs = {}
    /\ request = None /\ response = None /\ applied = FALSE
    /\ result = None /\ late = FALSE

-----------------------------------------------------------------------------
(* The client.                                                             *)
Returns(r) == client' = "idle" /\ result' = r

(* The ssh command line needs the host's address, which the context holds. *)
Addressed == launcher # "unaddressed"

(* An unaddressed ssh launcher fails before it spawns; ETXTBSY is retried, *)
(* any other failure to spawn returned.                                    *)
Spawn(m) ==
    /\ client = "idle" /\ adapter \in {None, "exited"} /\ child \in {None, "exited"}
    /\ helper # "up" /\ helper' = None
    /\ request' = m /\ response' = None /\ applied' = FALSE /\ late' = FALSE
    /\ \/ /\ Addressed
          /\ client' = "sending" /\ result' = None
          /\ child' = "up" /\ adapter' = "up" /\ outputs' = {"out", "err"}
       \/ /\ Returns(IF Addressed THEN "spawn" ELSE "invalid_config")
          /\ child' = None /\ adapter' = None /\ outputs' = {}
    /\ UNCHANGED launcher

(* A migration adapter is always a program of this host; an artifact       *)
(* adapter may run on the host it stages on.                               *)
MigrationCall == launcher = "local" /\ \E m \in MigrationMethods : Spawn(m)
ArtifactCall == \E m \in ArtifactMethods : Spawn(m)

(* framing::write_message, then stdin is dropped.  A child that is gone    *)
(* breaks the pipe; the call returns and leaves the child to itself.       *)
Send ==
    /\ client = "sending"
    /\ IF child = "up"
       THEN client' = "exchanging" /\ UNCHANGED <<adapter, result>>
       ELSE Returns("protocol") /\ adapter' = IF adapter = "up" THEN "cut" ELSE adapter
    /\ UNCHANGED <<launcher, child, helper, outputs, request, response, applied, late>>

(* The response is read up to its length, or to the end of stdout; stderr  *)
(* to its end.                                                             *)
Exchanged == (response # None \/ "out" \notin outputs) /\ "err" \notin outputs

Exchange ==
    /\ client = "exchanging" /\ Exchanged
    /\ client' = "waiting"
    /\ UNCHANGED <<launcher, child, adapter, helper, outputs, request, response, applied,
                   result, late>>

TimeoutUnkilled ==
    /\ client = "exchanging" /\ ~Exchanged
    /\ Returns("timeout")
    /\ UNCHANGED <<launcher, child, adapter, helper, outputs, request, response, applied, late>>

(* The timeout kills the spawned process and no other: a helper works on,  *)
(* and of an adapter behind ssh only the ssh dies.                         *)
Timeout ==
    /\ client = "exchanging" /\ ~Exchanged
    /\ Returns("timeout")
    /\ child' = "exited" /\ outputs' = {}
    /\ adapter' = IF launcher = "local" THEN "exited" ELSE adapter
    /\ UNCHANGED <<launcher, helper, request, response, applied, late>>

DecodedLeniently(r) == IF r \in {"error", "malformed"} THEN r ELSE "ok"

(* decode_response.                                                        *)
Decoded(r) ==
    CASE r = None -> "no_response"
      [] r \in {"result", "result_no_id"} -> "ok"
      [] r = "error" -> "remote"
      [] OTHER -> "protocol"

(* child.wait() is awaited without a bound; the exit code is not looked at *)
(* when there is a response.                                               *)
Wait ==
    /\ client = "waiting" /\ child = "exited"
    /\ Returns(Decoded(response))
    /\ UNCHANGED <<launcher, child, adapter, helper, outputs, request, response, applied, late>>

-----------------------------------------------------------------------------
(* The adapter program: read_request, dispatch, one response, exit.        *)
Reads ==
    /\ adapter = "up" /\ client # "sending"
    /\ adapter' = "read"
    /\ UNCHANGED <<launcher, client, child, helper, outputs, request, response, applied,
                   result, late>>

(* What the method asks is done, or fails and is not.                      *)
Act ==
    /\ applied' \in BOOLEAN
    /\ late' = (applied' /\ request \in Mutating /\ client = "idle")

(* dispatch does the work itself,                                          *)
Works ==
    /\ adapter = "read" /\ helper = None
    /\ adapter' = "worked" /\ Act
    /\ UNCHANGED <<launcher, client, child, helper, outputs, request, response, result>>

(* or starts a helper and waits for it; the helper takes no notice of what *)
(* becomes of the adapter.                                                 *)
Delegates ==
    /\ adapter = "read" /\ helper = None
    /\ helper' = "up"
    /\ UNCHANGED <<launcher, client, child, adapter, outputs, request, response, applied,
                   result, late>>

HelperWorks ==
    /\ helper = "up"
    /\ helper' = "over" /\ Act
    /\ adapter' = IF adapter = "read" THEN "worked" ELSE adapter
    /\ UNCHANGED <<launcher, client, child, outputs, request, response, result>>

(* An adapter answers with a result only for what it did; everything else  *)
(* it may answer at any time.  What it writes reaches the client while the *)
(* child's stdout is open.                                                 *)
Answers(r) ==
    /\ adapter \in {"up", "read", "worked"}
    /\ r \in {"result", "result_no_id"} => adapter = "worked" /\ applied
    /\ adapter' = "answered"
    /\ response' = IF "out" \in outputs THEN r ELSE response
    /\ UNCHANGED <<launcher, client, child, helper, outputs, request, applied, result, late>>

(* It, or whatever inherited its outputs, closes one.                      *)
Closes(o) ==
    /\ child = "up" /\ o \in outputs
    /\ outputs' = outputs \ {o}
    /\ UNCHANGED <<launcher, client, child, adapter, helper, request, response, applied,
                   result, late>>

(* The adapter ends, by itself or by a crash; a process it left behind may *)
(* work on, or hold the outputs open.                                      *)
AdapterExits ==
    /\ adapter \notin {None, "exited"}
    /\ adapter' = "exited" /\ child' = "exited"
    /\ \E held \in SUBSET outputs : outputs' = held
    /\ UNCHANGED <<launcher, client, helper, request, response, applied, result, late>>

(* A process left behind lets go of the outputs.                           *)
Lingerer ==
    /\ child = "exited" /\ outputs # {}
    /\ outputs' = {}
    /\ UNCHANGED <<launcher, client, child, adapter, helper, request, response, applied,
                   result, late>>

(* The connection drops: ssh exits, the adapter does not notice.           *)
SshDies ==
    /\ launcher = "ssh" /\ child = "up"
    /\ child' = "exited" /\ outputs' = {}
    /\ UNCHANGED <<launcher, client, adapter, helper, request, response, applied, result, late>>

IpcClient == Send \/ Exchange \/ Timeout \/ Wait
IpcAdapter ==
    \/ Reads \/ Works \/ Delegates \/ HelperWorks
    \/ (\E r \in Responses : Answers(r)) \/ AdapterExits

IpcNext ==
    \/ MigrationCall \/ ArtifactCall
    \/ IpcClient \/ IpcAdapter
    \/ \E o \in {"out", "err"} : Closes(o)
    \/ Lingerer \/ SshDies

IpcSpec == IpcInit /\ [][IpcNext]_ipcVars

-----------------------------------------------------------------------------
(* A call that returns Ok did what the method asks: whatever else the      *)
(* adapter prints, in whatever order it answers, closes and exits.         *)
OkMeansApplied == result = "ok" => applied

(* A call that returned is over, when the adapter is local and does its    *)
(* work in its own process: nothing changes behind the back of the         *)
(* compensation that follows a failed call.  Only such an adapter is       *)
(* stopped: one behind ssh, and a tool that an adapter runs, work on after *)
(* the timeout killed the process the client spawned.                      *)
FailedCallIsOver == late => launcher # "local" \/ helper # None

(* Every call returns, however the adapter hangs ("a hung subprocess can   *)
(* never wedge a deploy", client.rs:25).                                   *)
CallReturns == client # "idle" ~> client = "idle"
=============================================================================
