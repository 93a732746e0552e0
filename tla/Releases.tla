------------------------------ MODULE Releases ------------------------------
(***************************************************************************)
(* The artifact adapters: pull (curl, sha256sum, ln and mv run on the host *)
(* over the transport), release (fetched, verified and written by one      *)
(* process, in this one or behind fraisier-adapter-release), git and       *)
(* local.  An operation is a sequence of file-system steps; the controller *)
(* may die between two of them, and a remote step whose connection drops   *)
(* goes on without it.                                                     *)
(***************************************************************************)
EXTENDS Naturals, FiniteSets

CONSTANTS Versions,    \* the release versions, which name the staged paths
          NoVersion

(* No link is not a release.                                               *)
ASSUME NoVersionAssumption == NoVersion \notin Versions

VARIABLES source,      \* [artifact].source, where it runs, and whether a checksum is configured
          staged,      \* staging_dir/<version>
          clone,       \* staging_dir/.fraisier-git-tmp
          tmpLink,     \* <active_path>.fraisier-tmp
          link,        \* the active_path symlink
          work,        \* the operation in progress, and one that was cut loose
          known,       \* what this deploy may activate: the prior release, and what it staged
          answer,      \* what the last operation returned
          rewritten,   \* history: releases written over while live, or by a loose step
          dropped      \* history: the answer is off a lost connection or beside a loose step

relVars == <<source, staged, clone, tmpLink, link, work, known, answer, rewritten, dropped>>

Slots   == {"job", "loose"}
NoJob   == [op |-> "none", v |-> NoVersion, at |-> "none", got |-> "none"]
NoAnswer == [op |-> "none", v |-> NoVersion, res |-> "none"]

(* build_artifact: pull and release-ipc alone run on another host; git and *)
(* local have no checksum to check.                                        *)
Sources ==
    {s \in [kind : {"pull", "release", "git", "local"}, ipc : BOOLEAN,
            remote : BOOLEAN, sum : BOOLEAN] :
        /\ s.ipc => s.kind = "release"
        /\ s.remote => s.kind = "pull" \/ s.ipc
        /\ s.sum => s.kind \in {"pull", "release"}}

RelInit ==
    /\ source \in Sources
    /\ staged = [v \in Versions |-> "none"]
    /\ clone = "none" /\ tmpLink = NoVersion /\ link = NoVersion
    /\ work = [s \in Slots |-> NoJob]
    /\ known = {} /\ answer = NoAnswer
    /\ rewritten = {} /\ dropped = FALSE

-----------------------------------------------------------------------------
(* An operation starts.  A deploy stages its version first; it activates   *)
(* that one, and the prior release to compensate.                          *)
FirstStep(op) ==
    CASE op = "activate" -> "ln"
      [] op = "current"  -> "readlink"
      [] OTHER -> CASE source.kind = "pull"    -> "curl"
                    [] source.kind = "release" -> "fetch"
                    [] source.kind = "git"     -> "clone"
                    [] source.kind = "local"   -> "remove"

BeginOp(op, v) ==
    /\ work["job"] = NoJob
    /\ op = "activate" => v \in known
    /\ op = "current" => v = NoVersion
    /\ op = "stage" => v \in Versions
    /\ work' = [work EXCEPT !["job"] = [NoJob EXCEPT !.op = op, !.v = v, !.at = FirstStep(op)]]
    /\ known' = IF op = "stage" THEN {link} \ {NoVersion} ELSE known
    /\ answer' = NoAnswer /\ dropped' = (work["loose"] # NoJob)
    /\ UNCHANGED <<source, staged, clone, tmpLink, link, rewritten>>

OpAt(s, step) == work[s].at = step
Goto(s, step) == work' = [work EXCEPT ![s].at = step]

(* The operation of slot s is over; only the controller's own answers.     *)
Return(s, res) ==
    LET j == work[s] IN
    /\ work' = [work EXCEPT ![s] = NoJob]
    /\ answer' = IF s = "job" THEN [op |-> j.op, v |-> j.v, res |-> res] ELSE answer
    /\ known' = IF s = "loose" \/ j.op # "stage" THEN known
                ELSE IF res = "ok" THEN known \cup {j.v} ELSE {}
    /\ UNCHANGED dropped

(* A command of pull that runs loose is the only one left to run: the      *)
(* controller issues no other.                                             *)
NextCommand(s, step) ==
    IF s = "loose" /\ source.kind = "pull"
    THEN Return(s, "err") ELSE Goto(s, step) /\ UNCHANGED <<known, answer, dropped>>

WriteStaged(s, v, what) ==
    /\ staged' = [staged EXCEPT ![v] = what]
    /\ rewritten' = IF v = link \/ s = "loose" \/ work["loose"].v = v
                    THEN rewritten \cup {v} ELSE rewritten \ {v}

-----------------------------------------------------------------------------
(* stage                                                                   *)

(* pull: curl -o truncates the staged path, then fills it; a download may  *)
(* be corrupt.                                                             *)
CurlOpens(s) ==
    /\ OpAt(s, "curl")
    /\ WriteStaged(s, work[s].v, "part")
    /\ Goto(s, "curling")
    /\ UNCHANGED <<source, clone, tmpLink, link, known, answer, dropped>>

CurlFills(s) ==
    /\ OpAt(s, "curling")
    /\ \E what \in {"good", "bad"} : WriteStaged(s, work[s].v, what)
    /\ NextCommand(s, "sha256sum")
    /\ UNCHANGED <<source, clone, tmpLink, link>>

ChecksumUncompared(s) ==
    /\ OpAt(s, "sha256sum")
    /\ Return(s, "ok")
    /\ UNCHANGED <<source, staged, clone, tmpLink, link, rewritten>>

(* The checksum of the file as it is now on the host.                      *)
ChecksumPulled(s) ==
    /\ OpAt(s, "sha256sum")
    /\ Return(s, IF source.sum /\ staged[work[s].v] # "good" THEN "err" ELSE "ok")
    /\ UNCHANGED <<source, staged, clone, tmpLink, link, rewritten>>

(* release: downloaded into memory and verified before anything is written *)
Fetch(s) ==
    /\ OpAt(s, "fetch")
    /\ \E got \in {"good", "bad"} :
          IF source.sum /\ got # "good"
          THEN Return(s, "err")
          ELSE work' = [work EXCEPT ![s].at = "write", ![s].got = got]
               /\ UNCHANGED <<known, answer, dropped>>
    /\ UNCHANGED <<source, staged, clone, tmpLink, link, rewritten>>

(* std::fs::write: truncate, then fill.                                    *)
WriteOpens(s) ==
    /\ OpAt(s, "write")
    /\ WriteStaged(s, work[s].v, "part")
    /\ Goto(s, "writing")
    /\ UNCHANGED <<source, clone, tmpLink, link, known, answer, dropped>>

WriteFills(s) ==
    /\ OpAt(s, "writing")
    /\ WriteStaged(s, work[s].v, work[s].got)
    /\ Return(s, "ok")
    /\ UNCHANGED <<source, clone, tmpLink, link>>

(* git: clone into the scratch directory (a previous one is removed),      *)
(* check out, then remove the target and rename over it.                   *)
CloneStarts(s) ==
    /\ OpAt(s, "clone") /\ clone' = "part" /\ Goto(s, "cloning")
    /\ UNCHANGED <<source, staged, tmpLink, link, known, answer, rewritten, dropped>>

CloneEnds(s) ==
    /\ OpAt(s, "cloning") /\ clone' = "good" /\ Goto(s, "replace")
    /\ UNCHANGED <<source, staged, tmpLink, link, known, answer, rewritten, dropped>>

ReplaceTarget(s) ==
    /\ OpAt(s, "replace")
    /\ WriteStaged(s, work[s].v, "none")
    /\ Goto(s, "rename")
    /\ UNCHANGED <<source, clone, tmpLink, link, known, answer, dropped>>

RenameClone(s) ==
    /\ OpAt(s, "rename")
    /\ WriteStaged(s, work[s].v, clone)
    /\ clone' = "none"
    /\ Return(s, "ok")
    /\ UNCHANGED <<source, tmpLink, link>>

(* local: remove the previous copy, then copy the tree.                    *)
RemoveCopy(s) ==
    /\ OpAt(s, "remove")
    /\ WriteStaged(s, work[s].v, "none")
    /\ Goto(s, "copy")
    /\ UNCHANGED <<source, clone, tmpLink, link, known, answer, dropped>>

CopyStarts(s) ==
    /\ OpAt(s, "copy")
    /\ WriteStaged(s, work[s].v, "part")
    /\ Goto(s, "copying")
    /\ UNCHANGED <<source, clone, tmpLink, link, known, answer, dropped>>

CopyEnds(s) ==
    /\ OpAt(s, "copying")
    /\ WriteStaged(s, work[s].v, "good")
    /\ Return(s, "ok")
    /\ UNCHANGED <<source, clone, tmpLink, link>>

-----------------------------------------------------------------------------
(* activate: a temporary link, renamed over the active one.  pull's has    *)
(* one name; the others' carries the process id and is nobody else's.      *)
LinkTmp(s) ==
    /\ OpAt(s, "ln")
    /\ tmpLink' = IF source.kind = "pull" THEN work[s].v ELSE tmpLink
    /\ NextCommand(s, "mv")
    /\ rewritten' = IF s = "loose" THEN rewritten \cup {work[s].v} ELSE rewritten
    /\ UNCHANGED <<source, staged, clone, link>>

(* The rename moves what the temporary link names now.                     *)
SwapLink(s) ==
    LET named == IF source.kind = "pull" THEN tmpLink ELSE work[s].v IN
    /\ OpAt(s, "mv")
    /\ IF named = NoVersion
       THEN Return(s, "err") /\ UNCHANGED link
       ELSE Return(s, "ok") /\ link' = named
    /\ tmpLink' = IF source.kind = "pull" THEN NoVersion ELSE tmpLink
    /\ rewritten' = IF s = "loose" THEN rewritten \cup {named} ELSE rewritten
    /\ UNCHANGED <<source, staged, clone>>

(* current: the link's target; an absent link is nothing active.           *)
ReadLink(s) ==
    /\ OpAt(s, "readlink")
    /\ Return(s, IF link = NoVersion THEN "nothing" ELSE "active")
    /\ UNCHANGED <<source, staged, clone, tmpLink, link, rewritten>>

-----------------------------------------------------------------------------
(* Faults.                                                                 *)

(* A step fails (a download error, a full disk, a refused rename) and the  *)
(* operation returns its error; what it wrote stays.                       *)
LooseFails ==
    /\ work["loose"] # NoJob
    /\ Return("loose", "err")
    /\ UNCHANGED <<source, staged, clone, tmpLink, link, rewritten>>

JobFailsReadingNothing ==
    /\ work["job"] # NoJob
    /\ Return("job", IF work["job"].op = "current" THEN "nothing" ELSE "err")
    /\ UNCHANGED <<source, staged, clone, tmpLink, link, rewritten>>

(* read_active_link tells a link it cannot read from an absent one.        *)
JobFails ==
    /\ work["job"] # NoJob
    /\ work["job"].op = "current" => source.kind # "pull"
    /\ Return("job", "err")
    /\ UNCHANGED <<source, staged, clone, tmpLink, link, rewritten>>

(* Only the ssh transport, or an adapter launched through ssh, works on    *)
(* another host.                                                           *)
OverSsh == source.remote

(* The ssh connection of a remote step is lost: the step goes on without   *)
(* the controller.  pull reads any failing readlink as "nothing active".   *)
ConnectionLost ==
    LET j == work["job"] IN
    /\ j # NoJob /\ OverSsh /\ work["loose"] = NoJob
    /\ answer' = [op |-> j.op, v |-> j.v,
                  res |-> IF j.op = "current" /\ source.kind = "pull" THEN "nothing" ELSE "err"]
    /\ work' = [work EXCEPT !["job"] = NoJob,
                            !["loose"] = IF j.op = "current" THEN NoJob ELSE j]
    /\ known' = IF j.op = "stage" THEN {} ELSE known
    /\ dropped' = TRUE
    /\ UNCHANGED <<source, staged, clone, tmpLink, link, rewritten>>

(* The controller dies: so does a step on its own host.                    *)
ControllerDies ==
    LET j == work["job"] IN
    /\ j # NoJob
    /\ work' = [work EXCEPT !["job"] = NoJob,
                            !["loose"] = IF OverSsh /\ j.op # "current" /\ @ = NoJob
                                         THEN j ELSE @]
    /\ known' = {} /\ answer' = NoAnswer
    /\ UNCHANGED <<source, staged, clone, tmpLink, link, rewritten, dropped>>

StageStep(s) ==
    \/ CurlOpens(s) \/ CurlFills(s) \/ ChecksumPulled(s)
    \/ Fetch(s) \/ WriteOpens(s) \/ WriteFills(s)
    \/ CloneStarts(s) \/ CloneEnds(s) \/ ReplaceTarget(s) \/ RenameClone(s)
    \/ RemoveCopy(s) \/ CopyStarts(s) \/ CopyEnds(s)

RelNext ==
    \/ \E op \in {"stage", "activate", "current"}, v \in Versions \cup {NoVersion} : BeginOp(op, v)
    \/ \E s \in Slots : StageStep(s) \/ LinkTmp(s) \/ SwapLink(s)
    \/ ReadLink("job")
    \/ JobFails
    \/ LooseFails
    \/ ConnectionLost
    \/ ControllerDies

RelSpec == RelInit /\ [][RelNext]_relVars

-----------------------------------------------------------------------------
(* What a deploy made live is a release some stage returned, whole, and    *)
(* the verified one when a checksum is configured: across crashes between  *)
(* any two steps, retries and stages of other versions.  The exception is  *)
(* `rewritten`: a stage of the version that is live works on it in place   *)
(* (curl -o, fs::write, remove_dir_all), and a step cut loose on another   *)
(* host writes behind the controller's back.                               *)
LiveIsVerified ==
    link \notin rewritten \cup {NoVersion} =>
        /\ staged[link] \in {"good", "bad"}
        /\ source.sum => staged[link] = "good"

(* An activate that returned Ok left its own version live, and a `current` *)
(* that returned None found nothing active; over ssh neither can be said   *)
(* of an answer read off a lost connection or beside a loose step.         *)
AnswersHold ==
    ~dropped =>
        /\ answer.op = "activate" /\ answer.res = "ok" => link = answer.v
        /\ answer.op = "current" /\ answer.res = "nothing" => link = NoVersion
=============================================================================
