------------------------------- MODULE Ship --------------------------------
(***************************************************************************)
(* `fraisier ship` and `fraisier check`: run the configured checks in the  *)
(* working copy, bump the version file, commit it, push, deploy.  One      *)
(* clone of a branch is followed, whose remote other clones push to; a     *)
(* commit is the sequence of trees from the root.  Of a tree the model     *)
(* keeps its version and whether it is sound, which the last of the checks *)
(* can tell.                                                               *)
(***************************************************************************)
EXTENDS Integers, Sequences, SequencesExt, FiniteSets

CONSTANTS
    NChecks,      \* checks configured, numbered in config order
    CheckJobs,         \* checks that run side by side
    MaxCommits    \* bound on the length of the branch

ASSUME CheckAssumption == NChecks \in Nat \ {0} /\ CheckJobs \in Nat \ {0}

VARIABLES
    origin,     \* the branch on the remote
    head,       \* the branch in the clone
    work,       \* the working tree
    staged,     \* the version in the index
    ship,       \* the running `ship`, or how the last one ended
    released    \* history: what the last deploy that followed a ship was of

shipVars == <<origin, head, work, staged, ship, released>>

(* A version is <<major, minor, patch>>; a bump zeroes the lower parts.    *)
NextVersion(v, level) ==
    CASE level = "major" -> <<v[1] + 1, 0, 0>>
      [] level = "minor" -> <<v[1], v[2] + 1, 0>>
      [] level = "patch" -> <<v[1], v[2], v[3] + 1>>
      [] level = "none" -> v

FirstTree == [v |-> <<1, 0, 0>>, sound |-> TRUE]
ShipEnded(how) == [at |-> "idle", how |-> how]

ShipInit ==
    /\ origin = <<FirstTree>>
    /\ head = <<FirstTree>>
    /\ work = FirstTree
    /\ staged = FirstTree.v
    /\ ship = ShipEnded("never")
    /\ released = {}

Step(how) == ship' = how
ShipAt(label) == ship.at = label
Advance(label) == Step([ship EXCEPT !.at = label])

(* `git status --porcelain` is empty.                                      *)
GitClean == work = Last(head) /\ staged = Last(head).v

(* What the developer does in the clone, a ship running or not.            *)
Touched == ship' = IF ship.at = "idle" THEN ShipEnded("never") ELSE [ship EXCEPT !.moved = TRUE]

Edit ==
    /\ work' = [work EXCEPT !.sound = ~@]
    /\ Touched
    /\ UNCHANGED <<origin, head, staged, released>>

CommitWork ==
    /\ Len(head) < MaxCommits /\ work # Last(head)
    /\ head' = Append(head, work)
    /\ staged' = work.v
    /\ Touched
    /\ UNCHANGED <<origin, work, released>>

GitPull ==
    /\ GitClean /\ IsStrictPrefix(head, origin)
    /\ head' = origin
    /\ work' = Last(origin)
    /\ staged' = Last(origin).v
    /\ Touched
    /\ UNCHANGED <<origin, released>>

(* Another clone pushes: its work, or a release of its own.                *)
OtherPushes ==
    /\ Len(origin) < MaxCommits
    /\ \E level \in {"minor", "none"} :
          origin' = Append(origin, [Last(origin) EXCEPT !.v = NextVersion(@, level)])
    /\ UNCHANGED <<head, work, staged, ship, released>>

VersionBump(level) ==
    /\ ship.at = "idle" /\ work.v = Last(head).v
    /\ work' = [work EXCEPT !.v = NextVersion(@, level)]
    /\ Touched
    /\ UNCHANGED <<origin, head, staged, released>>

(* Without `--no-check` the checks come first, before anything is written. *)
ShipStarts(level, push, check) ==
    /\ ship.at = "idle" /\ Len(head) < MaxCommits
    /\ Step([at |-> IF check THEN "checks" ELSE "locate", level |-> level, push |-> push,
                check |-> check, passed |-> {}, failed |-> {}, observed |-> <<>>, moved |-> FALSE])
    /\ released' = {}
    /\ UNCHANGED <<origin, head, work, staged>>

(* Checks run in batches of Jobs, a batch once the one before has ended; a *)
(* command that exits non-zero or cannot be spawned has failed.            *)
Batch(c) == (c - 1) \div CheckJobs

RunOne(c) ==
    LET done == ship.passed \cup ship.failed IN
    /\ ShipAt("checks") /\ c \notin done
    /\ \A d \in 1..NChecks : Batch(d) < Batch(c) => d \in done
    /\ \E spawned \in BOOLEAN :
          IF spawned /\ (c < NChecks \/ work.sound)
          THEN Step([ship EXCEPT !.passed = @ \cup {c}])
          ELSE Step([ship EXCEPT !.failed = @ \cup {c}])
    /\ UNCHANGED <<origin, head, work, staged, released>>

ShipCheckGate ==
    /\ ShipAt("checks") /\ ship.passed \cup ship.failed = 1..NChecks
    /\ IF ship.failed = {}
       THEN Step([ship EXCEPT !.at = "locate", !.passed = {}])
       ELSE Step(ShipEnded("refused"))
    /\ UNCHANGED <<origin, head, work, staged, released>>

Locate ==
    /\ ShipAt("locate")
    /\ Step([ship EXCEPT !.at = "preflight", !.observed = work.v])
    /\ UNCHANGED <<origin, head, work, staged, released>>

(* A dirty tree is refused; nothing is committed for `--no-bump`.          *)
AfterClean ==
    IF ship.level # "none" THEN "bump" ELSE IF ship.push THEN "push" ELSE "deploy"

RefuseNothing ==
    /\ ShipAt("preflight")
    /\ Advance(AfterClean)
    /\ UNCHANGED <<origin, head, work, staged, released>>

RefuseDirty ==
    /\ ShipAt("preflight")
    /\ IF GitClean THEN Advance(AfterClean) ELSE Step(ShipEnded("refused"))
    /\ UNCHANGED <<origin, head, work, staged, released>>

BumpFile ==
    /\ ShipAt("bump")
    /\ work' = [work EXCEPT !.v = NextVersion(@, ship.level)]
    /\ Advance("add")
    /\ UNCHANGED <<origin, head, staged, released>>

AddFile ==
    /\ ShipAt("add")
    /\ staged' = work.v
    /\ Advance(IF ship.push THEN "race" ELSE "commit")
    /\ UNCHANGED <<origin, head, work, released>>

(* A fetch that fails lets the ship go on; otherwise any version on the    *)
(* remote other than the observed one is a race, and the version file is   *)
(* put back as HEAD has it.                                                *)
RaceCheckedOutOfIndex ==
    /\ ShipAt("race")
    /\ \E fetched \in BOOLEAN :
          IF fetched /\ Last(origin).v # ship.observed
          THEN /\ work' = [work EXCEPT !.v = staged]
               /\ Step(ShipEnded("race"))
               /\ UNCHANGED staged
          ELSE Advance("commit") /\ UNCHANGED <<work, staged>>
    /\ UNCHANGED <<origin, head, released>>

DetectVersionRace ==
    /\ ShipAt("race")
    /\ \E fetched \in BOOLEAN :
          IF fetched /\ Last(origin).v # ship.observed
          THEN /\ work' = [work EXCEPT !.v = Last(head).v]
               /\ staged' = Last(head).v
               /\ Step(ShipEnded("race"))
          ELSE Advance("commit") /\ UNCHANGED <<work, staged>>
    /\ UNCHANGED <<origin, head, released>>

(* The commit holds the index: HEAD's content and the new version.         *)
Commit ==
    /\ ShipAt("commit") /\ Len(head) < MaxCommits
    /\ head' = Append(head, [Last(head) EXCEPT !.v = staged])
    /\ Advance(IF ship.push THEN "push" ELSE "deploy")
    /\ UNCHANGED <<origin, work, staged, released>>

PushHead ==
    /\ ShipAt("push")
    /\ \/ /\ IsPrefix(origin, head)
          /\ origin' = head
          /\ Advance("deploy")
       \/ /\ Step(ShipEnded("push_failed"))
          /\ UNCHANGED origin
    /\ UNCHANGED <<head, work, staged, released>>

DeployShipped ==
    /\ ShipAt("deploy")
    /\ released' =
          {[asked |-> NextVersion(ship.observed, ship.level), of |-> Last(head),
            checked |-> ship.check, moved |-> ship.moved,
            published |-> ship.push => IsPrefix(head, origin)]}
    /\ Step(ShipEnded("shipped"))
    /\ UNCHANGED <<origin, head, work, staged>>

(* The process is killed, or git cannot be run.                            *)
ShipDies ==
    /\ ship.at # "idle"
    /\ Step(ShipEnded("died"))
    /\ UNCHANGED <<origin, head, work, staged, released>>

ShipNext ==
    \/ Edit \/ CommitWork \/ GitPull \/ VersionBump("patch") \/ OtherPushes
    \/ \E level \in {"patch", "none"}, push, check \in BOOLEAN :
          ShipStarts(level, push, check)
    \/ \E c \in 1..NChecks : RunOne(c)
    \/ ShipCheckGate \/ Locate \/ RefuseDirty \/ BumpFile \/ AddFile
    \/ DetectVersionRace \/ Commit \/ PushHead \/ DeployShipped \/ ShipDies

(* What a ship deploys is what it says: the version it names is the one    *)
(* its commit carries, that commit is on the remote when a push was asked  *)
(* for, and - when the checks ran - the committed tree is a sound one and  *)
(* not only the working tree they saw.  A clone the developer changes      *)
(* while the ship runs is outside the promise.                             *)
ShipsWhatWasChecked ==
    \A r \in released :
        ~r.moved => /\ r.asked = r.of.v
                    /\ r.published
                    /\ r.checked => r.of.sound

(* "Undo the on-disk bump so a retry starts clean": a ship refused for a   *)
(* version race leaves no bump in the working tree or the index.           *)
RaceLeavesClean ==
    ship = ShipEnded("race") => work.v = Last(head).v /\ staged = Last(head).v

(* A ship that went through is what it says, one refused for a race leaves *)
(* nothing behind.                                                         *)
ShipCommandTrue == ShipsWhatWasChecked /\ RaceLeavesClean
=============================================================================
