------------------------------- MODULE Stacks ------------------------------
(***************************************************************************)
(* `fraisier stack`: several deployables deployed in dependency order, the *)
(* subgraphs among them gated on the SDL the router's candidate release    *)
(* was composed from.  Members are the numbers 1..NMembers, in the order   *)
(* of their names.  An SDL is a number; a router release is what it        *)
(* expects of every member.  Each member's own saga is reduced to what the *)
(* stack sees: it refuses before touching anything, activates host by      *)
(* host, is checked, and commits or rolls back.                            *)
(***************************************************************************)
EXTENDS Integers, Sequences, SequencesExt, FiniteSets, FiniteSetsExt

CONSTANTS
    NMembers,   \* the members of a stack file
    Files,      \* the stack files considered
    SDLs,       \* the schemas a subgraph may serve
    MaxMoves    \* bound on what other deploys and publications change

VARIABLES
    stackFile,       \* the stack file and the member configs it names
    live,       \* live[m][h]: the SDL host h of member m serves
    serving,    \* the router's active release
    published,  \* the release the router's requested version resolves to now
    stack,      \* the running command
    touched,    \* history: members this command activated something on
    moves       \* history: changes by others since the command began

stackVars == <<stackFile, live, serving, published, stack, touched, moves>>

Members == 1 .. NMembers
(* What a release expects, and what a command deploys, of the subgraphs.   *)
Releases == {r \in [Members -> SDLs] : \A m \in Members \ stackFile.sdl : r[m] = 0}
HostsOf(m) == 1 .. stackFile.hosts[m]

NoCommand == [op |-> "none", at |-> "idle", order |-> <<>>, i |-> 0, h |-> 0,
              target |-> [m \in Members |-> 0], candidate |-> [m \in Members |-> 0],
              gated |-> {}, prior |-> [m \in Members |-> 0],
              report |-> [m \in Members |-> "skipped"],
              verdict |-> [m \in Members |-> "none"], exit |-> 0]

StackInit ==
    /\ stackFile \in Files
    /\ live = [m \in Members |-> [h \in HostsOf(m) |-> 0]]
    /\ serving = [m \in Members |-> 0]
    /\ published \in Releases
    /\ stack = NoCommand
    /\ touched = {}
    /\ moves = 0

(* Kahn's algorithm: of the members whose dependencies are all placed, the *)
(* first by name comes next; members of a cycle are never placed.          *)
PlaceByName(order, n) ==
    LET open == {m \in Members : m \notin Range(order)} IN
    IF open = {} THEN order ELSE Append(order, Min(open))

Place(order, n) ==
    LET open == {m \in Members : m \notin Range(order) /\ stackFile.deps[m] \subseteq Range(order)} IN
    IF open = {} THEN order ELSE Append(order, Min(open))

DeployOrder == FoldLeft(Place, <<>>, [n \in Members |-> n])

(* The problems that refuse a stack file: an unreadable, unnamed, doubly   *)
(* named or foreign-environment member, a dependency on no member, and     *)
(* what the SDL check lacks.                                               *)
ReferenceProblems == stackFile.flawed \/ \E m \in Members : ~ (stackFile.deps[m] \subseteq Members)

SdlProblems ==
    \/ stackFile.router # 0 /\ stackFile.router \notin Members
    \/ \E m \in stackFile.sdl : m \notin stackFile.url \/ m \in stackFile.blueGreen \/ m = stackFile.router
    \/ stackFile.sdl # {} /\ (stackFile.router = 0 \/ ~ stackFile.activePath)

SubgraphsAfterTheRouter(order) ==
    LET at(m) == CHOOSE i \in DOMAIN order : order[i] = m IN
    stackFile.router \in Members /\ \E m \in stackFile.sdl : at(m) >= at(stackFile.router)

Loads ==
    /\ ~ ReferenceProblems /\ ~ SdlProblems
    /\ Len(DeployOrder) = NMembers
    /\ ~ SubgraphsAfterTheRouter(DeployOrder)

RouterOnHosts == stackFile.sdl # {} /\ stackFile.routerOnHosts

Now(s) == stack' = s
StackAt(at) == stack.at = at
Current == stack.order[stack.i]

(* A command ends with its exit code; what its report says stays to read.  *)
Exits(s, ok) ==
    Now([s EXCEPT !.at = "done", !.exit = IF ok THEN 0 ELSE 1,
                  !.target = NoCommand.target, !.candidate = NoCommand.candidate, !.i = 0])

(* Nothing is staged or deployed when the stack does not load, a version   *)
(* names no member, a member's config is invalid now, or the router of     *)
(* checked subgraphs deploys through [hosts].                              *)
Ready(op, target) ==
    LET s == [NoCommand EXCEPT !.op = op, !.target = target] IN
    /\ stack.op = "none"
    /\ \/ Loads /\ ~ RouterOnHosts /\ Now([s EXCEPT !.at = "candidate", !.i = 1,
                                                            !.order = DeployOrder])
       \/ Exits(s, FALSE)
    /\ touched' = {} /\ moves' = 0
    /\ UNCHANGED <<stackFile, live, serving, published>>

(* The router's release is staged before any member deploys.  Staging may  *)
(* fail, which stops everything, or yield no directory, which leaves the   *)
(* members to deploy ungated under a command that will exit 1.             *)
Candidate ==
    /\ StackAt("candidate")
    /\ \/ /\ stackFile.sdl = {} \/ stack.op = "dry"
          /\ Now([stack EXCEPT !.at = "member",
                    !.verdict = [m \in Members |-> IF m \in stackFile.sdl THEN "not_checked" ELSE "none"]])
       \/ /\ stackFile.sdl # {} /\ stack.op # "dry"
          /\ \/ Exits(stack, FALSE)
             \/ Now([stack EXCEPT !.at = "member", !.candidate = published, !.gated = stackFile.sdl])
             \/ Now([stack EXCEPT !.at = "member",
                       !.verdict = [m \in Members |-> IF m \in stackFile.sdl THEN "unreadable" ELSE "none"]])
    /\ UNCHANGED <<stackFile, live, serving, published, touched, moves>>

SdlOk(s) == \A m \in Members :
    s.verdict[m] \in {"none", "matches", "not_checked"}
        \/ (s.verdict[m] = "unreadable" /\ s.report[m] # "deployed")

(* The outcome of one member, and the end of the loop after a failure or   *)
(* after the last member.                                                  *)
MemberEnds(s, outcome) ==
    LET t == [s EXCEPT !.report[Current] = outcome, !.h = 0, !.prior = NoCommand.prior] IN
    IF outcome = "failed" \/ stack.i = NMembers
    THEN Exits(t, SdlOk(t) /\ \A m \in Members : t.report[m] = "deployed")
    ELSE Now([t EXCEPT !.at = "member", !.i = @ + 1])

(* The member's own deploy reads its config again.  It may refuse: the     *)
(* config changed, the lock is held, the fetch or the migration fails.  A  *)
(* dry run only plans.                                                     *)
DeployBegins ==
    /\ StackAt("member")
    /\ \/ MemberEnds(stack, "failed")
       \/ stack.op = "dry" /\ MemberEnds(stack, "deployed")
       \/ /\ stack.op = "deploy"
          /\ Now([stack EXCEPT !.at = "activate", !.h = 1,
                               !.prior = IF Current = stackFile.router THEN serving
                                         ELSE live[Current]])
    /\ UNCHANGED <<stackFile, live, serving, published, touched, moves>>

(* A subgraph's host takes the new release.  The router's deploy stages    *)
(* its version again and activates what it resolves to now.                *)
Activate ==
    /\ StackAt("activate")
    /\ IF Current = stackFile.router
       THEN serving' = published /\ UNCHANGED live
       ELSE /\ live' = [live EXCEPT ![Current][stack.h] = stack.target[Current]]
            /\ UNCHANGED serving
    /\ touched' = touched \cup {Current}
    /\ Now([stack EXCEPT !.at = "health"])
    /\ UNCHANGED <<stackFile, published, moves>>

(* Who answers the SDL query: the only host, or, while a host of several   *)
(* is out of the pool for its update, any of the others.                   *)
Answers(m, h) == {live[m][x] : x \in IF stackFile.hosts[m] = 1 THEN {1} ELSE HostsOf(m) \ {h}}

(* Both SDLs are read, or the check could not run.                         *)
Verdicts(m, h) ==
    {"unchecked"} \cup {IF sdl = stack.candidate[m] THEN "matches" ELSE "differs" : sdl \in Answers(m, h)}

(* The first failing verdict is kept, or else the last match.              *)
Record(m, v) ==
    [stack EXCEPT !.verdict[m] = IF @ \in {"none", "matches"} THEN v ELSE @]

(* A healthy host is asked for its SDL where the member is gated; anything *)
(* but a match is an unhealthy host.                                       *)
AfterHealth(s, healthy) ==
    IF ~ healthy THEN Now([s EXCEPT !.at = "rollback"])
    ELSE IF s.h < stackFile.hosts[Current] THEN Now([s EXCEPT !.at = "activate", !.h = @ + 1])
    ELSE MemberEnds(s, "deployed")

GuardedUnlessDiffers ==
    /\ StackAt("health")
    /\ \/ AfterHealth(stack, FALSE)
       \/ Current \notin stack.gated /\ AfterHealth(stack, TRUE)
       \/ Current \in stack.gated
          /\ \E v \in Verdicts(Current, stack.h) : AfterHealth(stack, v # "differs")
    /\ UNCHANGED <<stackFile, live, serving, published, touched, moves>>

Guarded ==
    /\ StackAt("health")
    /\ \/ AfterHealth(stack, FALSE)
       \/ Current \notin stack.gated /\ AfterHealth(stack, TRUE)
       \/ Current \in stack.gated
          /\ \E v \in Verdicts(Current, stack.h) :
                AfterHealth(Record(Current, v), v = "matches")
    /\ UNCHANGED <<stackFile, live, serving, published, touched, moves>>

(* The member's saga restores what was live, or fails to.                  *)
RollsBack(restored) ==
    /\ StackAt("rollback")
    /\ IF ~ restored THEN UNCHANGED <<live, serving>>
       ELSE IF Current = stackFile.router THEN serving' = stack.prior /\ UNCHANGED live
       ELSE live' = [live EXCEPT ![Current] = stack.prior] /\ UNCHANGED serving
    /\ MemberEnds(stack, "failed")
    /\ UNCHANGED <<stackFile, published, touched, moves>>

(* `stack status`: every member's health and last deploy, the databases    *)
(* they declare, and then each checked member's SDL against the router's   *)
(* active release, one query after the other.                              *)
StatusBegins ==
    /\ stack.op = "none"
    /\ LET s == [NoCommand EXCEPT !.op = "status"] IN
       IF ~ Loads THEN Exits(s, FALSE)
       ELSE \E exit \in {0, 1} :
                Now([s EXCEPT !.at = "compare", !.i = 1, !.order = DeployOrder, !.exit = exit])
    /\ touched' = {} /\ moves' = 0
    /\ UNCHANGED <<stackFile, live, serving, published>>

StatusChecks ==
    LET m == Current
        answers == {live[m][h] : h \in HostsOf(m)}
        next(found) == LET s == [stack EXCEPT !.exit = IF found = "matches" THEN @ ELSE 1] IN
                       Now([s EXCEPT !.i = @ + 1, !.at = IF stack.i = NMembers THEN "done" ELSE @]) IN
    /\ StackAt("compare")
    /\ IF m \notin stackFile.sdl THEN next("matches")
       ELSE IF stackFile.routerOnHosts THEN next("unchecked")
       ELSE \/ next("unchecked")
            \/ \E sdl \in answers : next(IF sdl = serving[m] THEN "matches" ELSE "differs")
    /\ UNCHANGED <<stackFile, live, serving, published, touched, moves>>

(* The command's process ends, having reported or killed.                  *)
StackEnds ==
    /\ stack.op # "none"
    /\ Now(NoCommand)
    /\ UNCHANGED <<stackFile, live, serving, published, touched, moves>>

(* Others: a deploy of one member on its own, which needs the lock the     *)
(* stack's deploy of that member holds, and a publication.                 *)
OtherDeploys(m, sdl) ==
    /\ moves < MaxMoves
    /\ ~ (stack.at \in {"activate", "health", "rollback"} /\ Current = m)
    /\ IF m = stackFile.router THEN serving' = published /\ UNCHANGED live
       ELSE live' = [live EXCEPT ![m] = [h \in HostsOf(m) |-> sdl]] /\ UNCHANGED serving
    /\ moves' = moves + 1
    /\ UNCHANGED <<stackFile, published, stack, touched>>

Publishes(release) ==
    /\ moves < MaxMoves
    /\ published' = release
    /\ moves' = moves + 1
    /\ UNCHANGED <<stackFile, live, serving, stack, touched>>

StackNext ==
    \/ \E op \in {"deploy", "dry"}, target \in Releases :
          (op = "dry" => target = NoCommand.target) /\ Ready(op, target)
    \/ Candidate \/ DeployBegins \/ Activate \/ Guarded
    \/ \E restored \in BOOLEAN : RollsBack(restored)
    \/ StatusBegins \/ StatusChecks \/ StackEnds
    \/ \E m \in Members, sdl \in SDLs : OtherDeploys(m, sdl)
    \/ \E release \in Releases : Publishes(release)

----------------------------------------------------------------------------

Matches(m) == \A h \in HostsOf(m) : live[m][h] = serving[m]

(* Exit code 0 of `stack deploy` or `stack status` means that every        *)
(* checked subgraph serves, on all its hosts, the SDL the router's active  *)
(* release was composed from, if nothing else moved meanwhile: the staged  *)
(* candidate, the gates in the members' health steps, the members of       *)
(* several hosts and the router's second staging taken together.           *)
(* (A status asks one host of several, so it vouches for single hosts.)    *)
SeamVouched ==
    (StackAt("done") /\ stack.exit = 0 /\ stack.op # "dry" /\ moves = 0) =>
        \A m \in stackFile.sdl : (stack.op = "deploy" \/ stackFile.hosts[m] = 1) => Matches(m)

(* `stack deploy` touches a member only after every member it depends on   *)
(* was deployed by the same command, touches nothing after a failure, and  *)
(* reports as skipped only members it left alone; a dry run touches none.  *)
DependenciesFirst ==
    stack.op \in {"deploy", "dry"} =>
        /\ \A m \in touched : \A d \in stackFile.deps[m] : stack.report[d] = "deployed"
        /\ \A m \in Members : stack.report[m] = "failed" =>
              \A n \in touched \ {m} : stack.report[n] = "deployed"
        /\ StackAt("done") => \A m \in touched : stack.report[m] # "skipped"
        /\ stack.op = "dry" => touched = {}

(* A stack command that succeeds leaves a router that fits its subgraphs,  *)
(* and one that fails leaves what it says.                                 *)
StackCommandsTrue == SeamVouched /\ DependenciesFirst
=============================================================================
