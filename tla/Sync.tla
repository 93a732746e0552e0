------------------------------- MODULE Sync --------------------------------
(***************************************************************************)
(* `fraisier sync`: operators share their deploy state through git refs,   *)
(* one ref per fraise/environment.  A commit is the sequence of payloads   *)
(* from its root, so one commit descends from another iff that one is a    *)
(* prefix of it.  Every operator has a state store, a bare repository      *)
(* whose refs are the sync bases, and one command at a time; the store     *)
(* also moves under the operator's own deploys, which take a lock no sync  *)
(* command asks for.                                                       *)
(***************************************************************************)
EXTENDS Integers, Sequences, SequencesExt, FiniteSets

CONSTANTS
    Operators,   \* each with a store and a sync repository
    Keys,        \* the fraise/environment pairs
    MaxDeploys,  \* bound on deploys, which number what they record
    MaxChain     \* bound on the commits of a ref

ASSUME KeysAssumption == Keys # {}

VARIABLES
    store,      \* store[o][k] = [state, ledger]: deploy numbers, 0 when nothing is recorded
    base,       \* base[o][k]: the local ref, <<>> when absent
    remote,     \* remote[k]: the ref on the shared remote
    deploys,    \* how many deploys have started
    deploying,  \* deploying[o][k]: the deploy that holds the lock, 0 when none
    sync,       \* sync[o]: the running command
    accepted,   \* history: the payloads each store has held or taken over, per key,
                \* and those they rest on
    cut         \* history: operators with a pull that fetched a payload and did not record it

syncVars == <<store, base, remote, deploys, deploying, sync, accepted, cut>>

Nothing == [state |-> 0, ledger |-> 0]
NoSync == [op |-> "idle", todo |-> {}, key |-> CHOOSE k \in Keys : TRUE, at |-> "next",
         payload |-> Nothing]

SyncInit ==
    /\ store = [o \in Operators |-> [k \in Keys |-> Nothing]]
    /\ base = [o \in Operators |-> [k \in Keys |-> <<>>]]
    /\ remote = [k \in Keys |-> <<>>]
    /\ deploys = 0
    /\ deploying = [o \in Operators |-> [k \in Keys |-> 0]]
    /\ sync = [o \in Operators |-> NoSync]
    /\ accepted = [o \in Operators |-> [k \in Keys |-> {}]]
    /\ cut = {}

LocalKeys(o) == {k \in Keys : store[o][k].state # 0}
RemoteKeys == {k \in Keys : remote[k] # <<>>}

Becomes(o, s) == sync' = [sync EXCEPT ![o] = s]
KeyDone(o, k) ==
    LET rest == sync[o].todo \ {k} IN
    Becomes(o, IF rest = {} THEN NoSync ELSE [NoSync EXCEPT !.op = sync[o].op, !.todo = rest])
Held(o, k, payload) == accepted' = [accepted EXCEPT ![o][k] = @ \cup {payload}]

(* A deploy records its state as it goes and its ledger when it commits.   *)
DeployMoves(o, k) ==
    /\ deploying[o][k] = 0 /\ deploys < MaxDeploys
    /\ deploys' = deploys + 1
    /\ deploying' = [deploying EXCEPT ![o][k] = deploys + 1]
    /\ store' = [store EXCEPT ![o][k].state = deploys + 1]
    /\ Held(o, k, store'[o][k])
    /\ UNCHANGED <<base, remote, sync, cut>>

DeployCommits(o, k) ==
    /\ deploying[o][k] # 0
    /\ store' = [store EXCEPT ![o][k] = [state |-> deploying[o][k], ledger |-> deploying[o][k]]]
    /\ deploying' = [deploying EXCEPT ![o][k] = 0]
    /\ Held(o, k, store'[o][k])
    /\ UNCHANGED <<base, remote, deploys, sync, cut>>

(* The command line picks one of the three; a push lists the local keys, a *)
(* pull the remote's, a reclaim the local ones and then the remote's.  With *)
(* no key to visit nothing happens.                                        *)
SyncStarts(o, op) ==
    /\ sync[o].op = "idle"
    /\ Becomes(o, [NoSync EXCEPT !.op = op,
                           !.at = IF op = "reclaim" THEN "orphans" ELSE "next",
                           !.todo = CASE op = "push" -> LocalKeys(o)
                                      [] op = "pull" -> RemoteKeys
                                      [] op = "reclaim" -> Keys \ LocalKeys(o)])
    /\ sync'[o].todo # {}
    /\ UNCHANGED <<store, base, remote, deploys, deploying, accepted, cut>>

(* The state and the ledger of a key are two reads of the store.           *)
PushReadsState(o, k) ==
    /\ sync[o].op = "push" /\ sync[o].at = "next" /\ k \in sync[o].todo
    /\ Becomes(o, [sync[o] EXCEPT !.key = k, !.at = "ledger", !.payload.state = store[o][k].state])
    /\ UNCHANGED <<store, base, remote, deploys, deploying, accepted, cut>>

PushReadsLedger(o) ==
    /\ sync[o].at = "ledger"
    /\ Becomes(o, [sync[o] EXCEPT !.at = "commit", !.payload.ledger = store[o][sync[o].key].ledger])
    /\ UNCHANGED <<store, base, remote, deploys, deploying, accepted, cut>>

(* git: the payload a ref's commit holds, and a commit on top of a ref.    *)
ReadState(ref) == Last(ref)
CommitTree(ref, payload) == Append(ref, payload)

(* A commit on the sync base, unless its tip already says this; the local  *)
(* ref moves before anything is sent.                                      *)
PushState(o) ==
    LET k == sync[o].key  tip == base[o][k]  p == sync[o].payload
        unchanged == tip # <<>> /\ ReadState(tip) = p IN
    /\ sync[o].at = "commit" /\ (unchanged \/ Len(tip) < MaxChain)
    /\ base' = [base EXCEPT ![o][k] = IF unchanged THEN tip ELSE CommitTree(tip, p)]
    /\ Becomes(o, [sync[o] EXCEPT !.at = "publish"])
    /\ Held(o, k, p)
    /\ UNCHANGED <<store, remote, deploys, deploying, cut>>

(* The remote takes a descendant of its ref and rejects anything else.     *)
PushForcing(o) ==
    LET k == sync[o].key  tip == base[o][k] IN
    /\ sync[o].at = "publish"
    /\ remote' = [remote EXCEPT ![k] = tip]
    /\ KeyDone(o, k)
    /\ UNCHANGED <<store, base, deploys, deploying, accepted, cut>>

Push(o) ==
    LET k == sync[o].key  tip == base[o][k] IN
    /\ sync[o].at = "publish"
    /\ IF IsPrefix(remote[k], tip)
       THEN /\ remote' = [remote EXCEPT ![k] = tip]
            /\ KeyDone(o, k)
       ELSE /\ KeyDone(o, k)
            /\ UNCHANGED remote
    /\ UNCHANGED <<store, base, deploys, deploying, accepted, cut>>

(* A pull forces the sync base to the remote's ref, if the ref is still    *)
(* there, and reads the payload it now holds.                              *)
PullState(o, k) ==
    /\ sync[o].op = "pull" /\ sync[o].at = "next" /\ k \in sync[o].todo
    /\ IF remote[k] = <<>>
       THEN /\ KeyDone(o, k)
            /\ UNCHANGED <<base, cut>>
       ELSE /\ base' = [base EXCEPT ![o][k] = remote[k]]
            /\ cut' = cut \cup {<<o, k>>}
            /\ Becomes(o, [sync[o] EXCEPT !.key = k, !.at = "fetched", !.payload = ReadState(remote[k])])
    /\ UNCHANGED <<store, remote, deploys, deploying, accepted>>

PullRecordsState(o) ==
    /\ sync[o].at = "fetched"
    /\ store' = [store EXCEPT ![o][sync[o].key].state = sync[o].payload.state]
    /\ Becomes(o, [sync[o] EXCEPT !.at = "state_recorded"])
    /\ UNCHANGED <<base, remote, deploys, deploying, accepted, cut>>

(* An absent ledger is not recorded, and what the store had stays.         *)
PullRecordsLedger(o) ==
    LET k == sync[o].key  p == sync[o].payload IN
    /\ sync[o].at = "state_recorded"
    /\ store' = [store EXCEPT ![o][k].ledger = IF p.ledger = 0 THEN @ ELSE p.ledger]
    /\ accepted' = [accepted EXCEPT ![o][k] = @ \cup Range(base[o][k]) \cup {store'[o][k]}]
    /\ cut' = cut \ {<<o, k>>}
    /\ KeyDone(o, k)
    /\ UNCHANGED <<base, remote, deploys, deploying>>

(* An orphan is a ref of the remote the store listed no deploy for.        *)
OrphansListed(o) ==
    /\ sync[o].at = "orphans"
    /\ Becomes(o, IF sync[o].todo \cap RemoteKeys = {} THEN NoSync
              ELSE [sync[o] EXCEPT !.at = "next", !.todo = @ \cap RemoteKeys])
    /\ UNCHANGED <<store, base, remote, deploys, deploying, accepted, cut>>

Reclaim(o, k) ==
    /\ sync[o].op = "reclaim" /\ sync[o].at = "next" /\ k \in sync[o].todo
    /\ remote[k] # <<>>
    /\ remote' = [remote EXCEPT ![k] = <<>>]
    /\ KeyDone(o, k)
    /\ UNCHANGED <<store, base, deploys, deploying, accepted, cut>>

(* git fails, a write to the store fails, or the process is killed: the    *)
(* rest of the keys is left.                                               *)
SyncCut(o) ==
    /\ sync[o].op # "idle" /\ sync[o].todo # {}
    /\ Becomes(o, NoSync)
    /\ UNCHANGED <<store, base, remote, deploys, deploying, accepted, cut>>

SyncNext ==
    \E o \in Operators :
        \/ \E op \in {"push", "pull", "reclaim"} : SyncStarts(o, op)
        \/ \E k \in Keys :
              \/ DeployMoves(o, k) \/ DeployCommits(o, k)
              \/ PushReadsState(o, k) \/ PullState(o, k) \/ Reclaim(o, k)
        \/ PushReadsLedger(o) \/ PushState(o) \/ Push(o)
        \/ PullRecordsState(o) \/ PullRecordsLedger(o)
        \/ OrphansListed(o) \/ SyncCut(o)

SyncSpec == SyncInit /\ [][SyncNext]_syncVars

(* The push of one operator to one ref extends the history on the remote,  *)
(* over a payload that operator had recorded or taken over.                *)
PushExtends(k, o) ==
    (remote'[k] # remote[k] /\ sync[o].at = "publish" /\ sync'[o].at # "publish")
    => /\ IsPrefix(remote[k], remote'[k])
       /\ remote[k] = <<>> \/ Last(remote[k]) \in accepted[o][k] \/ <<o, k>> \in cut

(* What `sync` promises of the shared ledger: a push only ever extends the *)
(* history on the remote, and only over a payload the pushing operator had *)
(* recorded, or taken over with the history it rests on - unless a pull of *)
(* theirs was cut after its fetch, which moves the sync base before the    *)
(* store (push_state, pull_state).                                         *)
NoSilentOverwrite == [][\A k \in Keys, u \in Operators : PushExtends(k, u)]_syncVars

=============================================================================
