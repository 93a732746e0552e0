----------------------------- MODULE Sync_proofs -----------------------------
(***************************************************************************)
(* NoSilentOverwrite for every set of operators and keys, however many     *)
(* deploys there are and however long the history of a ref grows.          *)
(***************************************************************************)
EXTENDS Sync, TLAPS

USE KeysAssumption

Payloads == [state : Nat, ledger : Nat]
SyncPlaces == {"next", "ledger", "commit", "publish", "fetched", "state_recorded", "orphans"}
SyncCommands == [op : {"idle", "push", "pull", "reclaim"}, todo : SUBSET Keys, key : Keys,
                 at : SyncPlaces, payload : Payloads]

SyncTypeOK ==
    /\ store \in [Operators -> [Keys -> Payloads]]
    /\ base \in [Operators -> [Keys -> Seq(Payloads)]]
    /\ remote \in [Keys -> Seq(Payloads)]
    /\ deploys \in Nat
    /\ deploying \in [Operators -> [Keys -> Nat]]
    /\ sync \in [Operators -> SyncCommands]
    /\ accepted \in [Operators -> [Keys -> SUBSET Payloads]]
    /\ cut \subseteq Operators \X Keys

(* Every commit below an operator's sync base is a payload that operator   *)
(* recorded or took over, unless a pull of theirs was cut after its fetch. *)
BaseAccepted ==
    \A o \in Operators, k \in Keys : <<o, k>> \in cut \/ Range(base[o][k]) \subseteq accepted[o][k]

SyncInv == SyncTypeOK /\ BaseAccepted

(* A function of two arguments stays one when one of its values changes. *)
LEMMA UpdateAt ==
  ASSUME NEW A, NEW B, NEW V, NEW f \in [A -> [B -> V]], NEW a \in A, NEW b \in B, NEW v \in V
  PROVE  [f EXCEPT ![a][b] = v] \in [A -> [B -> V]]
BY Zenon

(* The tip of a ref is among the commits of every ref that descends from it. *)
LEMMA PrefixLast ==
  ASSUME NEW S, NEW s \in Seq(S), NEW t \in Seq(S), IsPrefix(s, t), s # <<>>
  PROVE  Last(s) \in Range(t)
<1> DEFINE n == Len(s)
<1>1. n \in Nat /\ n >= 1 /\ n <= Len(t)
  BY DEF IsPrefix
<1>2. SubSeq(s, 1, n)[n] = s[n] /\ SubSeq(t, 1, n)[n] = t[n]
  BY <1>1
<1>3. s[n] = t[n] /\ n \in DOMAIN t
  BY <1>1, <1>2 DEF IsPrefix
<1> QED
  BY <1>3, Zenon DEF Last, Range

(* A commit on top of a ref adds its own payload to the ref's, and no other. *)
LEMMA RangeOfCommit ==
  ASSUME NEW S, NEW s \in Seq(S), NEW p \in S
  PROVE  CommitTree(s, p) \in Seq(S) /\ Range(CommitTree(s, p)) \subseteq Range(s) \cup {p}
BY DEF CommitTree, Range

(* A command that is done with a key goes on to the next, or ends. *)
LEMMA KeyDoneType ==
  ASSUME SyncTypeOK, NEW o \in Operators, NEW k, KeyDone(o, k)
  PROVE  sync' \in [Operators -> SyncCommands]
<1>1. NoSync \in SyncCommands
  BY Zenon DEF NoSync, Nothing, SyncCommands, SyncPlaces, Payloads
<1>2. [NoSync EXCEPT !.op = sync[o].op, !.todo = sync[o].todo \ {k}] \in SyncCommands
  BY <1>1, Zenon DEF SyncTypeOK, SyncCommands
<1> QED
  BY <1>1, <1>2, Zenon DEF KeyDone, Becomes, SyncTypeOK

(* Nothing is recorded, synced or running at first. *)
LEMMA SyncInitInv == SyncInit => SyncInv
<1> SUFFICES ASSUME SyncInit PROVE SyncInv
  BY Zenon
<1>1. NoSync \in SyncCommands
  BY Zenon DEF NoSync, Nothing, SyncCommands, SyncPlaces, Payloads
<1>2. SyncTypeOK
  BY <1>1 DEF SyncInit, SyncTypeOK, Nothing, Payloads
<1>3. BaseAccepted
  BY DEF SyncInit, BaseAccepted, Range
<1> QED
  BY <1>2, <1>3, Zenon DEF SyncInv

(* What a command may become: another key, another place, another payload. *)
LEMMA CommandType ==
  ASSUME NEW c \in SyncCommands, NEW k \in Keys, NEW a \in SyncPlaces, NEW p \in Payloads, NEW todo \in SUBSET Keys
  PROVE  /\ c.todo \in SUBSET Keys /\ c.key \in Keys /\ c.payload \in Payloads
         /\ [c EXCEPT !.at = a] \in SyncCommands
         /\ [c EXCEPT !.at = a, !.todo = todo] \in SyncCommands
         /\ [c EXCEPT !.key = k, !.at = a, !.payload = p] \in SyncCommands
<1>1. c.todo \in SUBSET Keys /\ c.key \in Keys /\ c.payload \in Payloads
  BY Zenon DEF SyncCommands
<1>2. [c EXCEPT !.at = a] \in SyncCommands
  BY Zenon DEF SyncCommands
<1>3. [c EXCEPT !.at = a, !.todo = todo] \in SyncCommands
  BY Zenon DEF SyncCommands
<1>4. [c EXCEPT !.key = k, !.at = a, !.payload = p] \in SyncCommands
  BY Zenon DEF SyncCommands
<1> QED
  BY <1>1, <1>2, <1>3, <1>4, ZenonT(30)

(* A payload is read and replaced field by field. *)
LEMMA PayloadType ==
  ASSUME NEW p \in Payloads, NEW n \in Nat
  PROVE  /\ p.state \in Nat /\ p.ledger \in Nat
         /\ [p EXCEPT !.state = n] \in Payloads
         /\ [p EXCEPT !.ledger = n] \in Payloads
BY Zenon DEF Payloads

(* Deploys keep the types. *)
LEMMA DeployType ==
  ASSUME SyncTypeOK, NEW o \in Operators, NEW k \in Keys, DeployMoves(o, k) \/ DeployCommits(o, k)
  PROVE  SyncTypeOK'
<1>1. /\ store \in [Operators -> [Keys -> Payloads]]
      /\ deploys \in Nat /\ deploying \in [Operators -> [Keys -> Nat]]
      /\ accepted \in [Operators -> [Keys -> SUBSET Payloads]]
  BY Zenon DEF SyncTypeOK
<1>2. store[o][k] \in Payloads /\ deploying[o][k] \in Nat /\ accepted[o][k] \in SUBSET Payloads
  BY <1>1, Zenon
<1>3. PICK p \in Payloads, n \in Nat, m \in Nat :
         /\ store' = [store EXCEPT ![o][k] = p]
         /\ deploying' = [deploying EXCEPT ![o][k] = n]
         /\ deploys' = m
  <2>1. CASE DeployMoves(o, k)
    <3> deploys + 1 \in Nat
      BY <1>1
    <3>1. [store[o][k] EXCEPT !.state = deploys + 1] \in Payloads
      BY <1>2, PayloadType, Zenon
    <3>2. store' = [store EXCEPT ![o][k] = [store[o][k] EXCEPT !.state = deploys + 1]]
      BY <2>1, Zenon DEF DeployMoves
    <3> QED
      BY <2>1, <3>1, <3>2, ZenonT(30) DEF DeployMoves
  <2>2. CASE DeployCommits(o, k)
    <3>1. [state |-> deploying[o][k], ledger |-> deploying[o][k]] \in Payloads
      BY <1>2, Zenon DEF Payloads
    <3> QED
      BY <1>1, <2>2, <3>1, ZenonT(30) DEF DeployCommits
  <2> QED
    BY <2>1, <2>2, Zenon
<1>4. store' \in [Operators -> [Keys -> Payloads]] /\ store'[o][k] \in Payloads
  BY <1>1, <1>3, UpdateAt, ZenonT(30)
<1>5. deploying' \in [Operators -> [Keys -> Nat]]
  BY <1>1, <1>3, UpdateAt, Zenon
<1>6. accepted' = [accepted EXCEPT ![o][k] = accepted[o][k] \cup {store'[o][k]}]
  BY Zenon DEF DeployMoves, DeployCommits, Held
<1>7. accepted' \in [Operators -> [Keys -> SUBSET Payloads]]
  <2>1. accepted[o][k] \cup {store'[o][k]} \in SUBSET Payloads
    BY <1>2, <1>4, Zenon
  <2> QED
    BY <1>1, <1>6, <2>1, UpdateAt, ZenonT(30)
<1>8. UNCHANGED <<base, remote, sync, cut>>
  BY Zenon DEF DeployMoves, DeployCommits
<1> QED
  BY <1>3, <1>4, <1>5, <1>7, <1>8, ZenonT(30) DEF SyncTypeOK

(* A command that only moves on, having changed at most the remote's refs, *)
(* keeps the types.                                                        *)
LEMMA CommandMoves ==
  ASSUME SyncTypeOK, NEW o \in Operators, NEW c \in SyncCommands, Becomes(o, c),
         remote' \in [Keys -> Seq(Payloads)], UNCHANGED <<store, base, deploys, deploying, accepted, cut>>
  PROVE  SyncTypeOK'
<1>1. sync' \in [Operators -> SyncCommands]
  BY Zenon DEF SyncTypeOK, Becomes
<1> QED
  BY <1>1, Zenon DEF SyncTypeOK

(* A push keeps the types: it reads the store, commits and publishes. *)
LEMMA PushType ==
  ASSUME SyncTypeOK, NEW o \in Operators,
         \/ \E k \in Keys : PushReadsState(o, k)
         \/ PushReadsLedger(o) \/ PushState(o) \/ Push(o)
  PROVE  SyncTypeOK'
<1> DEFINE k == sync[o].key
           p == sync[o].payload
<1>1. /\ store \in [Operators -> [Keys -> Payloads]] /\ base \in [Operators -> [Keys -> Seq(Payloads)]]
      /\ remote \in [Keys -> Seq(Payloads)] /\ sync \in [Operators -> SyncCommands]
      /\ accepted \in [Operators -> [Keys -> SUBSET Payloads]]
  BY Zenon DEF SyncTypeOK
<1>2. sync[o] \in SyncCommands /\ k \in Keys /\ p \in Payloads
  BY <1>1, Zenon DEF SyncCommands
<1>3. {"next", "ledger", "commit", "publish", "fetched", "state_recorded", "orphans"} \subseteq SyncPlaces
  BY Zenon DEF SyncPlaces
<1>4. ASSUME NEW j \in Keys, PushReadsState(o, j) PROVE SyncTypeOK'
  <2> DEFINE q == [p EXCEPT !.state = store[o][j].state]
             c == [sync[o] EXCEPT !.key = j, !.at = "ledger", !.payload = q]
  <2>1. store[o][j].state \in Nat
    BY <1>1, ZenonT(30) DEF Payloads
  <2>2. q \in Payloads
    BY <1>2, <2>1, PayloadType, Zenon
  <2>3. c \in SyncCommands
    BY <1>2, <1>3, <2>2, ZenonT(30) DEF SyncCommands
  <2>4. Becomes(o, c) /\ UNCHANGED <<store, base, remote, deploys, deploying, accepted, cut>>
    BY <1>4, Zenon DEF PushReadsState, Becomes
  <2> QED
    BY <1>1, <2>3, <2>4, CommandMoves, ZenonT(30)
<1>5. CASE PushReadsLedger(o)
  <2> DEFINE q == [p EXCEPT !.ledger = store[o][k].ledger]
             c == [sync[o] EXCEPT !.at = "commit", !.payload = q]
  <2>1. store[o][k].ledger \in Nat
    BY <1>1, <1>2 DEF Payloads
  <2>2. q \in Payloads
    BY <1>2, <2>1, PayloadType, ZenonT(30)
  <2>3. c \in SyncCommands
    BY <1>2, <1>3, <2>2, ZenonT(30) DEF SyncCommands
  <2>4. Becomes(o, c) /\ UNCHANGED <<store, base, remote, deploys, deploying, accepted, cut>>
    BY <1>5, Zenon DEF PushReadsLedger, Becomes
  <2> QED
    BY <1>1, <2>3, <2>4, CommandMoves, ZenonT(30)
<1>6. CASE PushState(o)
  <2>1. PICK b \in Seq(Payloads) : base' = [base EXCEPT ![o][k] = b]
    <3>0. base[o][k] \in Seq(Payloads)
      BY <1>1, <1>2, ZenonT(30)
    <3>1. CommitTree(base[o][k], p) \in Seq(Payloads)
      BY <1>2, <3>0, RangeOfCommit, ZenonT(30)
    <3>2. \/ base' = [base EXCEPT ![o][k] = base[o][k]]
          \/ base' = [base EXCEPT ![o][k] = CommitTree(base[o][k], p)]
      BY <1>6, Zenon DEF PushState
    <3> QED
      BY <3>0, <3>1, <3>2, ZenonT(30)
  <2>2. base' \in [Operators -> [Keys -> Seq(Payloads)]]
    BY <1>1, <1>2, <2>1, UpdateAt, ZenonT(30)
  <2>3. [sync[o] EXCEPT !.at = "publish"] \in SyncCommands
    BY <1>2, <1>3, Zenon DEF SyncCommands
  <2>4. sync' \in [Operators -> SyncCommands]
    BY <1>1, <1>6, <2>3, Zenon DEF PushState, Becomes
  <2>5. accepted' = [accepted EXCEPT ![o][k] = accepted[o][k] \cup {p}]
    BY <1>6, Zenon DEF PushState, Held
  <2>6. accepted' \in [Operators -> [Keys -> SUBSET Payloads]]
    <3>1. accepted[o][k] \cup {p} \in SUBSET Payloads
      BY <1>1, <1>2, SMTT(30)
    <3> QED
      BY <1>1, <1>2, <2>5, <3>1, UpdateAt, ZenonT(30)
  <2> QED
    BY <1>6, <2>2, <2>4, <2>6, ZenonT(30) DEF PushState, SyncTypeOK
<1>7. CASE Push(o)
  <2>1. remote' \in [Keys -> Seq(Payloads)]
    <3>1. remote' = remote \/ remote' = [remote EXCEPT ![k] = base[o][k]]
      BY <1>7, ZenonT(30) DEF Push
    <3>2. base[o][k] \in Seq(Payloads)
      BY <1>1, <1>2, Zenon
    <3> QED
      BY <1>1, <3>1, <3>2, ZenonT(30)
  <2>2. sync' \in [Operators -> SyncCommands]
    BY <1>7, KeyDoneType, ZenonT(30) DEF Push
  <2> QED
    BY <1>7, <2>1, <2>2, ZenonT(30) DEF Push, SyncTypeOK
<1> QED
  BY <1>4, <1>5, <1>6, <1>7, ZenonT(30)

(* A pull keeps the types: it fetches, then records the two files. *)
LEMMA PullType ==
  ASSUME SyncTypeOK, NEW o \in Operators,
         \/ \E k \in Keys : PullState(o, k)
         \/ PullRecordsState(o) \/ PullRecordsLedger(o)
  PROVE  SyncTypeOK'
<1> DEFINE k == sync[o].key
           p == sync[o].payload
<1>1. /\ store \in [Operators -> [Keys -> Payloads]] /\ base \in [Operators -> [Keys -> Seq(Payloads)]]
      /\ remote \in [Keys -> Seq(Payloads)] /\ sync \in [Operators -> SyncCommands]
      /\ accepted \in [Operators -> [Keys -> SUBSET Payloads]]
      /\ cut \subseteq Operators \X Keys
  BY Zenon DEF SyncTypeOK
<1>2. sync[o] \in SyncCommands /\ k \in Keys /\ p \in Payloads /\ p.state \in Nat /\ p.ledger \in Nat
  BY <1>1, Zenon DEF SyncCommands, Payloads
<1>3. {"next", "fetched", "state_recorded"} \subseteq SyncPlaces
  BY Zenon DEF SyncPlaces
<1>4. ASSUME NEW j \in Keys, PullState(o, j) PROVE SyncTypeOK'
  <2>0. UNCHANGED <<store, remote, deploys, deploying, accepted>>
    BY <1>4, Zenon DEF PullState
  <2>1. CASE remote[j] = <<>>
    <3>1. KeyDone(o, j) /\ UNCHANGED <<base, cut>>
      BY <1>4, <2>1, ZenonT(30) DEF PullState
    <3> QED
      BY <2>0, <3>1, KeyDoneType, ZenonT(30) DEF SyncTypeOK
  <2>2. CASE remote[j] # <<>>
    <3> DEFINE r == remote[j]
               q == ReadState(r)
               c == [sync[o] EXCEPT !.key = j, !.at = "fetched", !.payload = q]
    <3>1. q \in Payloads
      <4>1. r \in Seq(Payloads) /\ r # <<>>
        BY <1>1, <2>2, ZenonT(30)
      <4> QED
        BY <4>1 DEF ReadState, Last
    <3>2. c \in SyncCommands
      BY <1>2, <1>3, <3>1, ZenonT(30) DEF SyncCommands
    <3>3. Becomes(o, c) /\ base' = [base EXCEPT ![o][j] = r] /\ cut' = cut \cup {<<o, j>>}
      BY <1>4, <2>2, ZenonT(30) DEF PullState
    <3>4. sync' \in [Operators -> SyncCommands]
      BY <1>1, <3>2, <3>3, ZenonT(30) DEF Becomes
    <3>5. base' \in [Operators -> [Keys -> Seq(Payloads)]]
      BY <1>1, <3>3, UpdateAt, ZenonT(30)
    <3> QED
      BY <1>1, <2>0, <3>3, <3>4, <3>5, SMTT(30) DEF SyncTypeOK
  <2> QED
    BY <2>1, <2>2, ZenonT(30)
<1>5. CASE PullRecordsState(o)
  <2> DEFINE s == [store[o][k] EXCEPT !.state = p.state]
  <2>1. s \in Payloads
    <3>1. store[o][k] \in Payloads
      BY <1>1, <1>2, ZenonT(30)
    <3> QED
      BY <1>2, <3>1, PayloadType, ZenonT(30)
  <2>2. store' = [store EXCEPT ![o][k] = s]
    BY <1>5, Zenon DEF PullRecordsState
  <2>3. store' \in [Operators -> [Keys -> Payloads]]
    BY <1>1, <1>2, <2>1, <2>2, UpdateAt, ZenonT(30)
  <2>4. [sync[o] EXCEPT !.at = "state_recorded"] \in SyncCommands
    BY <1>2, <1>3, ZenonT(30) DEF SyncCommands
  <2>5. sync' \in [Operators -> SyncCommands]
    BY <1>1, <1>5, <2>4, ZenonT(30) DEF PullRecordsState, Becomes
  <2> QED
    BY <1>5, <2>3, <2>5, Zenon DEF PullRecordsState, SyncTypeOK
<1>6. CASE PullRecordsLedger(o)
  <2> DEFINE old == store[o][k]
  <2>1. old \in Payloads /\ old.ledger \in Nat
    BY <1>1, <1>2, SMTT(30) DEF Payloads
  <2>2. PICK n \in Nat : store' = [store EXCEPT ![o][k].ledger = n]
    BY <1>2, <1>6, <2>1, ZenonT(30) DEF PullRecordsLedger
  <2>3. [old EXCEPT !.ledger = n] \in Payloads
    BY <2>1, PayloadType, ZenonT(30)
  <2>4. store' = [store EXCEPT ![o][k] = [old EXCEPT !.ledger = n]]
    BY <2>2, Zenon
  <2>5. store' \in [Operators -> [Keys -> Payloads]] /\ store'[o][k] \in Payloads
    BY <1>1, <1>2, <2>3, <2>4, UpdateAt, ZenonT(30)
  <2>6. accepted[o][k] \cup Range(base[o][k]) \cup {store'[o][k]} \in SUBSET Payloads
    BY <1>1, <1>2, <2>5, SMTT(30) DEF Range
  <2>7. accepted' = [accepted EXCEPT ![o][k] = accepted[o][k] \cup Range(base[o][k]) \cup {store'[o][k]}]
    BY <1>6, ZenonT(30) DEF PullRecordsLedger
  <2>8. accepted' \in [Operators -> [Keys -> SUBSET Payloads]]
    BY <1>1, <1>2, <2>6, <2>7, UpdateAt, ZenonT(30)
  <2>9. sync' \in [Operators -> SyncCommands]
    BY <1>6, KeyDoneType, ZenonT(30) DEF PullRecordsLedger
  <2>10. cut' \subseteq Operators \X Keys /\ UNCHANGED <<base, remote, deploys, deploying>>
    BY <1>1, <1>6, ZenonT(30) DEF PullRecordsLedger
  <2> QED
    BY <2>5, <2>8, <2>9, <2>10, ZenonT(30) DEF SyncTypeOK
<1> QED
  BY <1>4, <1>5, <1>6, ZenonT(30)

(* Every step of a command or a deploy keeps the types. *)
LEMMA SyncNextType ==
  ASSUME SyncTypeOK, SyncNext
  PROVE  SyncTypeOK'
<1>1. PICK o \in Operators :
         \/ \E op \in {"push", "pull", "reclaim"} : SyncStarts(o, op)
         \/ \E k \in Keys :
               \/ DeployMoves(o, k) \/ DeployCommits(o, k)
               \/ PushReadsState(o, k) \/ PullState(o, k) \/ Reclaim(o, k)
         \/ PushReadsLedger(o) \/ PushState(o) \/ Push(o)
         \/ PullRecordsState(o) \/ PullRecordsLedger(o)
         \/ OrphansListed(o) \/ SyncCut(o)
  BY Zenon DEF SyncNext
<1>2. remote \in [Keys -> Seq(Payloads)] /\ sync[o] \in SyncCommands /\ sync \in [Operators -> SyncCommands]
  BY Zenon DEF SyncTypeOK
<1>3. NoSync \in SyncCommands
  BY Zenon DEF NoSync, Nothing, SyncCommands, SyncPlaces, Payloads
<1>4. ASSUME NEW op \in {"push", "pull", "reclaim"}, SyncStarts(o, op) PROVE SyncTypeOK'
  <2>1. PICK todo \in SUBSET Keys, a \in SyncPlaces :
           Becomes(o, [NoSync EXCEPT !.op = op, !.at = a, !.todo = todo])
    BY <1>4, ZenonT(30) DEF SyncStarts, LocalKeys, RemoteKeys, SyncPlaces
  <2>2. [NoSync EXCEPT !.op = op, !.at = a, !.todo = todo] \in SyncCommands
    BY <1>3, Zenon DEF SyncCommands
  <2> QED
    BY <1>2, <1>4, <2>1, <2>2, CommandMoves, ZenonT(30) DEF SyncStarts
<1>5. ASSUME NEW k \in Keys, Reclaim(o, k) PROVE SyncTypeOK'
  <2>1. remote' \in [Keys -> Seq(Payloads)]
    BY <1>2, <1>5 DEF Reclaim
  <2>2. sync' \in [Operators -> SyncCommands]
    BY <1>5, KeyDoneType, ZenonT(30) DEF Reclaim
  <2> QED
    BY <1>5, <2>1, <2>2, ZenonT(30) DEF Reclaim, SyncTypeOK
<1>6. CASE OrphansListed(o)
  <2>1. PICK c \in SyncCommands : Becomes(o, c)
    <3> DEFINE todo == sync[o].todo \cap RemoteKeys
    <3>1. todo \in SUBSET Keys /\ "next" \in SyncPlaces
      BY Zenon DEF RemoteKeys, SyncPlaces
    <3>2. [sync[o] EXCEPT !.at = "next", !.todo = todo] \in SyncCommands
      BY <1>2, <3>1, ZenonT(30) DEF SyncCommands
    <3> QED
      BY <1>3, <1>6, <3>2, ZenonT(30) DEF OrphansListed
  <2> QED
    BY <1>2, <1>6, <2>1, CommandMoves, ZenonT(30) DEF OrphansListed
<1>7. CASE SyncCut(o)
  BY <1>2, <1>3, <1>7, CommandMoves, ZenonT(30) DEF SyncCut
<1> QED
  BY <1>1, <1>4, <1>5, <1>6, <1>7, DeployType, PushType, PullType, ZenonT(30)

(* Every step keeps the sync bases within what their operators accepted:   *)
(* a commit is accepted as it is made, a pull takes over what it fetched   *)
(* when it records the ledger.                                             *)
LEMMA SyncNextAccepted ==
  ASSUME SyncInv, SyncNext
  PROVE  BaseAccepted'
<1>1. PICK o \in Operators :
         \/ \E op \in {"push", "pull", "reclaim"} : SyncStarts(o, op)
         \/ \E k \in Keys :
               \/ DeployMoves(o, k) \/ DeployCommits(o, k)
               \/ PushReadsState(o, k) \/ PullState(o, k) \/ Reclaim(o, k)
         \/ PushReadsLedger(o) \/ PushState(o) \/ Push(o)
         \/ PullRecordsState(o) \/ PullRecordsLedger(o)
         \/ OrphansListed(o) \/ SyncCut(o)
  BY Zenon DEF SyncNext
<1>2. /\ base \in [Operators -> [Keys -> Seq(Payloads)]]
      /\ accepted \in [Operators -> [Keys -> SUBSET Payloads]]
      /\ sync[o].key \in Keys /\ sync[o].payload \in Payloads
  BY Zenon DEF SyncInv, SyncTypeOK, SyncCommands
<1>3. BaseAccepted
  BY Zenon DEF SyncInv
<1>4. CASE UNCHANGED <<base, accepted, cut>>
  BY <1>3, <1>4, ZenonT(30) DEF BaseAccepted
<1>5. ASSUME NEW k \in Keys, DeployMoves(o, k) \/ DeployCommits(o, k) PROVE BaseAccepted'
  <2>1. accepted' = [accepted EXCEPT ![o][k] = accepted[o][k] \cup {store'[o][k]}] /\ UNCHANGED <<base, cut>>
    BY <1>5, Zenon DEF DeployMoves, DeployCommits, Held
  <2> QED
    BY <1>2, <1>3, <2>1, ZenonT(30) DEF BaseAccepted
<1>6. ASSUME NEW k \in Keys, PullState(o, k) PROVE BaseAccepted'
  <2>1. CASE remote[k] = <<>>
    BY <1>4, <1>6, <2>1, ZenonT(30) DEF PullState
  <2>2. CASE remote[k] # <<>>
    <3>1. base' = [base EXCEPT ![o][k] = remote[k]] /\ cut' = cut \cup {<<o, k>>} /\ UNCHANGED accepted
      BY <1>6, <2>2, ZenonT(30) DEF PullState
    <3> QED
      BY <1>2, <1>3, <3>1, ZenonT(30) DEF BaseAccepted
  <2> QED
    BY <2>1, <2>2, Zenon
<1>7. CASE PushState(o)
  <2> DEFINE k == sync[o].key
             p == sync[o].payload
  <2>1. accepted' = [accepted EXCEPT ![o][k] = accepted[o][k] \cup {p}] /\ UNCHANGED cut
    BY <1>7, Zenon DEF PushState, Held
  <2>2. PICK b : base' = [base EXCEPT ![o][k] = b] /\ Range(b) \subseteq Range(base[o][k]) \cup {p}
    <3>1. base[o][k] \in Seq(Payloads)
      BY <1>2, Zenon
    <3>2. Range(CommitTree(base[o][k], p)) \subseteq Range(base[o][k]) \cup {p}
      <4>1. ASSUME NEW s \in Seq(Payloads), NEW q \in Payloads
            PROVE  Range(CommitTree(s, q)) \subseteq Range(s) \cup {q}
        BY RangeOfCommit, Zenon
      <4> QED
        BY <1>2, <3>1, <4>1, ZenonT(30)
    <3>3. \/ base' = [base EXCEPT ![o][k] = base[o][k]]
          \/ base' = [base EXCEPT ![o][k] = CommitTree(base[o][k], p)]
      BY <1>7, Zenon DEF PushState
    <3>4. Range(base[o][k]) \subseteq Range(base[o][k]) \cup {p}
      BY Zenon
    <3> QED
      BY <3>2, <3>3, <3>4, ZenonT(30)
  <2> QED
    BY <1>2, <1>3, <2>1, <2>2, ZenonT(30) DEF BaseAccepted
<1>8. CASE PullRecordsLedger(o)
  <2> DEFINE k == sync[o].key
  <2>1. /\ accepted' = [accepted EXCEPT ![o][k] = accepted[o][k] \cup Range(base[o][k]) \cup {store'[o][k]}]
        /\ cut' = cut \ {<<o, k>>} /\ UNCHANGED base
    BY <1>8, ZenonT(30) DEF PullRecordsLedger
  <2> QED
    BY <1>2, <1>3, <2>1, ZenonT(30) DEF BaseAccepted
<1>9. \/ UNCHANGED <<base, accepted, cut>>
      \/ \E k \in Keys : DeployMoves(o, k) \/ DeployCommits(o, k) \/ PullState(o, k)
      \/ PushState(o) \/ PullRecordsLedger(o)
  BY <1>1, ZenonT(30)
  DEF SyncStarts, PushReadsState, Reclaim, PushReadsLedger, Push, PullRecordsState,
     OrphansListed, SyncCut
<1> QED
  BY <1>4, <1>5, <1>6, <1>7, <1>8, <1>9, ZenonT(30)

(* What a push may do to the shared ledger, as a step. *)
LEMMA SyncNextPush ==
  ASSUME SyncInv, SyncNext, NEW k \in Keys, NEW u \in Operators,
         remote'[k] # remote[k], sync[u].at = "publish", sync'[u].at # "publish"
  PROVE  /\ IsPrefix(remote[k], remote'[k])
         /\ remote[k] = <<>> \/ Last(remote[k]) \in accepted[u][k] \/ <<u, k>> \in cut
<1>1. /\ base \in [Operators -> [Keys -> Seq(Payloads)]] /\ remote \in [Keys -> Seq(Payloads)]
      /\ sync \in [Operators -> SyncCommands]
  BY Zenon DEF SyncInv, SyncTypeOK
<1>0. remote' # remote
  BY Zenon
<1>2. PICK o \in Operators : Push(o) \/ \E j \in Keys : Reclaim(o, j)
  BY <1>0, ZenonT(90)
     DEF SyncNext, SyncStarts, DeployMoves, DeployCommits, PushReadsState, PullState, PushReadsLedger,
         PushState, PullRecordsState, PullRecordsLedger, OrphansListed, SyncCut
<1>3. ASSUME NEW w \in Operators, w # o PROVE sync'[w] = sync[w]
  <2>1. PICK c : sync' = [sync EXCEPT ![o] = c]
    BY <1>2, Zenon DEF Push, Reclaim, KeyDone, Becomes
  <2> QED
    BY <1>1, <1>3, <2>1, Zenon
<1>4. u = o
  BY <1>3, Zenon
<1>5. Push(o)
  BY <1>2, <1>4, Zenon DEF Reclaim
<1>6. k = sync[u].key /\ IsPrefix(remote[k], base[u][k]) /\ remote'[k] = base[u][k]
  BY <1>1, <1>4, <1>5, Zenon DEF Push
<1>7. CASE remote[k] # <<>>
  <2>1. Last(remote[k]) \in Range(base[u][k])
    <3>1. base[u][k] \in Seq(Payloads) /\ remote[k] \in Seq(Payloads)
      BY <1>1, ZenonT(30)
    <3> QED
      BY <1>6, <1>7, <3>1, PrefixLast, Zenon
  <2> QED
    BY <1>6, <2>1, Zenon DEF SyncInv, BaseAccepted
<1> QED
  BY <1>6, <1>7, ZenonT(30)

(* The sync bases stay within what their operators accepted, whatever the  *)
(* operators' commands and deploys do between each other's steps.          *)
THEOREM SyncBasesAccepted == SyncSpec => []SyncInv
<1>1. SyncInv /\ [SyncNext]_syncVars => SyncInv'
  <2> SUFFICES ASSUME SyncInv, [SyncNext]_syncVars PROVE SyncInv'
    BY Zenon
  <2>1. CASE SyncNext
    BY <2>1, SyncNextType, SyncNextAccepted, ZenonT(30) DEF SyncInv
  <2>2. CASE UNCHANGED syncVars
    BY <2>2, ZenonT(30) DEF syncVars, SyncInv, SyncTypeOK, BaseAccepted
  <2> QED
    BY <2>1, <2>2, ZenonT(30)
<1> QED
  BY SyncInitInv, <1>1, PTL DEF SyncSpec

(* A push only extends the history on the remote, and only over a payload  *)
(* the pushing operator had recorded or taken over (push_state, pull_state *)
(* of the git sync).                                                       *)
THEOREM PushNeverOverwrites == SyncSpec => NoSilentOverwrite
<1>1. SyncInv /\ [SyncNext]_syncVars => [\A k \in Keys, u \in Operators : PushExtends(k, u)]_syncVars
  <2> SUFFICES ASSUME SyncInv, SyncNext, NEW k \in Keys, NEW u \in Operators PROVE PushExtends(k, u)
    BY Zenon
  <2> QED
    BY SyncNextPush, Zenon DEF PushExtends
<1> QED
  BY SyncBasesAccepted, <1>1, PTL DEF SyncSpec, NoSilentOverwrite

=============================================================================
