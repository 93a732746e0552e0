----------------------------- MODULE StateFiles -----------------------------
(***************************************************************************)
(* FilesystemStateStore (state_store.rs) at the level of its system calls, *)
(* for one fraise and environment: the state log, which append_jsonl       *)
(* writes in two calls, the text and the newline, and the key file and the *)
(* snapshot, which write_json_atomic writes to a temporary file, always    *)
(* the same, and renames.                                                  *)
(*                                                                         *)
(* The commands that use it: a deploy reads the snapshot, records states   *)
(* under the lock and saves its ledger after it; `db migrate` and `db      *)
(* reset` read, change and save the ledger without the lock                *)
(* (record_ledger_revision); `sync --pull` records a state and saves a     *)
(* ledger without the lock.  Any of them may fail or die at any call.      *)
(*                                                                         *)
(* The lock is the flock of Saga: it dies with its holder.  A file is      *)
(* named by the command that created it.  The event log is written like    *)
(* the state log and left out.                                             *)
(***************************************************************************)
EXTENDS Naturals, Sequences, FiniteSets

CONSTANTS Procs,       \* the commands
          NoProc,      \* none of them: no file, no lock, no release
          Base,        \* the deploy before these
          Mixes,       \* the choices of shape and kind
          States       \* states a deploy records

ASSUME ProcsAssumption == {NoProc, Base} \cap Procs = {} /\ NoProc # Base
ASSUME MixesAssumption ==
    Mixes \subseteq {"single", "fleet"} \X [Procs -> {"deploy", "migrate", "pull"}]
ASSUME StatesAssumption == States \in Nat

VARIABLES shape,       \* the shape of the ledger this configuration writes
          kind,        \* what each command is
          pc,          \* where each command is
          todo,        \* states each command has still to record
          draft,       \* the ledger each command is going to save
          target,      \* the file that write_json_atomic is writing
          fd,          \* the file open for it
          lock,        \* the holder of the flock
          name,        \* name[t]: the file with the name t
          tmp,         \* tmp[t]: the file with the name t.tmp
          content,     \* content[t][i]: what is in file i of the name t
          journal,     \* the state log
          acked,       \* history: the last state whose recording returned Ok
          mishaps,     \* history: see Interrupted, PulledInto and Overlapped
          alone        \* history: the migrations no other command was under way during

localVars == <<kind, todo, draft, target, fd>>
fileVars  == <<name, tmp, content>>
sfVars == <<shape, pc, localVars, lock, fileVars, journal, acked, mishaps, alone>>

Targets == {"key", "snapshot"}
Inodes == Procs \cup {Base}

(* Ledgers.  "none": its active is null.                                   *)
Ledger(s, active, revision) == [shape |-> s, active |-> active, revision |-> revision]
NoLedger == Ledger("none", NoProc, NoProc)
Ledgers == [shape : {"none", "single", "fleet"}, active : Inodes \cup {NoProc},
            revision : Inodes \cup {NoProc}]

(* A file holds nothing, a whole value, or something that does not parse.  *)
Holds(status, ledger) == [status |-> status, ledger |-> ledger]
Whole(ledger) == Holds("whole", ledger)
Empty == Holds("empty", NoLedger)
Garbled == Holds("garbled", NoLedger)

(* The state log: whether a finished line does not parse, the last         *)
(* finished line, and the texts since its newline.                         *)
Entry(p, n) == [by |-> p, n |-> n]
Torn == Entry(NoProc, 0)
NoEntry == Entry(Base, 0)

SFInit ==
    /\ \E mix \in Mixes : shape = mix[1] /\ kind = mix[2]
    /\ pc = [p \in Procs |-> "start"]
    /\ todo = [p \in Procs |-> 0]
    /\ draft = [p \in Procs |-> NoLedger]
    /\ target = [p \in Procs |-> "key"]
    /\ fd = [p \in Procs |-> NoProc]
    /\ lock = NoProc
    /\ \E first \in {Base, NoProc} : name = [t \in Targets |-> first]
    /\ tmp = [t \in Targets |-> NoProc]
    /\ content = [t \in Targets |-> [i \in Inodes |->
                    IF i # Base \/ name[t] = NoProc THEN Empty
                    ELSE IF t = "key" THEN Whole(NoLedger) ELSE Whole(Ledger(shape, Base, Base))]]
    /\ journal = [garbled |-> FALSE, last |-> NoEntry, open |-> <<>>]
    /\ acked = NoEntry
    /\ mishaps = {}
    /\ alone = {p \in Procs : kind[p] = "migrate"}

-----------------------------------------------------------------------------
Go(p, where) == pc' = [pc EXCEPT ![p] = where]
Ended == {"done", "failed", "locked"}
Underway(p) == pc[p] \notin Ended \cup {"start"}

(* The command returns an error, and the saga releases its lock first, or  *)
(* it dies, and the lock with it.                                          *)
Fail(p) ==
    /\ Go(p, "failed")
    /\ lock' = IF lock = p THEN NoProc ELSE lock

Begin(p) ==
    /\ pc[p] = "start"
    /\ LET others == {q \in Procs : Underway(q)} IN
       alone' = IF others = {} THEN alone ELSE alone \ (others \cup {p})

(* current_snapshot(): the bytes at the name, parsed.                      *)
Absent == name["snapshot"] = NoProc
Snapshot == content["snapshot"][name["snapshot"]]

(* from_value::<DeployRecord>: one artifact or null; ::<MultiHostRecord>:  *)
(* a map of hosts, and null is no map.                                     *)
Decodes(ledger, s) ==
    IF s = "single" THEN ledger.shape \in {"none", "single"} ELSE ledger.shape = "fleet"

(* run_reporting(), run(): an unreadable ledger ends the deploy.           *)
BeginDeploy(p) ==
    /\ kind[p] = "deploy" /\ Begin(p)
    /\ IF Absent \/ (Snapshot.status = "whole" /\ Decodes(Snapshot.ledger, shape))
       THEN Go(p, "lock") /\ UNCHANGED lock
       ELSE Fail(p)
    /\ todo' = [todo EXCEPT ![p] = States]
    /\ draft' = [draft EXCEPT ![p] = Ledger(shape, p, p)]
    /\ UNCHANGED <<shape, kind, target, fd, fileVars, journal, acked, mishaps>>

(* Mutant: starts from an empty record instead of the stored one.          *)
BeginMigrateAfresh(p) ==
    /\ kind[p] = "migrate" /\ Begin(p)
    /\ Go(p, "record")
    /\ draft' = [draft EXCEPT ![p] = [NoLedger EXCEPT !.revision = p]]
    /\ UNCHANGED <<shape, kind, todo, target, fd, lock, fileVars, journal, acked, mishaps>>

(* record_ledger_revision(), its read: always as a DeployRecord, and a     *)
(* record that does not decode counts as an empty one.                     *)
BeginMigrate(p) ==
    /\ kind[p] = "migrate" /\ Begin(p)
    /\ IF Absent \/ Snapshot.status = "whole"
       THEN Go(p, "record") /\ UNCHANGED lock
       ELSE Fail(p)
    /\ LET found == IF ~Absent /\ Decodes(Snapshot.ledger, "single")
                    THEN Snapshot.ledger ELSE NoLedger
       IN draft' = [draft EXCEPT ![p] = [found EXCEPT !.revision = p]]
    /\ UNCHANGED <<shape, kind, todo, target, fd, fileVars, journal, acked, mishaps>>

(* sync_pull(): another operator's state and ledger.                       *)
BeginPull(p) ==
    /\ kind[p] = "pull" /\ Begin(p)
    /\ Go(p, "record")
    /\ todo' = [todo EXCEPT ![p] = 1]
    /\ draft' = [draft EXCEPT ![p] = Ledger(shape, p, p)]
    /\ UNCHANGED <<shape, kind, target, fd, lock, fileVars, journal, acked, mishaps>>

-----------------------------------------------------------------------------
(* Mutant: takes the lock whoever has it.                                  *)
FlockUnguarded(p) ==
    /\ pc[p] = "lock"
    /\ lock' = p /\ Go(p, "record")
    /\ UNCHANGED <<shape, localVars, fileVars, journal, acked, mishaps, alone>>

Flock(p) ==
    /\ pc[p] = "lock"
    /\ \/ lock = NoProc /\ lock' = p /\ Go(p, "record")
       \/ lock # NoProc /\ Go(p, "locked") /\ UNCHANGED lock
    /\ UNCHANGED <<shape, localVars, fileVars, journal, acked, mishaps, alone>>

Unlock(p) ==
    /\ pc[p] = "unlock"
    /\ lock' = NoProc /\ Go(p, "record")
    /\ UNCHANGED <<shape, localVars, fileVars, journal, acked, mishaps, alone>>

-----------------------------------------------------------------------------
(* record_state() and record_snapshot().  Both see to the key file first.  *)

AfterKey(p) == IF todo[p] > 0 THEN "text" ELSE "open"

(* Mutant: the key is not recorded.                                        *)
EnsureKeyNever(p) ==
    /\ pc[p] = "record"
    /\ target' = [target EXCEPT ![p] = "snapshot"] /\ Go(p, AfterKey(p))
    /\ UNCHANGED <<shape, kind, todo, draft, fd, lock, fileVars, journal, acked, mishaps, alone>>

EnsureKey(p) ==
    /\ pc[p] = "record"
    /\ IF name["key"] = NoProc
       THEN target' = [target EXCEPT ![p] = "key"] /\ Go(p, "open")
       ELSE target' = [target EXCEPT ![p] = "snapshot"] /\ Go(p, AfterKey(p))
    /\ UNCHANGED <<shape, kind, todo, draft, fd, lock, fileVars, journal, acked, mishaps, alone>>

(* append_jsonl(): the text, then the newline.  A text may be cut short by *)
(* a full disk.                                                            *)
Put(text) == journal' = [journal EXCEPT !.open = Append(@, text)]

Text(p) ==
    /\ pc[p] = "text"
    /\ \/ /\ Put(Entry(p, todo[p])) /\ Go(p, "newline") /\ UNCHANGED lock
          /\ LET pulled == \E q \in Procs \ {p} :
                     pc[q] = "newline" /\ "pull" \in {kind[p], kind[q]}
             IN mishaps' = mishaps \cup IF pulled THEN {"pulled into"} ELSE {}
       \/ Put(Torn) /\ Fail(p) /\ mishaps' = mishaps \cup {"interrupted"}
       \/ Fail(p) /\ UNCHANGED <<journal, mishaps>>
    /\ UNCHANGED <<shape, localVars, fileVars, acked, alone>>

Parses(line) == Len(line) = 1 /\ line[1] # Torn

(* Mutant: counts one record too many.                                     *)
NewlineCountsTwice(p) ==
    /\ pc[p] = "newline"
    /\ journal' = [journal EXCEPT !.open = <<>>]
    /\ todo' = [todo EXCEPT ![p] = @ - 2]
    /\ Go(p, "record")
    /\ UNCHANGED <<shape, kind, draft, target, fd, lock, fileVars, acked, mishaps, alone>>

Newline(p) ==
    /\ pc[p] = "newline"
    /\ \/ /\ journal' = [garbled |-> journal.garbled \/ ~(journal.open = <<>> \/ Parses(journal.open)),
                         last |-> IF Parses(journal.open) THEN journal.open[1] ELSE journal.last,
                         open |-> <<>>]
          /\ acked' = Entry(p, todo[p])
          /\ todo' = [todo EXCEPT ![p] = @ - 1]
          /\ Go(p, IF todo[p] = 1 /\ kind[p] = "deploy" THEN "unlock" ELSE "record")
          /\ UNCHANGED <<lock, mishaps>>
       \/ Fail(p) /\ mishaps' = mishaps \cup {"interrupted"} /\ UNCHANGED <<journal, acked, todo>>
    /\ UNCHANGED <<shape, kind, draft, target, fd, fileVars, alone>>

-----------------------------------------------------------------------------
(* write_json_atomic().                                                    *)

Writing(q, t) == pc[q] \in {"write", "rename"} /\ target[q] = t

(* Mutant: writes the file in place.                                       *)
OpenInPlace(p) ==
    LET t == target[p]
        i == IF name[t] = NoProc THEN p ELSE name[t] IN
    /\ pc[p] = "open"
    /\ tmp' = [tmp EXCEPT ![t] = i] /\ name' = [name EXCEPT ![t] = i]
    /\ fd' = [fd EXCEPT ![p] = i]
    /\ content' = [content EXCEPT ![t][i] = Empty]
    /\ Go(p, "write")
    /\ UNCHANGED <<shape, kind, todo, draft, target, lock, journal, acked, mishaps, alone>>

(* The temporary file is created, or truncated if it is there.             *)
Open(p) ==
    LET t == target[p]
        i == IF tmp[t] = NoProc THEN p ELSE tmp[t] IN
    /\ pc[p] = "open"
    /\ \/ /\ tmp' = [tmp EXCEPT ![t] = i]
          /\ fd' = [fd EXCEPT ![p] = i]
          /\ content' = [content EXCEPT ![t][i] = Empty]
          /\ mishaps' = mishaps \cup
                IF \E q \in Procs \ {p} : Writing(q, t) THEN {"overlapped"} ELSE {}
          /\ Go(p, "write") /\ UNCHANGED lock
       \/ Fail(p) /\ UNCHANGED <<tmp, fd, content, mishaps>>
    /\ UNCHANGED <<shape, kind, todo, draft, target, name, journal, acked, alone>>

(* Writing over what another command wrote leaves the end of the longer.   *)
Overwrite(old, new) == IF old \in {Empty, new} THEN {new} ELSE {new, Garbled}

Value(p) == IF target[p] = "key" THEN NoLedger ELSE draft[p]

Write(p) ==
    LET old == content[target[p]][fd[p]] IN
    /\ pc[p] = "write"
    /\ \/ /\ \E new \in Overwrite(old, Whole(Value(p))) :
                content' = [content EXCEPT ![target[p]][fd[p]] = new]
          /\ Go(p, "rename") /\ UNCHANGED lock
       \/ content' = [content EXCEPT ![target[p]][fd[p]] = Garbled] /\ Fail(p)
    /\ UNCHANGED <<shape, localVars, name, tmp, journal, acked, mishaps, alone>>

(* The name moves to whatever file has the temporary name by now.          *)
Rename(p) ==
    LET t == target[p] IN
    /\ pc[p] = "rename"
    /\ \/ /\ tmp[t] # NoProc
          /\ name' = [name EXCEPT ![t] = tmp[t]]
          /\ tmp' = [tmp EXCEPT ![t] = NoProc]
          /\ target' = [target EXCEPT ![p] = "snapshot"]
          /\ Go(p, IF t = "key" THEN AfterKey(p) ELSE "done") /\ UNCHANGED lock
       \/ Fail(p) /\ UNCHANGED <<name, tmp, target>>
    /\ UNCHANGED <<shape, kind, todo, draft, fd, content, journal, acked, mishaps, alone>>

-----------------------------------------------------------------------------
(* The process dies; a call under way may be cut short.                    *)
Die(p) ==
    /\ Underway(p)
    /\ Fail(p)
    /\ \/ UNCHANGED <<journal, content>> /\ pc[p] # "newline" /\ UNCHANGED mishaps
       \/ /\ pc[p] \in {"text", "newline"}
          /\ mishaps' = mishaps \cup {"interrupted"}
          /\ IF pc[p] = "text" THEN Put(Torn) ELSE UNCHANGED journal
          /\ UNCHANGED content
       \/ /\ pc[p] = "write"
          /\ content' = [content EXCEPT ![target[p]][fd[p]] = Garbled]
          /\ UNCHANGED <<journal, mishaps>>
    /\ UNCHANGED <<shape, localVars, name, tmp, acked, alone>>

Step(p) ==
    \/ BeginDeploy(p) \/ BeginMigrate(p) \/ BeginPull(p) \/ Flock(p) \/ Unlock(p)
    \/ EnsureKey(p) \/ Text(p) \/ Newline(p) \/ Open(p) \/ Write(p) \/ Rename(p)

AllEnded == (\A p \in Procs : pc[p] \in Ended) /\ UNCHANGED sfVars

SFNext == (\E p \in Procs : Step(p) \/ Die(p)) \/ AllEnded

SFSpec == SFInit /\ [][SFNext]_sfVars

-----------------------------------------------------------------------------
(* Properties.                                                             *)

(* Every variable has its type. *)
SFTypeOK ==
    /\ <<shape, kind>> \in Mixes
    /\ pc \in [Procs -> Ended \cup {"start", "lock", "unlock", "record", "text", "newline",
                                    "open", "write", "rename"}]
    /\ todo \in [Procs -> Nat] /\ draft \in [Procs -> Ledgers]
    /\ target \in [Procs -> Targets] /\ fd \in [Procs -> Inodes \cup {NoProc}]
    /\ lock \in Procs \cup {NoProc}
    /\ {name, tmp} \subseteq [Targets -> Inodes \cup {NoProc}]
    /\ content \in [Targets -> [Inodes -> [status : {"empty", "garbled", "whole"}, ledger : Ledgers]]]
    /\ journal.garbled \in BOOLEAN /\ Len(journal.open) <= Cardinality(Procs)
    /\ mishaps \subseteq {"interrupted", "pulled into", "overlapped"}
    /\ alone \subseteq Procs

(* An append was cut short: the log keeps half a line, or a line without   *)
(* its newline, which the next append makes one line of two.               *)
Interrupted == "interrupted" \in mishaps

(* sync --pull appended between the text and the newline of another        *)
(* command, or the other way round.                                        *)
PulledInto == "pulled into" \in mishaps

(* Two commands were writing the same temporary file.                      *)
Overlapped == "overlapped" \in mishaps

(* "current_state returns the most recently recorded state for the pair":  *)
(* deploys keep out of each other's appends, so as long as none of them is *)
(* cut short and no pull falls into one, the whole log parses and its last *)
(* finished line is the one whose recording returned last.                 *)
JournalReadable ==
    ~Interrupted /\ ~PulledInto =>
        /\ ~journal.garbled
        /\ journal.open # <<>> => Parses(journal.open)
        /\ journal.last = acked

(* "rename over the target so a reader never observes a half-written       *)
(* snapshot" (write_json_atomic): whichever command fails or dies at       *)
(* whichever call, and with the temporary file of a dead one in the way,   *)
(* the snapshot and the key parse, as long as no two commands write at the *)
(* same time.                                                              *)
NamesAreWhole ==
    ~Overlapped =>
        \A t \in Targets : name[t] # NoProc => content[t][name[t]].status = "whole"

(* keys() enumerates "every deploy key this store has recorded state or a  *)
(* snapshot for": nothing is in the store before its key is.               *)
RecordedIsListed ==
    ~Absent \/ journal # [garbled |-> FALSE, last |-> NoEntry, open |-> <<>>] =>
        name["key"] # NoProc

(* A successful `db migrate` whose ledger write is the step.               *)
Migrates(p) == kind[p] = "migrate" /\ pc[p] = "rename" /\ pc'[p] = "done"

Keeps(p) ==
    Migrates(p) /\ ~Absent /\ Snapshot.status = "whole" =>
        Snapshot'.ledger.active = Snapshot.ledger.active

(* "preserving the active artifact a prior deploy recorded"                *)
(* (record_ledger_revision).                                               *)
MigrateKeepsRelease == [][\A p \in Procs : Keeps(p)]_sfVars

(* That holds of a single-host ledger when no other command was under way. *)
MigrateKeepsReleaseAlone ==
    [][\A p \in alone : shape = "single" => Keeps(p)]_sfVars

(* What was recorded can be read back: the journal, the two files that are *)
(* replaced whole, and the enumeration of the keys.                        *)
StoreIsReadable == SFTypeOK /\ JournalReadable /\ NamesAreWhole /\ RecordedIsListed
=============================================================================
