-------------------------- MODULE Archives_proofs --------------------------
(***************************************************************************)
(* Proofs about the archive directory for any number of backups, however   *)
(* long the clock runs and whatever the policies and the drill's limits.   *)
(***************************************************************************)
EXTENDS Archives, WellFoundedInduction, TLAPS

USE ArchivesAssumption

Archive == [size : Nat, whole : BOOLEAN, fit : BOOLEAN, bad : BOOLEAN]
Newest == {0} \cup {Max(S) : S \in SUBSET Stamps}
BackupRuns == [at : {"idle", "dump", "verify", "persist"}, stamp : Nat, prev : Newest, file : Archive]

(* The directory, the clock and the backups have their types. *)
DirOK ==
    /\ now \in Stamps /\ reader \in BOOLEAN
    /\ dir \in [Stamps -> Archive]
    /\ backup \in [Dumpers -> BackupRuns]

(* A backup at work owns the partial file of its stamp, alone, and what it *)
(* carries past pg_dump is whole; only what was judged may be persisted.   *)
BackupOK(b) ==
    LET me == backup[b] IN
    /\ me.at # "idle" => me.stamp \in partials /\ me.stamp \in Stamps
    /\ me.at \in {"verify", "persist"} => me.file.whole /\ me.file.size > 0 /\ ~me.file.bad

Apart(b, c) ==
    b # c /\ backup[b].at # "idle" /\ backup[c].at # "idle" => backup[b].stamp # backup[c].stamp

DirInv ==
    /\ DirOK
    /\ \A b \in Dumpers : BackupOK(b)
    /\ \A b, c \in Dumpers : Apart(b, c)
    /\ \A s \in Stamps : dir[s].size > 0 => dir[s].whole /\ ~dir[s].bad

(* An empty directory, and nobody at work. *)
LEMMA DirInit == ArchInit => DirInv
<1> SUFFICES ASSUME ArchInit PROVE DirInv
  BY Zenon
<1>1. NoFile \in Archive
  BY Zenon DEF NoFile, Archive
<1>2. NoBackup \in BackupRuns
  BY <1>1, Zenon DEF NoBackup, BackupRuns, Newest
<1>3. DirOK
  BY <1>1, <1>2 DEF ArchInit, DirOK, Stamps
<1>4. \A b \in Dumpers : backup[b].at = "idle"
  BY Zenon DEF ArchInit, NoBackup
<1>5. \A s \in Stamps : dir[s].size = 0
  BY Zenon DEF ArchInit, NoFile
<1> QED
  BY <1>3, <1>4, <1>5 DEF DirInv, BackupOK, Apart

(* The backups keep the invariant when nobody touches what it is about. *)
LEMMA DirQuiet ==
  ASSUME DirInv, now' \in Stamps, reader' \in BOOLEAN, UNCHANGED <<dir, partials, backup>>
  PROVE  DirInv'
BY Zenon DEF DirInv, DirOK, BackupOK, Apart

(* A backup that gives up lets go of its own partial file only. *)
LEMMA DirGiveUp ==
  ASSUME DirInv, NEW b \in Dumpers, GiveUp(b), backup[b].at # "idle",
         UNCHANGED <<now, reader>>,
         dir' \in [Stamps -> Archive],
         \A s \in Stamps : dir'[s].size > 0 => dir'[s].whole /\ ~dir'[s].bad
  PROVE  DirInv'
<1>1. NoFile \in Archive
  BY Zenon DEF NoFile, Archive
<1>2. NoBackup \in BackupRuns
  BY <1>1, Zenon DEF NoBackup, BackupRuns, Newest
<1>3. backup' \in [Dumpers -> BackupRuns]
  BY <1>2, Zenon DEF GiveUp, DirInv, DirOK
<1>4. backup'[b].at = "idle" /\ \A c \in Dumpers \ {b} : backup'[c] = backup[c]
  BY Zenon DEF GiveUp, DirInv, DirOK, NoBackup
<1>5. DirOK'
  BY <1>3, Zenon DEF DirInv, DirOK
<1>6. ASSUME NEW c \in Dumpers PROVE BackupOK(c)'
  <2>1. CASE c = b
    BY <2>1, <1>4, ZenonT(30) DEF BackupOK
  <2>2. CASE c # b
    <3>1. BackupOK(c) /\ Apart(c, b) /\ backup'[c] = backup[c]
      BY <2>2, <1>4, ZenonT(30) DEF DirInv
    <3>2. backup[c].at # "idle" => backup[c].stamp \in partials'
      BY <3>1, <2>2, ZenonT(30) DEF Apart, BackupOK, GiveUp
    <3> QED
      BY <3>1, <3>2, ZenonT(30) DEF BackupOK
  <2> QED
    BY <2>1, <2>2, ZenonT(30)
<1>7. ASSUME NEW c \in Dumpers, NEW d \in Dumpers PROVE Apart(c, d)'
  BY <1>4, c = b \/ c # b, d = b \/ d # b, ZenonT(30) DEF Apart, DirInv
<1> QED
  BY <1>5, <1>6, <1>7, ZenonT(30) DEF DirInv

(* A backup that goes on keeps its stamp. *)
LEMMA DirGoesOn ==
  ASSUME DirInv, NEW b \in Dumpers, NEW me \in BackupRuns, backup[b].at # "idle",
         backup' = [backup EXCEPT ![b] = me], me.stamp = backup[b].stamp,
         me.at \in {"verify", "persist"}, me.file.whole, me.file.size > 0, ~me.file.bad,
         UNCHANGED <<now, reader, dir, partials>>
  PROVE  DirInv'
<1>1. backup' \in [Dumpers -> BackupRuns]
  BY Zenon DEF DirInv, DirOK
<1>2. backup'[b] = me /\ \A c \in Dumpers \ {b} : backup'[c] = backup[c]
  BY Zenon DEF DirInv, DirOK
<1>3. DirOK'
  BY <1>1, ZenonT(30) DEF DirInv, DirOK
<1>4. ASSUME NEW c \in Dumpers PROVE BackupOK(c)'
  BY <1>2, c = b \/ c # b DEF DirInv, BackupOK
<1>5. ASSUME NEW c \in Dumpers, NEW d \in Dumpers PROVE Apart(c, d)'
  BY <1>2, c = b \/ c # b, d = b \/ d # b DEF Apart, DirInv
<1> QED
  BY <1>3, <1>4, <1>5, ZenonT(30) DEF DirInv

(* The four steps of a backup, and its death. *)
LEMMA DirClaim ==
  ASSUME DirInv, NEW b \in Dumpers, Claim(b)
  PROVE  DirInv'
<1> DEFINE me == [NoBackup EXCEPT !.at = "dump", !.stamp = now, !.prev = Latest]
<1>1. now \in Stamps /\ Stamps \subseteq Nat
  BY DEF DirInv, DirOK, Stamps
<1>2. me \in BackupRuns
  <2>1. Latest \in Newest
    BY Zenon DEF Latest, Listed, Newest
  <2>2. NoFile \in Archive
    BY Zenon DEF NoFile, Archive
  <2> QED
    BY <2>1, <2>2, <1>1, ZenonT(30) DEF NoBackup, BackupRuns
<1>3. me.stamp = now /\ me.at = "dump"
  BY Zenon DEF NoBackup
<1> HIDE DEF me
<1>4. backup' \in [Dumpers -> BackupRuns]
  BY <1>2, ZenonT(30) DEF Claim, DirInv, DirOK, me
<1>5. backup'[b] = me /\ \A c \in Dumpers \ {b} : backup'[c] = backup[c]
  BY Zenon DEF Claim, DirInv, DirOK, me
<1>6. DirOK'
  BY <1>4, ZenonT(30) DEF Claim, DirInv, DirOK
<1>7. ASSUME NEW c \in Dumpers PROVE BackupOK(c)'
  BY <1>1, <1>3, <1>5, c = b \/ c # b, SMTT(30) DEF Claim, DirInv, BackupOK
<1>8. ASSUME NEW c \in Dumpers, NEW d \in Dumpers PROVE Apart(c, d)'
  BY <1>3, <1>5, c = b \/ c # b, d = b \/ d # b, SMTT(30) DEF Claim, DirInv, BackupOK, Apart
<1> QED
  BY <1>6, <1>7, <1>8, ZenonT(30) DEF DirInv, Claim

(* A failed dump gives up; one that went on carries something whole. *)
LEMMA DirDump ==
  ASSUME DirInv, NEW b \in Dumpers, NEW f \in Files, Dump(b, f)
  PROVE  DirInv'
<1>1. CASE ~f.whole
  BY <1>1, DirGiveUp, ZenonT(30) DEF Dump, DirInv, DirOK
<1>2. CASE f.whole
  <2> DEFINE me == [backup[b] EXCEPT !.at = "verify", !.file = f]
  <2>1. f \in Archive /\ f.size > 0 /\ ~f.bad
    <3> DEFINE Some == IF cast = "drill" THEN {1} ELSE Sizes
    <3>1. Some \subseteq Nat \ {0}
      BY DEF Sizes
    <3>2. f \in [size : Some, whole : BOOLEAN, fit : BOOLEAN, bad : {FALSE}]
      BY Zenon DEF Files
    <3> HIDE DEF Some
    <3>3. f.size \in Some /\ f.bad = FALSE
      BY <3>2, ZenonT(30)
    <3>4. f \in Archive
      BY <3>1, <3>2, ZenonT(30) DEF Archive
    <3>5. f.size \in Nat \ {0}
      BY <3>1, <3>3, ZenonT(30)
    <3>6. f.size > 0
      BY <3>5
    <3> QED
      BY <3>3, <3>4, <3>6, ZenonT(30)
  <2>2. backup[b] \in BackupRuns /\ backup[b].at # "idle"
    BY Zenon DEF DirInv, DirOK, Dump
  <2>3. me \in BackupRuns /\ me.stamp = backup[b].stamp /\ me.at = "verify" /\ me.file = f
    BY <2>1, <2>2, ZenonT(30) DEF BackupRuns
  <2>4. backup' = [backup EXCEPT ![b] = me] /\ UNCHANGED <<now, reader, dir, partials>>
    BY <1>2, <2>2, ZenonT(30) DEF Dump, DirInv, DirOK
  <2> HIDE DEF me
  <2> QED
    BY <1>2, <2>1, <2>2, <2>3, <2>4, DirGoesOn, ZenonT(30)
<1> QED
  BY <1>1, <1>2, ZenonT(30)

(* What pg_restore cannot read is given up before it is persisted. *)
LEMMA DirVerify ==
  ASSUME DirInv, NEW b \in Dumpers, VerifyDump(b)
  PROVE  DirInv'
<1>1. CASE Verdict(backup[b].file) = "invalid"
  BY <1>1, DirGiveUp, ZenonT(30) DEF VerifyDump, DirInv, DirOK
<1>2. CASE Verdict(backup[b].file) # "invalid"
  <2> DEFINE old == backup[b].file
  <2> DEFINE me == [backup[b] EXCEPT !.at = "persist", !.file.bad = reader /\ ~old.fit]
  <2>1. backup[b] \in BackupRuns /\ old \in Archive /\ old.whole /\ old.size > 0 /\ reader \in BOOLEAN
    BY Zenon DEF DirInv, DirOK, BackupOK, BackupRuns, VerifyDump
  <2>2. ~(reader /\ ~old.fit)
    BY <1>2, <2>1, SMTT(30) DEF Verdict, Archive
  <2>3. me \in BackupRuns /\ me.stamp = backup[b].stamp /\ me.at = "persist"
    BY <2>1, Zenon DEF BackupRuns, Archive
  <2>4. me.file.whole /\ me.file.size > 0 /\ ~me.file.bad
    BY <2>1, <2>2, ZenonT(30) DEF BackupRuns, Archive
  <2>5. /\ backup' = [backup EXCEPT ![b] = me]
        /\ backup[b].at # "idle" /\ UNCHANGED <<now, reader, dir, partials>>
    BY <1>2, <2>1, ZenonT(30) DEF VerifyDump, DirInv, DirOK
  <2> HIDE DEF me
  <2> QED
    BY <2>3, <2>4, <2>5, DirGoesOn, ZenonT(30)
<1> QED
  BY <1>1, <1>2, ZenonT(30)

(* A rename puts a whole archive under the backup's own stamp. *)
LEMMA DirPersist ==
  ASSUME DirInv, NEW b \in Dumpers, Persist(b)
  PROVE  DirInv'
<1> DEFINE me == backup[b]
<1>1. me.at = "persist" /\ GiveUp(b) /\ UNCHANGED <<now, reader>>
  BY Zenon DEF Persist
<1>2. me.file \in Archive /\ me.file.whole /\ ~me.file.bad /\ me.stamp \in Stamps
  BY <1>1, Zenon DEF DirInv, DirOK, BackupOK, BackupRuns
<1>3. dir' = dir \/ dir' = [dir EXCEPT ![me.stamp] = me.file]
  BY Zenon DEF Persist
<1>4. /\ dir' \in [Stamps -> Archive]
      /\ \A s \in Stamps : dir'[s].size > 0 => dir'[s].whole /\ ~dir'[s].bad
  BY <1>2, <1>3, ZenonT(30) DEF DirInv, DirOK
<1> QED
  BY <1>1, <1>4, DirGiveUp, ZenonT(30)

(* A killed backup leaves its partial file, and is at work no more. *)
LEMMA DirDies ==
  ASSUME DirInv, NEW b \in Dumpers, BackupDies(b)
  PROVE  DirInv'
<1>1. NoBackup \in BackupRuns
  BY Zenon DEF NoBackup, NoFile, Archive, BackupRuns, Newest
<1>2. backup' \in [Dumpers -> BackupRuns]
  BY <1>1, ZenonT(30) DEF BackupDies, DirInv, DirOK
<1>3. backup'[b].at = "idle" /\ \A c \in Dumpers \ {b} : backup'[c] = backup[c]
  BY Zenon DEF BackupDies, DirInv, DirOK, NoBackup
<1>4. DirOK'
  BY <1>2, ZenonT(30) DEF BackupDies, DirInv, DirOK
<1>5. ASSUME NEW c \in Dumpers PROVE BackupOK(c)'
  BY <1>3, c = b \/ c # b, SMTT(30) DEF BackupDies, DirInv, BackupOK
<1>6. ASSUME NEW c \in Dumpers, NEW d \in Dumpers PROVE Apart(c, d)'
  BY <1>3, c = b \/ c # b, d = b \/ d # b, ZenonT(30) DEF Apart, DirInv
<1> QED
  BY <1>4, <1>5, <1>6, ZenonT(30) DEF DirInv, BackupDies

(* A prune only empties names, and rot only takes readability away. *)
LEMMA DirRemoved ==
  ASSUME DirInv, NEW s \in Stamps, NEW gone \in BOOLEAN, RemoveOne(s, gone)
  PROVE  DirInv'
<1>1. NoFile \in Archive /\ NoFile.size = 0
  BY Zenon DEF NoFile, Archive
<1>2. dir' = dir \/ dir' = [dir EXCEPT ![s] = NoFile]
  BY Zenon DEF RemoveOne
<1>3. /\ dir' \in [Stamps -> Archive]
      /\ \A t \in Stamps : dir'[t].size > 0 => dir'[t].whole /\ ~dir'[t].bad
  BY <1>1, <1>2, SMTT(30) DEF DirInv, DirOK
<1>4. UNCHANGED <<now, reader, partials, backup>>
  BY Zenon DEF RemoveOne
<1> QED
  BY <1>3, <1>4, ZenonT(30) DEF DirInv, DirOK, BackupOK, Apart

(* Rot takes the fitness of an archive, not what was written. *)
LEMMA DirRots ==
  ASSUME DirInv, NEW s \in Stamps, Rots(s)
  PROVE  DirInv'
<1> DEFINE f == [dir[s] EXCEPT !.fit = FALSE]
<1>1. dir[s] \in Archive
  BY Zenon DEF DirInv, DirOK
<1>2. f \in Archive /\ f.size = dir[s].size /\ f.whole = dir[s].whole /\ f.bad = dir[s].bad
  BY <1>1, ZenonT(30) DEF Archive
<1>3. dir' = [dir EXCEPT ![s] = f]
  BY Zenon DEF Rots, DirInv, DirOK
<1> HIDE DEF f
<1>4. /\ dir' \in [Stamps -> Archive]
      /\ \A t \in Stamps : dir'[t].size > 0 => dir'[t].whole /\ ~dir'[t].bad
  BY <1>2, <1>3, ZenonT(30) DEF DirInv, DirOK
<1>5. UNCHANGED <<now, reader, partials, backup>>
  BY Zenon DEF Rots
<1> QED
  BY <1>4, <1>5, ZenonT(30) DEF DirInv, DirOK, BackupOK, Apart

(* Every step keeps the directory's invariant. *)
LEMMA DirNext == DirInv /\ [ArchNext]_archVars => DirInv'
<1> SUFFICES ASSUME DirInv, [ArchNext]_archVars PROVE DirInv'
  BY Zenon
<1>1. CASE UNCHANGED archVars
  BY <1>1, DirQuiet, ZenonT(30) DEF archVars, DirInv, DirOK
<1>2. ASSUME NEW b \in Dumpers,
             Claim(b) \/ VerifyDump(b) \/ Persist(b) \/ BackupDies(b) \/ \E f \in Files : Dump(b, f)
      PROVE  DirInv'
  BY <1>2, DirClaim, DirVerify, DirPersist, DirDies, DirDump, ZenonT(30)
<1>3. ASSUME NEW s \in Stamps, NEW gone \in BOOLEAN, RemoveOne(s, gone) \/ Rots(s)
      PROVE  DirInv'
  BY <1>3, DirRemoved, DirRots, ZenonT(30)
<1>4. CASE /\ UNCHANGED <<dir, partials, backup>>
           /\ now' \in Stamps /\ reader' \in BOOLEAN
  BY <1>4, DirQuiet, ZenonT(30)
<1>5. now \in Stamps /\ reader \in BOOLEAN
  BY Zenon DEF DirInv, DirOK
<1>6. CASE Tick \/ ClockSetBack \/ ReaderInstalled
  <2>1. UNCHANGED <<dir, partials, backup>>
    BY <1>6, ZenonT(30) DEF Tick, ClockSetBack, ReaderInstalled
  <2>2. reader' \in BOOLEAN
    BY <1>5, <1>6, ZenonT(30) DEF Tick, ClockSetBack, ReaderInstalled
  <2>3. now' \in Stamps
    <3>1. CASE Tick
      BY <3>1, <1>5, SMTT(30) DEF Tick, Stamps
    <3>2. CASE ClockSetBack
      BY <3>2 DEF ClockSetBack, Stamps
    <3>3. CASE ReaderInstalled
      BY <3>3, <1>5, ZenonT(30) DEF ReaderInstalled
    <3> QED
      BY <1>6, <3>1, <3>2, <3>3, ZenonT(30)
  <2> QED
    BY <2>1, <2>2, <2>3, <1>4, ZenonT(30)
<1>7. CASE \/ PruneLocks \/ PruneEnds \/ \E pol \in Policies : PlanEntry(pol)
           \/ \E s \in Stamps : DeployLocks(s)
           \/ DeployEnds \/ Pick \/ CheckPick \/ DrillDies
           \/ \E ok \in BOOLEAN : RoomAndCreate(ok) \/ MigrateCopy(ok) \/ Teardown(ok) \/ Report(ok)
           \/ \E ok \in BOOLEAN, n \in 0..MinTables : Fill(ok, n)
  <2>1. UNCHANGED <<now, reader, dir, partials, backup>>
    BY <1>7, ZenonT(30)
    DEF PruneLocks, PruneEnds, PlanEntry, DeployLocks, DeployEnds, Pick, CheckPick,
       DrillDies, RoomAndCreate, MigrateCopy, Teardown, Report, Fill
  <2> QED
    BY <2>1, <1>4, <1>5, ZenonT(30)
<1> QED
  BY <1>1, <1>2, <1>3, <1>6, <1>7, ZenonT(30) DEF ArchNext

(* write_archive, for any number of backups beside any prunes, drills and  *)
(* deploys, on whichever clock: what stands under a final name is whole,   *)
(* was not judged unreadable, and is nobody else's.                        *)
THEOREM WholeArchives == ArchSpec => []ArchivesAreWhole
<1>1. DirInv => ArchivesAreWhole
  BY Zenon DEF DirInv, Apart, ArchivesAreWhole, Listed
<1> QED
  BY <1>1, DirInit, DirNext, PTL DEF ArchSpec

-----------------------------------------------------------------------------
(* The drill. *)

DrillPlaces == {"idle", "verify", "room", "fill", "migrate", "teardown", "report", "done"}
DrillRuns == [at : DrillPlaces, pick : Nat, began : Nat, failed : BOOLEAN, warn : BOOLEAN]
Copies == [made : BOOLEAN, from : Nat, tables : Nat, migrated : BOOLEAN]

(* The pick passed the check of its age, and the copy is what was asked.   *)
Recent == drill.began - drill.pick <= MaxAge /\ drill.pick - drill.began <= Skew
Proven == copy.from = drill.pick /\ copy.migrated /\ copy.tables >= MinTables

DrillInv ==
    /\ drill \in DrillRuns /\ copy \in Copies
    /\ drill.at \in {"room", "fill", "migrate"} => Recent
    /\ drill.at = "migrate" => copy.from = drill.pick
    /\ drill.at \in {"teardown", "report"} /\ ~drill.failed => Recent /\ Proven
    /\ drill.at = "report" /\ ~drill.failed /\ copy.made => drill.warn
    /\ DrillVouches

(* The newest of some archives is one of them. *)
LEMMA LatestIs == Latest \in Nat
<1>1. CASE Listed = {}
  BY <1>1, ZenonT(30) DEF Latest
<1>2. CASE Listed # {}
  <2> DEFINE T == {MaxTime - s : s \in Listed}
  <2>1. Listed \subseteq 1..MaxTime
    BY Zenon DEF Listed, Stamps
  <2>2. T \subseteq Nat /\ T # {}
    <3>1. \A s \in Listed : MaxTime - s \in Nat
      BY <2>1
    <3> QED
      BY <3>1, <1>2, ZenonT(30)
  <2>3. \E x \in T : \A y \in T : ~(<<y, x>> \in OpToRel(<, Nat))
    BY <2>2, WFMin, NatLessThanWellFounded, ZenonT(30)
  <2>4. PICK x \in T : \A y \in T : ~(y < x)
    BY <2>2, <2>3, ZenonT(30) DEF OpToRel
  <2>5. PICK m \in Listed : x = MaxTime - m
    BY <2>4, ZenonT(30)
  <2>6. \A s \in Listed : m >= s
    <3> SUFFICES ASSUME NEW s \in Listed PROVE m >= s
      BY Zenon
    <3>1. s \in Nat /\ m \in Nat /\ MaxTime \in Nat
      BY <2>1, <2>5, SMTT(30)
    <3>2. ~(MaxTime - s < MaxTime - m)
      BY <2>4, <2>5, ZenonT(30)
    <3> QED
      BY <3>1, <3>2, SMTT(30)
  <2>7. Max(Listed) \in Listed
    BY <2>6, ZenonT(30) DEF Max
  <2>8. Max(Listed) \in Nat
    <3>1. \A s \in Listed : s \in Nat
      BY <2>1
    <3> HIDE DEF Listed
    <3> QED
      BY <3>1, <2>7, ZenonT(30)
  <2> QED
    BY <1>2, <2>8, ZenonT(30) DEF Latest
<1> QED
  BY <1>1, <1>2, ZenonT(30)

(* A drill that is over, and no copy. *)
LEMMA NothingDrilled ==
    /\ NoCopy \in Copies /\ [NoCopy EXCEPT !.made = TRUE] \in Copies
    /\ [NoDrill EXCEPT !.at = "done"] \in DrillRuns /\ [NoDrill EXCEPT !.at = "done"].at = "done"
<1>1. NoCopy \in Copies
  BY Zenon DEF NoCopy, Copies
<1>2. [NoCopy EXCEPT !.made = TRUE] \in Copies
  BY <1>1, ZenonT(30) DEF Copies
<1>3. NoDrill \in DrillRuns
  BY Zenon DEF NoDrill, DrillRuns, DrillPlaces
<1>4. /\ [NoDrill EXCEPT !.at = "done"] \in DrillRuns
      /\ [NoDrill EXCEPT !.at = "done"].at = "done"
  BY <1>3, ZenonT(30) DEF DrillRuns, DrillPlaces
<1> QED
  BY <1>1, <1>2, <1>4, ZenonT(30)

(* Nothing was drilled. *)
LEMMA DrillInit == ArchInit => DrillInv
<1> SUFFICES ASSUME ArchInit PROVE DrillInv
  BY Zenon
<1>1. drill \in DrillRuns /\ drill.at = "idle"
  BY Zenon DEF ArchInit, NoDrill, DrillRuns, DrillPlaces
<1>2. copy \in Copies
  BY Zenon DEF ArchInit, NoCopy, Copies
<1>3. DrillVouches
  BY Zenon DEF ArchInit, NoReceipt, DrillVouches
<1> QED
  BY <1>1, <1>2, <1>3, ZenonT(30) DEF DrillInv

(* A drill starts on the newest archive, or fails for want of one. *)
LEMMA DrillPick ==
  ASSUME DirInv, DrillInv, Pick
  PROVE  DrillInv'
<1>1. now \in Nat
  BY DEF DirInv, DirOK, Stamps
<1>2. /\ drill'.at \in {"report", "verify"} /\ (drill'.at = "report" => drill'.failed)
      /\ drill' \in DrillRuns
  BY <1>1, LatestIs, ZenonT(30) DEF Pick, NoDrill, DrillRuns, DrillPlaces
<1> QED
  BY <1>2, ZenonT(30) DEF Pick, DrillInv, DrillVouches

(* A pick that passes the check is recent. *)
LEMMA DrillCheck ==
  ASSUME DrillInv, CheckPick
  PROVE  DrillInv'
<1>1. drill \in DrillRuns /\ UNCHANGED <<copy, receipt>>
  BY Zenon DEF DrillInv, CheckPick
<1>2. CASE DrillRefuses(drill)
  <2>1. drill' \in DrillRuns /\ drill'.at = "report" /\ drill'.failed
    BY <1>1, <1>2, ZenonT(30) DEF CheckPick, DrillRuns, DrillPlaces
  <2> QED
    BY <1>1, <2>1, ZenonT(30) DEF DrillInv, DrillVouches
<1>3. CASE ~DrillRefuses(drill)
  <2>1. /\ drill' \in DrillRuns /\ drill'.at = "room"
        /\ drill'.pick = drill.pick /\ drill'.began = drill.began
    BY <1>1, <1>3, ZenonT(30) DEF CheckPick, DrillRuns, DrillPlaces
  <2>2. Recent
    BY <1>1, <1>3, SMTT(30) DEF DrillRefuses, InFuture, TooOld, Recent, DrillRuns
  <2> QED
    BY <1>1, <2>1, <2>2, ZenonT(30) DEF DrillInv, DrillVouches, Recent
<1> QED
  BY <1>2, <1>3, ZenonT(30)

(* Making room creates an empty copy, or fails the drill. *)
LEMMA DrillRoom ==
  ASSUME DrillInv, NEW ok \in BOOLEAN, RoomAndCreate(ok)
  PROVE  DrillInv'
<1>1. drill \in DrillRuns /\ copy \in Copies /\ Recent /\ UNCHANGED receipt
  BY Zenon DEF DrillInv, RoomAndCreate
<1>2. CASE ok /\ Verdict(dir[drill.pick]) = "valid"
  <2>1. /\ drill' \in DrillRuns /\ drill'.at = "fill"
        /\ drill'.pick = drill.pick /\ drill'.began = drill.began
    BY <1>1, <1>2, ZenonT(30) DEF RoomAndCreate, DrillRuns, DrillPlaces
  <2>2. copy' \in Copies
    BY <1>2, NothingDrilled, ZenonT(30) DEF RoomAndCreate
  <2> QED
    BY <1>1, <2>1, <2>2, ZenonT(30) DEF DrillInv, DrillVouches, Recent
<1>3. CASE ~(ok /\ Verdict(dir[drill.pick]) = "valid")
  <2>1. drill' \in DrillRuns /\ drill'.at = "report" /\ drill'.failed /\ copy' = copy
    BY <1>1, <1>3, ZenonT(30) DEF RoomAndCreate, DrillRuns, DrillPlaces
  <2> QED
    BY <1>1, <2>1, ZenonT(30) DEF DrillInv, DrillVouches
<1> QED
  BY <1>2, <1>3, ZenonT(30)

(* A restore that went well fills the copy from the pick. *)
LEMMA DrillFill ==
  ASSUME DrillInv, NEW ok \in BOOLEAN, NEW n \in 0..MinTables, Fill(ok, n)
  PROVE  DrillInv'
<1>1. drill \in DrillRuns /\ copy \in Copies /\ Recent /\ UNCHANGED receipt
  BY Zenon DEF DrillInv, Fill
<1>2. CASE ok /\ Verdict(dir[drill.pick]) = "valid"
  <2>1. /\ drill' \in DrillRuns /\ drill'.at = "migrate"
        /\ drill'.pick = drill.pick /\ drill'.began = drill.began
    BY <1>1, <1>2, ZenonT(30) DEF Fill, DrillRuns, DrillPlaces
  <2>2. copy' \in Copies /\ copy'.from = drill.pick
    <3>1. copy' = [copy EXCEPT !.from = drill.pick, !.tables = n] /\ n \in Nat
      BY <1>2 DEF Fill
    <3>2. drill.pick \in Nat
      BY <1>1, ZenonT(30) DEF DrillRuns
    <3> QED
      BY <1>1, <3>1, <3>2, ZenonT(30) DEF Copies
  <2> QED
    BY <1>1, <2>1, <2>2, ZenonT(30) DEF DrillInv, DrillVouches, Recent
<1>3. CASE ~(ok /\ Verdict(dir[drill.pick]) = "valid")
  <2>1. drill' \in DrillRuns /\ drill'.at = "teardown" /\ drill'.failed /\ copy' = copy
    BY <1>1, <1>3, ZenonT(30) DEF Fill, DrillRuns, DrillPlaces
  <2> QED
    BY <1>1, <2>1, ZenonT(30) DEF DrillInv, DrillVouches
<1> QED
  BY <1>2, <1>3, ZenonT(30)

(* A drill that is not failed by its migrations or its count is proven. *)
LEMMA DrillMigrate ==
  ASSUME DrillInv, NEW ok \in BOOLEAN, MigrateCopy(ok)
  PROVE  DrillInv'
<1>1. /\ drill \in DrillRuns /\ copy \in Copies /\ Recent /\ copy.from = drill.pick
      /\ UNCHANGED receipt
  BY Zenon DEF DrillInv, MigrateCopy
<1>2. /\ drill' \in DrillRuns /\ drill'.at = "teardown"
      /\ drill'.pick = drill.pick /\ drill'.began = drill.began
      /\ drill'.failed = (~ok \/ copy.tables < MinTables)
  BY <1>1, ZenonT(30) DEF MigrateCopy, DrillRuns, DrillPlaces
<1>3. /\ copy' \in Copies /\ copy'.from = copy.from /\ copy'.migrated = ok
      /\ copy'.tables = copy.tables /\ copy.tables \in Nat
  BY <1>1, ZenonT(30) DEF MigrateCopy, Copies
<1>4. ~drill'.failed => copy'.migrated /\ copy'.tables >= MinTables
  <2>1. ~drill'.failed => ok /\ ~(copy.tables < MinTables)
    BY <1>2, ZenonT(30)
  <2> QED
    BY <1>3, <2>1, SMTT(30)
<1>5. Recent' /\ copy'.from = drill'.pick
  BY <1>1, <1>2, <1>3, ZenonT(30) DEF Recent
<1> QED
  BY <1>1, <1>2, <1>3, <1>4, <1>5, ZenonT(30) DEF DrillInv, DrillVouches, Proven

(* A throwaway that is not dropped is a warning of a passing drill. *)
LEMMA DrillTeardown ==
  ASSUME DrillInv, NEW dropped \in BOOLEAN, Teardown(dropped)
  PROVE  DrillInv'
<1>1. /\ drill \in DrillRuns /\ copy \in Copies /\ UNCHANGED receipt
      /\ ~drill.failed => Recent /\ Proven
  BY Zenon DEF DrillInv, Teardown
<1>2. /\ drill' \in DrillRuns /\ drill'.at = "report"
      /\ drill'.pick = drill.pick /\ drill'.began = drill.began /\ drill'.failed = drill.failed
      /\ drill'.warn = (~dropped /\ ~drill.failed)
  BY <1>1, ZenonT(30) DEF Teardown, DrillRuns, DrillPlaces
<1>3. /\ copy' \in Copies /\ copy'.from = copy.from /\ copy'.migrated = copy.migrated
      /\ copy'.tables = copy.tables /\ copy'.made = ~dropped
  BY <1>1, ZenonT(30) DEF Teardown, Copies
<1> QED
  BY <1>1, <1>2, <1>3, ZenonT(30) DEF DrillInv, DrillVouches, Recent, Proven

(* The receipt says what the drill found. *)
LEMMA DrillReport ==
  ASSUME DrillInv, NEW written \in BOOLEAN, Report(written)
  PROVE  DrillInv'
<1>1. /\ drill.failed \in BOOLEAN
      /\ ~drill.failed => Recent /\ Proven
      /\ ~drill.failed /\ copy.made => drill.warn
  BY Zenon DEF DrillInv, Report, DrillRuns
<1>2. DrillVouches'
  <2>1. CASE ~written
    BY <2>1, ZenonT(30) DEF Report, DrillInv, DrillVouches
  <2>2. CASE written
    <3>1. /\ receipt'.ok = ~drill.failed /\ receipt'.pick = drill.pick
          /\ receipt'.began = drill.began /\ receipt'.warn = drill.warn /\ receipt'.of = copy
      BY <2>2, ZenonT(30) DEF Report
    <3>2. CASE drill.failed
      BY <3>1, <3>2, <1>1, ZenonT(30) DEF DrillVouches
    <3>3. CASE ~drill.failed
      <4>1. Recent /\ Proven /\ (copy.made => drill.warn)
        BY <1>1, <3>3, ZenonT(30)
      <4> QED
        BY <3>1, <4>1, ZenonT(30) DEF DrillVouches, Recent, Proven
    <3> QED
      BY <3>2, <3>3, ZenonT(30)
  <2> QED
    BY <2>1, <2>2, ZenonT(30)
<1>3. drill' \in DrillRuns /\ drill'.at = "done" /\ copy' \in Copies
  BY NothingDrilled, ZenonT(30) DEF Report
<1> QED
  BY <1>2, <1>3, ZenonT(30) DEF DrillInv

(* Every step keeps the drill's invariant. *)
LEMMA DrillNext == DirInv /\ DrillInv /\ [ArchNext]_archVars => DrillInv'
<1> SUFFICES ASSUME DirInv, DrillInv, [ArchNext]_archVars PROVE DrillInv'
  BY Zenon
<1>1. CASE UNCHANGED <<drill, copy, receipt>>
  BY <1>1, ZenonT(30) DEF DrillInv, DrillVouches, Recent, Proven
<1>2. CASE DrillDies
  <2>1. drill' \in DrillRuns /\ drill'.at = "done" /\ copy' \in Copies
    BY <1>2, NothingDrilled, ZenonT(30) DEF DrillDies
  <2> QED
    BY <1>2, <2>1, ZenonT(30) DEF DrillDies, DrillInv, DrillVouches
<1>3. CASE Pick \/ CheckPick
  BY <1>3, DrillPick, DrillCheck, ZenonT(30)
<1>4. CASE \E ok \in BOOLEAN : RoomAndCreate(ok) \/ MigrateCopy(ok) \/ Teardown(ok) \/ Report(ok)
  BY <1>4, DrillRoom, DrillMigrate, DrillTeardown, DrillReport, ZenonT(30)
<1>5. CASE \E ok \in BOOLEAN, n \in 0..MinTables : Fill(ok, n)
  BY <1>5, DrillFill, ZenonT(30)
<1>6. CASE \/ \E b \in Dumpers : \/ Claim(b) \/ VerifyDump(b) \/ Persist(b) \/ BackupDies(b)
                                 \/ \E f \in Files : Dump(b, f)
           \/ PruneLocks \/ PruneEnds \/ \E pol \in Policies : PlanEntry(pol)
           \/ \E s \in Stamps, gone \in BOOLEAN : RemoveOne(s, gone)
           \/ \E s \in Stamps : DeployLocks(s) \/ Rots(s)
           \/ DeployEnds \/ Tick \/ ClockSetBack \/ ReaderInstalled \/ UNCHANGED archVars
  <2>1. UNCHANGED <<drill, copy, receipt>>
    BY <1>6, ZenonT(30)
    DEF Claim, VerifyDump, Persist, BackupDies, Dump, PruneLocks, PruneEnds, PlanEntry,
       RemoveOne, DeployLocks, Rots, DeployEnds, Tick, ClockSetBack, ReaderInstalled, archVars
  <2> QED
    BY <2>1, <1>1, ZenonT(30)
<1> QED
  BY <1>2, <1>3, <1>4, <1>5, <1>6, ZenonT(30) DEF ArchNext

(* write_drill_receipt: whatever limits are configured and whichever       *)
(* backups, prunes and clocks run beside it, a receipt that says ok stands *)
(* for a copy restored from a recent archive, migrated and counted.        *)
THEOREM ReceiptsVouch == ArchSpec => []DrillVouches
<1>1. DirInv /\ DrillInv => DrillVouches
  BY Zenon DEF DrillInv
<1> QED
  BY <1>1, DirInit, DirNext, DrillInit, DrillNext, PTL DEF ArchSpec

-----------------------------------------------------------------------------
(* The deploy lock between a prune and a deploy.                           *)

(* Each has the lock while it is at work, and the deploy's archive is      *)
(* there.                                                                  *)
LockInv ==
    /\ prune.at # "idle" => hostLock = "prune"
    /\ deploy.at = "rehearse" => hostLock = "deploy"
    /\ DeployFindsItsArchive

(* Nobody has the lock at first. *)
LEMMA LockInit == ArchInit => LockInv
<1>1. ArchInit => prune.at = "idle" /\ deploy.at = "idle"
  BY DEF ArchInit, NoPrune, NoDeploy
<1> QED
  BY <1>1 DEF LockInv, DeployFindsItsArchive

(* Only a prune takes a file away: a backup and rot leave what they find   *)
(* listed.                                                                 *)
LEMMA StaysListed ==
  ASSUME DirInv, NEW s \in Listed,
         \/ dir' = dir
         \/ \E b \in Dumpers : Persist(b)
         \/ \E t \in Stamps : Rots(t)
  PROVE  s \in Listed'
<1>1. s \in Stamps /\ dir[s].size > 0 /\ dir \in [Stamps -> Archive]
  BY Zenon DEF Listed, DirInv, DirOK
<1>2. CASE dir' = dir
  BY <1>1, <1>2, Zenon DEF Listed
<1>3. ASSUME NEW b \in Dumpers, Persist(b) PROVE s \in Listed'
  <2>1. backup[b].file.size > 0
    BY <1>3, Zenon DEF DirInv, BackupOK, Persist
  <2>2. dir' = dir \/ dir' = [dir EXCEPT ![backup[b].stamp] = backup[b].file]
    BY <1>3, Zenon DEF Persist
  <2>3. dir'[s] = dir[s] \/ dir'[s] = backup[b].file
    BY <1>1, <2>2, Zenon
  <2> QED
    BY <1>1, <2>1, <2>3, Zenon DEF Listed
<1>4. ASSUME NEW t \in Stamps, Rots(t) PROVE s \in Listed'
  <2>1. dir' = [dir EXCEPT ![t].fit = FALSE]
    BY <1>4, Zenon DEF Rots
  <2>2. dir'[s].size = dir[s].size
    BY <1>1, <2>1 DEF Archive
  <2> QED
    BY <1>1, <2>2, Zenon DEF Listed
<1> QED
  BY <1>2, <1>3, <1>4, Zenon

(* Every step keeps to the lock. *)
LEMMA LockNext == DirInv /\ LockInv /\ [ArchNext]_archVars => LockInv'
<1> SUFFICES ASSUME DirInv, LockInv, [ArchNext]_archVars PROVE LockInv'
  BY Zenon
<1>1. CASE /\ UNCHANGED <<prune, deploy, hostLock>>
           /\ \/ dir' = dir
              \/ \E b \in Dumpers : Persist(b)
              \/ \E t \in Stamps : Rots(t)
  BY <1>1, StaysListed, ZenonT(30) DEF LockInv, DeployFindsItsArchive
<1>2. CASE PruneLocks \/ PruneEnds \/ \E pol \in Policies : PlanEntry(pol)
  <2>1. dir' = dir /\ deploy' = deploy /\ Listed' = Listed
    BY <1>2, Zenon DEF PruneLocks, PruneEnds, PlanEntry, Listed
  <2>2. prune'.at # "idle" => hostLock' = "prune"
    BY <1>2 DEF PruneLocks, PruneEnds, PlanEntry, NoPrune, LockInv
  <2>3. deploy.at = "rehearse" => hostLock' = "deploy"
    BY <1>2 DEF PruneLocks, PruneEnds, PlanEntry, LockInv
  <2> QED
    BY <2>1, <2>2, <2>3, Zenon DEF LockInv, DeployFindsItsArchive
<1>3. CASE \E s \in Stamps, gone \in BOOLEAN : RemoveOne(s, gone)
  <2>1. prune.at = "remove" /\ UNCHANGED <<deploy, hostLock>>
    BY <1>3, Zenon DEF RemoveOne
  <2>2. hostLock = "prune" /\ deploy.at # "rehearse"
    BY <2>1, Zenon DEF LockInv
  <2> QED
    BY <2>1, <2>2, Zenon DEF LockInv, DeployFindsItsArchive
<1>4. CASE DeployEnds \/ \E s \in Stamps : DeployLocks(s)
  <2>1. UNCHANGED <<dir, prune>> /\ Listed' = Listed /\ prune.at = "idle"
    BY <1>4 DEF DeployEnds, DeployLocks, Listed, LockInv
  <2>2. deploy'.at = "rehearse" => hostLock' = "deploy" /\ deploy'.pick \in Listed
    BY <1>4 DEF DeployEnds, DeployLocks, NoDeploy
  <2> QED
    BY <2>1, <2>2, Zenon DEF LockInv, DeployFindsItsArchive
<1>5. CASE \/ \E b \in Dumpers : \/ Claim(b) \/ VerifyDump(b) \/ Persist(b) \/ BackupDies(b)
                                 \/ \E f \in Files : Dump(b, f)
           \/ \E s \in Stamps : Rots(s)
           \/ Pick \/ CheckPick \/ DrillDies
           \/ \E ok \in BOOLEAN : RoomAndCreate(ok) \/ MigrateCopy(ok) \/ Teardown(ok) \/ Report(ok)
           \/ \E ok \in BOOLEAN, n \in 0..MinTables : Fill(ok, n)
           \/ Tick \/ ClockSetBack \/ ReaderInstalled \/ UNCHANGED archVars
  <2>1. /\ UNCHANGED <<prune, deploy, hostLock>>
        /\ \/ dir' = dir
           \/ \E b \in Dumpers : Persist(b)
           \/ \E t \in Stamps : Rots(t)
    BY <1>5, ZenonT(60)
    DEF Claim, VerifyDump, Persist, BackupDies, Dump, Rots, Pick, CheckPick, DrillDies,
       RoomAndCreate, MigrateCopy, Teardown, Report, Fill, Tick, ClockSetBack, ReaderInstalled, archVars
  <2> QED
    BY <2>1, <1>1, Zenon
<1> QED
  BY <1>2, <1>3, <1>4, <1>5, ZenonT(30) DEF ArchNext

(* The archive that a deploy picked for its rehearsal under the deploy     *)
(* lock is there when the rehearsal restores it, whatever backups and      *)
(* prunes run beside it (backup_prune takes the same lock).                *)
THEOREM RehearsalsFindTheirArchive == ArchSpec => []DeployFindsItsArchive
<1>1. LockInv => DeployFindsItsArchive
  BY Zenon DEF LockInv
<1> QED
  BY <1>1, DirInit, DirNext, LockInit, LockNext, PTL DEF ArchSpec
=============================================================================
