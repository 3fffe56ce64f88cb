--------------------------- MODULE SnapshotProofs ---------------------------
(***************************************************************************)
(* Proofs about Snapshot for every set of documents, with and without      *)
(* checkpoints of partial files, and for any number of runs and lost       *)
(* machines.                                                               *)
(***************************************************************************)
EXTENDS Snapshot, TLAPS

USE SnapshotAssumption

PassRecord ==
  [at : Steps, dirs : SUBSET Directory, names : SUBSET File, listed : SUBSET File,
   open : File \cup {<<>>}, bytes : 0..Whole, partials : BOOLEAN]

\* A partial file has bytes.
Sized == \A d \in Doc : Has(d, "part") => size[d] > 0

\* A copy has bytes to publish, and those of a PDF are all of them.
Copying ==
  pass.at = "copy" =>
    /\ pass.open \in File /\ pass.bytes > 0
    /\ pass.open[2] # "part" => pass.bytes = Whole

\* What a pass has listed is on Drive.
ListedIsThere == \A f \in pass.listed : drive[f] > 0

DriveInv == TypeOK /\ Sized /\ Copying /\ ListedIsThere /\ NoTornPdf /\ ManifestIsThere

\* The files a last pass must save, and those it has saved or is still to see.
\* Documents of an abandoned pool are out of it.
Wanted(f) == f[1] \notin left /\ Has(f[1], f[2]) /\ (f[2] = "part" => Checkpoint)
Seen(f) == f \in pass.listed /\ drive[f] = Bytes(f)
Ahead(f) == f \in pass.names \/ \E dir \in pass.dirs : f[2] \in In(dir)

EntrySaved(d) == d \notin left => saved[d] = ledger[d]

\* In the last pass nothing changes on the local disk but what an abandoned
\* pool does to its documents.
LastPass ==
  phase = "final" =>
    /\ job \subseteq left /\ pass.at # "rest" /\ pass.partials = Checkpoint
    /\ \A f \in File : Wanted(f) => Seen(f) \/ Ahead(f)
    /\ pass.at = "copy" /\ pass.open[1] \notin left => pass.bytes = Bytes(pass.open)
    /\ pass.at = "manifest" => /\ pass.names = {} /\ pass.dirs = {}
                              /\ \A d \in Doc : EntrySaved(d)

Ended ==
  phase = "over" =>
    /\ job \subseteq left /\ pass = Rest /\ \A d \in Doc : EntrySaved(d)
    /\ \A f \in File : Wanted(f) => f \in manifest /\ drive[f] = Bytes(f)

EndInv == LastPass /\ Ended
-----------------------------------------------------------------------------
(* The records of a pass, and a document that changes                      *)

LEMMA PassType ==
  ASSUME NEW p \in PassRecord
  PROVE  /\ \A st \in Steps : [p EXCEPT !.at = st] \in PassRecord
         /\ \A ns \in SUBSET File : [p EXCEPT !.names = ns] \in PassRecord
         /\ \A ns, ls \in SUBSET File : [p EXCEPT !.names = ns, !.listed = ls] \in PassRecord
         /\ \A ds \in SUBSET Directory, ns \in SUBSET File :
              [p EXCEPT !.dirs = ds, !.names = ns] \in PassRecord
         /\ \A st \in Steps, f \in File, n \in 0..Whole :
              [p EXCEPT !.at = st, !.open = f, !.bytes = n] \in PassRecord
         /\ \A st \in Steps, ds \in SUBSET Directory, b \in BOOLEAN :
              [p EXCEPT !.at = st, !.dirs = ds, !.partials = b] \in PassRecord
         /\ \A st \in Steps, ns, ls \in SUBSET File, f \in File \cup {<<>>}, n \in 0..Whole :
              [p EXCEPT !.at = st, !.names = ns, !.listed = ls, !.open = f, !.bytes = n]
                \in PassRecord
  BY DEF PassRecord

LEMMA Names ==
  /\ \A st \in {"rest", "walk", "copy", "ledger", "manifest"} : st \in Steps
  /\ \A e \in {"new", "transfer", "pending", "sound", "moved", "decided"} : e \in Entry
  /\ \A p \in {"part", "managed", "filed"} : p \in Place
  BY DEF Steps, Entry, Place

LEMMA RestType == Rest \in PassRecord
  BY DEF Rest, PassRecord, Steps, Whole

-----------------------------------------------------------------------------
(* What is on Drive                                                        *)

LEMMA DriveInit == Init => DriveInv
  <1> SUFFICES ASSUME Init PROVE DriveInv
    OBVIOUS
  <1>1. pass \in PassRecord
    BY RestType DEF Init
  <1>2. TypeOK
    BY <1>1 DEF Init, TypeOK, PassRecord, Entry, Whole, None
  <1>3. Sized /\ Copying /\ ListedIsThere /\ ManifestIsThere
    BY DEF Init, Sized, Has, Copying, ListedIsThere, ManifestIsThere, Rest
  <1>4. NoTornPdf
    BY DEF Init, NoTornPdf, File, Place
  <1> QED
    BY <1>2, <1>3, <1>4 DEF DriveInv

\* A step that changes the local disk only.
LEMMA LocalStep ==
  ASSUME DriveInv, UNCHANGED <<remote, pass>>,
         files' \in [Doc -> SUBSET Place], size' \in [Doc -> 0..Whole],
         ledger' \in [Doc -> Entry], job' \subseteq Doc, left' \subseteq Doc, Sized',
         phase' \in {"off", "running", "stopping", "final", "over", "failed"},
         starts' \in 0..MaxStarts, events' \in 0..MaxEvents
  PROVE  DriveInv'
  <1>1. TypeOK'
    BY DEF DriveInv, TypeOK, remote
  <1>2. Copying' /\ ListedIsThere' /\ NoTornPdf' /\ ManifestIsThere'
    BY DEF DriveInv, remote, Copying, ListedIsThere, NoTornPdf, ManifestIsThere
  <1> QED
    BY <1>1, <1>2 DEF DriveInv

\* A step of a pass: the local disk stays.
LEMMA PassStep ==
  ASSUME DriveInv, UNCHANGED local,
         drive' \in [File -> 0..Whole], saved' \in [Doc -> Entry],
         manifest' = None \/ manifest' \subseteq File, pass' \in PassRecord,
         phase' \in {"off", "running", "stopping", "final", "over", "failed"},
         starts' \in 0..MaxStarts, events' \in 0..MaxEvents,
         Copying', ListedIsThere', NoTornPdf', ManifestIsThere'
  PROVE  DriveInv'
  <1>1. TypeOK'
    BY DEF DriveInv, TypeOK, local, PassRecord
  <1>2. Sized'
    BY DEF DriveInv, local, Sized, Has
  <1> QED
    BY <1>1, <1>2 DEF DriveInv

LEMMA StartStep == DriveInv /\ Start => DriveInv'
  <1> SUFFICES ASSUME DriveInv, Start PROVE DriveInv'
    OBVIOUS
  <1>1. files' \in [Doc -> SUBSET Place] /\ ledger' \in [Doc -> Entry]
    BY Names DEF DriveInv, TypeOK, Start, Restored, Reconciled
  <1>2. \A d \in Doc : "part" \in Restored(d) => drive[<<d, "part">>] \in 1..Whole
    BY DEF DriveInv, TypeOK, Restored, File, Place, Whole
  <1>3. size' \in [Doc -> 0..Whole]
    BY <1>2, Names DEF DriveInv, TypeOK, Start, File, Whole
  <1>4. Sized'
    BY <1>2 DEF DriveInv, TypeOK, Start, Sized, Has, Whole
  <1>5. UNCHANGED <<remote, pass>> /\ job' \subseteq Doc /\ left' \subseteq Doc
    BY DEF DriveInv, TypeOK, Start
  <1>6. phase' = "running" /\ starts' \in 0..MaxStarts /\ events' \in 0..MaxEvents
    BY DEF DriveInv, TypeOK, Start
  <1> QED
    BY <1>1, <1>3, <1>4, <1>5, <1>6, LocalStep

LEMMA WorkStep ==
  ASSUME DriveInv, NEW d \in Doc, Work(d)
  PROVE  DriveInv'
  <1>1. /\ UNCHANGED <<remote, pass>> /\ left' \subseteq Doc
        /\ phase' \in {"off", "running", "stopping", "final", "over", "failed"}
        /\ starts' \in 0..MaxStarts /\ events' \in 0..MaxEvents
    BY DEF DriveInv, TypeOK, Work, Transfer, Land, Record, Certify, Move, Relocate, Decide,
           OnDisk, count
  <1>2. ledger' \in [Doc -> Entry] /\ job' \subseteq Doc
    <2>1. /\ \/ ledger' = ledger
             \/ \E e \in Entry : ledger' = [ledger EXCEPT ![d] = e]
          /\ job' \in {job, job \cup {d}, job \ {d}}
      BY Names DEF Work, Transfer, Land, Record, Certify, Move, Relocate, Decide, Becomes
    <2> QED
      BY <2>1 DEF DriveInv, TypeOK
  <1>3. files' \in [Doc -> SUBSET Place] /\ size' \in [Doc -> 0..Whole] /\ Sized'
    <2>1. CASE Transfer(d)
      BY <2>1, Names DEF DriveInv, TypeOK, Transfer, Sized, Has, Whole
    <2>2. CASE Land(d)
      BY <2>2, Names DEF DriveInv, TypeOK, Land, Moves, Sized, Has, Whole
    <2>3. CASE Move(d)
      BY <2>3, Names DEF DriveInv, TypeOK, Move, Moves, Sized, Has, Whole
    <2>4. CASE Record(d) \/ Certify(d) \/ Relocate(d) \/ Decide(d)
      BY <2>4 DEF DriveInv, TypeOK, Record, Certify, Relocate, Decide, Sized, Has
    <2> QED
      BY <2>1, <2>2, <2>3, <2>4 DEF Work
  <1> QED
    BY <1>1, <1>2, <1>3, LocalStep

LEMMA BeginStep == DriveInv /\ (Begin \/ Final) => DriveInv'
  <1> SUFFICES ASSUME DriveInv, Begin \/ Final PROVE DriveInv'
    OBVIOUS
  <1>1. PICK b \in BOOLEAN :
          pass' = [Rest EXCEPT !.at = "walk", !.dirs = Directory, !.partials = b]
    BY SnapshotAssumption DEF Begin, Final, Passing
  <1>2. /\ UNCHANGED <<local, remote>> /\ starts' \in 0..MaxStarts /\ events' \in 0..MaxEvents
        /\ phase' \in {"off", "running", "stopping", "final", "over", "failed"}
    BY DEF DriveInv, TypeOK, Begin, Final, Counted, count
  <1>3. pass' \in PassRecord /\ pass'.at = "walk" /\ pass'.listed = {}
    <2>1. pass' \in PassRecord
      BY <1>1, RestType, Names, PassType
    <2> QED
      BY <1>1, <2>1 DEF Rest
  <1>4. Copying' /\ ListedIsThere'
    BY <1>3 DEF Copying, ListedIsThere
  <1>5. NoTornPdf' /\ ManifestIsThere'
    BY <1>2 DEF DriveInv, remote, NoTornPdf, ManifestIsThere
  <1> QED
    BY <1>2, <1>3, <1>4, <1>5, PassStep DEF DriveInv, TypeOK, remote, count

LEMMA WalkStep == DriveInv /\ Walk => DriveInv'
  <1> SUFFICES ASSUME DriveInv, Walk PROVE DriveInv'
    OBVIOUS
  <1>1. PICK ds \in SUBSET Directory, ns \in SUBSET File :
          pass' = [pass EXCEPT !.dirs = ds, !.names = ns]
    BY DEF DriveInv, TypeOK, Walk, Passing
  <1>2. pass \in PassRecord /\ pass.at = "walk" /\ UNCHANGED <<local, remote, phase, count>>
    BY DEF DriveInv, TypeOK, PassRecord, Walk, OnDrive
  <1>3. pass' \in PassRecord
    BY <1>1, <1>2, PassType
  <1>4. pass'.at = "walk" /\ pass'.listed = pass.listed
    BY <1>1, <1>2 DEF PassRecord
  <1>5. Copying' /\ ListedIsThere' /\ NoTornPdf' /\ ManifestIsThere'
    BY <1>2, <1>4 DEF DriveInv, remote, Copying, ListedIsThere, NoTornPdf, ManifestIsThere
  <1> QED
    BY <1>2, <1>3, <1>5, PassStep DEF DriveInv, TypeOK, remote, count

LEMMA BytesType ==
  ASSUME DriveInv, NEW f \in File
  PROVE  /\ Bytes(f) \in 0..Whole /\ f[1] \in Doc /\ f[2] \in Place
         /\ Has(f[1], f[2]) => Bytes(f) > 0
         /\ f[2] # "part" => Bytes(f) = Whole
  BY DEF DriveInv, TypeOK, Sized, Has, Bytes, File, Whole

LEMMA VisitStep ==
  ASSUME DriveInv, NEW f \in File, Visit(f)
  PROVE  DriveInv'
  <1>1. /\ pass \in PassRecord /\ pass.at = "walk" /\ UNCHANGED <<local, saved, manifest, phase, count>>
        /\ drive' = drive
    BY DEF DriveInv, TypeOK, PassRecord, Visit, Opened, OnDrive
  <1>2. NoTornPdf' /\ ManifestIsThere'
    BY <1>1 DEF DriveInv, NoTornPdf, ManifestIsThere
  <1>3. pass' \in PassRecord /\ Copying' /\ ListedIsThere'
    <2>1. CASE Has(f[1], f[2]) /\ pass' = [pass EXCEPT !.at = "copy", !.open = f, !.bytes = Bytes(f)]
      <3>1. pass' \in PassRecord
        BY <1>1, <2>1, Names, BytesType, PassType
      <3>2. pass'.at = "copy" /\ pass'.open = f /\ pass'.bytes = Bytes(f) /\ pass'.listed = pass.listed
        BY <1>1, <2>1 DEF PassRecord
      <3> QED
        BY <1>1, <2>1, <3>1, <3>2, BytesType DEF DriveInv, Copying, ListedIsThere
    <2>2. CASE drive[f] > 0 /\ Lists(f)
      <3> DEFINE ns == pass.names \ {f}
                 ls == pass.listed \cup {f}
      <3>1. ns \in SUBSET File /\ ls \in SUBSET File
        BY <1>1 DEF PassRecord
      <3>2. pass' = [pass EXCEPT !.names = ns, !.listed = ls]
        BY <2>2 DEF Lists, Passing
      <3>3. pass' \in PassRecord
        BY <1>1, <3>1, <3>2, PassType
      <3>4. pass'.at = "walk" /\ pass'.listed = ls
        BY <1>1, <3>2 DEF PassRecord
      <3> QED
        BY <1>1, <2>2, <3>3, <3>4 DEF DriveInv, Copying, ListedIsThere
    <2>3. CASE Skip(f)
      <3> DEFINE ns == pass.names \ {f}
      <3>1. ns \in SUBSET File
        BY <1>1 DEF PassRecord
      <3>2. pass' = [pass EXCEPT !.names = ns]
        BY <2>3 DEF Skip, Passing
      <3>3. pass' \in PassRecord
        BY <1>1, <3>1, <3>2, PassType
      <3>4. pass'.at = "walk" /\ pass'.listed = pass.listed
        BY <1>1, <3>2 DEF PassRecord
      <3> QED
        BY <1>1, <3>3, <3>4 DEF DriveInv, Copying, ListedIsThere
    <2>4. Has(f[1], f[2]) /\ (f[2] = "part" => pass.partials) /\ drive[f] = Bytes(f) => drive[f] > 0
      BY BytesType
    <2> QED
      BY <2>1, <2>2, <2>3, <2>4 DEF Visit, Kept, Passing
  <1> QED
    BY <1>1, <1>2, <1>3, PassStep DEF DriveInv, TypeOK, count

LEMMA PublishStep == DriveInv /\ Publish => DriveInv'
  <1> SUFFICES ASSUME DriveInv, Publish PROVE DriveInv'
    OBVIOUS
  <1> DEFINE f == pass.open
             n == pass.bytes
  <1>1. /\ pass \in PassRecord /\ UNCHANGED <<local, saved, manifest, phase, count>>
        /\ f \in File /\ n \in 0..Whole /\ n > 0 /\ (f[2] # "part" => n = Whole)
    BY DEF DriveInv, TypeOK, PassRecord, Publish, Copying, OnDrive
  <1>2. drive' = [drive EXCEPT ![f] = n]
    BY DEF Publish
  <1> DEFINE ns == pass.names \ {f}
             ls == pass.listed \cup {f}
             new == [pass EXCEPT !.at = "walk", !.names = ns, !.listed = ls, !.open = <<>>, !.bytes = 0]
  <1>3. pass' = new
    BY DEF Publish, Passing
  <1>4. new \in PassRecord /\ new.at = "walk" /\ new.listed = ls
    <2>1. ns \in SUBSET File /\ ls \in SUBSET File /\ <<>> \in File \cup {<<>>} /\ 0 \in 0..Whole
      BY <1>1 DEF PassRecord, Whole
    <2>2. new \in PassRecord
      BY <1>1, <2>1, Names, PassType
    <2> QED
      BY <1>1, <2>2 DEF PassRecord
  <1>5. drive' \in [File -> 0..Whole] /\ \A g \in File : drive'[g] = IF g = f THEN n ELSE drive[g]
    BY <1>1, <1>2 DEF DriveInv, TypeOK
  <1> HIDE DEF new
  <1>6. Copying' /\ ListedIsThere'
    <2>1. \A g \in pass.listed : g \in File
      BY <1>1 DEF PassRecord
    <2> QED
      BY <1>1, <1>3, <1>4, <1>5, <2>1 DEF DriveInv, Copying, ListedIsThere
  <1>7. NoTornPdf'
    <2> SUFFICES ASSUME NEW d \in Doc, NEW p \in {"managed", "filed"}
                 PROVE  drive'[<<d, p>>] \in {0, Whole}
      BY DEF NoTornPdf
    <2>1. <<d, p>> \in File /\ <<d, p>>[2] = p /\ drive[<<d, p>>] \in {0, Whole}
      BY DEF DriveInv, NoTornPdf, File, Place
    <2>2. <<d, p>> = f => n = Whole
      BY <1>1, <2>1
    <2> QED
      BY <1>5, <2>1, <2>2
  <1>8. ManifestIsThere'
    BY <1>1, <1>5 DEF DriveInv, TypeOK, ManifestIsThere
  <1> QED
    BY <1>1, <1>3, <1>4, <1>5, <1>6, <1>7, <1>8, PassStep DEF DriveInv, TypeOK, count

LEMMA CopyLedgerStep == DriveInv /\ CopyLedger => DriveInv'
  <1> SUFFICES ASSUME DriveInv, CopyLedger PROVE DriveInv'
    OBVIOUS
  <1>1. /\ pass \in PassRecord /\ pass' = [pass EXCEPT !.at = "manifest"] /\ saved' = ledger
        /\ UNCHANGED <<local, drive, manifest, phase, count>>
    BY DEF DriveInv, TypeOK, PassRecord, CopyLedger, Passing, OnDrive
  <1>2. pass' \in PassRecord
    BY <1>1, Names, PassType
  <1>3. pass'.at = "manifest" /\ pass'.listed = pass.listed
    BY <1>1 DEF PassRecord
  <1>4. Copying' /\ ListedIsThere' /\ NoTornPdf' /\ ManifestIsThere'
    BY <1>1, <1>3 DEF DriveInv, Copying, ListedIsThere, NoTornPdf, ManifestIsThere
  <1> QED
    BY <1>1, <1>2, <1>4, PassStep DEF DriveInv, TypeOK, count

LEMMA ManifestStep == DriveInv /\ WriteManifest => DriveInv'
  <1> SUFFICES ASSUME DriveInv, WriteManifest PROVE DriveInv'
    OBVIOUS
  <1>1. /\ pass \in PassRecord /\ pass' = Rest /\ manifest' = pass.listed
        /\ UNCHANGED <<local, drive, saved, count>> /\ phase' \in {phase, "over"}
    BY DEF DriveInv, TypeOK, PassRecord, WriteManifest, Passing
  <1>2. manifest' \subseteq File
    BY <1>1 DEF PassRecord
  <1>3. Copying' /\ ListedIsThere' /\ NoTornPdf' /\ ManifestIsThere'
    BY <1>1 DEF DriveInv, Copying, ListedIsThere, NoTornPdf, ManifestIsThere, Rest
  <1> QED
    BY <1>1, <1>2, <1>3, RestType, PassStep DEF DriveInv, TypeOK, count

LEMMA OtherStep == DriveInv /\ (PassFails \/ Stop \/ Abandon \/ Lose) => DriveInv'
  <1> SUFFICES ASSUME DriveInv, PassFails \/ Stop \/ Abandon \/ Lose PROVE DriveInv'
    OBVIOUS
  <1>1. /\ UNCHANGED remote /\ pass' \in {pass, Rest}
        /\ phase' \in {"off", "running", "stopping", "final", "over", "failed"}
        /\ starts' \in 0..MaxStarts /\ events' \in 0..MaxEvents
    BY DEF DriveInv, TypeOK, PassFails, Stop, Abandon, Lose, Counted, Passing, count
  <1>2. /\ files' \in [Doc -> SUBSET Place] /\ size' \in [Doc -> 0..Whole]
        /\ ledger' \in [Doc -> Entry] /\ job' \subseteq Doc /\ left' \subseteq Doc /\ Sized'
    BY Names DEF DriveInv, TypeOK, PassFails, Stop, Abandon, Lose, local, Sized, Has, Whole
  <1>3. pass' \in PassRecord
    BY <1>1, RestType DEF DriveInv, TypeOK, PassRecord
  <1>4. TypeOK'
    BY <1>1, <1>2, <1>3 DEF DriveInv, TypeOK, remote, PassRecord
  <1>5. Copying' /\ ListedIsThere' /\ NoTornPdf' /\ ManifestIsThere'
    BY <1>1 DEF DriveInv, remote, Copying, ListedIsThere, NoTornPdf, ManifestIsThere, Rest
  <1> QED
    BY <1>2, <1>4, <1>5 DEF DriveInv

LEMMA DriveStep == DriveInv /\ [Next]_vars => DriveInv'
  <1> SUFFICES ASSUME DriveInv, [Next]_vars PROVE DriveInv'
    OBVIOUS
  <1>1. CASE UNCHANGED vars
    BY <1>1 DEF DriveInv, TypeOK, Sized, Has, Copying, ListedIsThere, NoTornPdf, ManifestIsThere,
                vars, local, remote, count
  <1>2. CASE Next
    BY <1>2, StartStep, WorkStep, BeginStep, WalkStep, VisitStep, PublishStep, CopyLedgerStep,
       ManifestStep, OtherStep
       DEF Next, Sync
  <1> QED
    BY <1>1, <1>2

-----------------------------------------------------------------------------
(* What the last pass saves                                                *)

LEMMA EndInit == Init => EndInv
  BY DEF Init, EndInv, LastPass, Ended

\* Once the last pass has begun, only documents of an abandoned pool change.
LEMMA EndWork ==
  ASSUME DriveInv, EndInv, NEW d \in Doc, Work(d)
  PROVE  EndInv'
  <1>1. UNCHANGED <<phase, pass, left, remote>> /\ job' \in {job, job \cup {d}, job \ {d}}
    BY DEF Work, Transfer, Land, Record, Certify, Move, Relocate, Decide, OnDisk
  <1> SUFFICES ASSUME phase \in {"final", "over"} PROVE EndInv'
    BY <1>1 DEF EndInv, LastPass, Ended
  <1>2. d \in left /\ job' \subseteq left
    <2>1. job \subseteq left
      BY DEF EndInv, LastPass, Ended
    <2>2. d \in job \cup left
      BY DEF Work, Transfer, Land, Record, Certify, Move, Relocate, Decide, Working, Validating
    <2> QED
      BY <1>1, <2>1, <2>2
  <1>3. ASSUME NEW e \in Doc, e # d
        PROVE  files'[e] = files[e] /\ size'[e] = size[e] /\ ledger'[e] = ledger[e]
    BY <1>3 DEF DriveInv, TypeOK, Work, Transfer, Land, Record, Certify, Move, Relocate, Decide,
                Becomes, Moves
  <1>4. \A e \in Doc : EntrySaved(e) => EntrySaved(e)'
    BY <1>1, <1>2, <1>3 DEF EntrySaved, remote
  <1>5. ASSUME NEW f \in File, f[1] \notin left
        PROVE  (Wanted(f)' => Wanted(f)) /\ Bytes(f)' = Bytes(f)
    <2>1. f[1] \in Doc /\ f[1] # d
      BY <1>2, <1>5 DEF File
    <2> QED
      BY <1>1, <1>3, <2>1 DEF Wanted, Has, Bytes
  <1>6. \A f \in File : (Seen(f) /\ f[1] \notin left => Seen(f)') /\ (Ahead(f) => Ahead(f)')
    BY <1>1, <1>5 DEF Seen, Ahead, remote
  <1>7. \A f \in File : Wanted(f)' => f[1] \notin left
    BY <1>1 DEF Wanted
  <1>8. LastPass'
    <2> SUFFICES ASSUME phase = "final" PROVE LastPass'
      BY <1>1 DEF LastPass
    <2>1. \A f \in File : Wanted(f)' => Seen(f)' \/ Ahead(f)'
      BY <1>5, <1>6, <1>7 DEF EndInv, LastPass
    <2>2. ASSUME pass.at = "copy", pass.open[1] \notin left
          PROVE  pass.bytes = Bytes(pass.open)'
      <3>1. PICK f \in File : f = pass.open
        BY <2>2 DEF DriveInv, Copying
      <3>2. pass.bytes = Bytes(f)'
        BY <1>5, <2>2, <3>1 DEF EndInv, LastPass
      <3> QED
        BY <1>1, <3>1, <3>2 DEF Bytes
    <2>3. pass.at = "manifest" => \A e \in Doc : EntrySaved(e)'
      BY <1>4 DEF EndInv, LastPass
    <2> QED
      BY <1>1, <1>2, <2>1, <2>2, <2>3 DEF EndInv, LastPass
  <1>9. Ended'
    <2> SUFFICES ASSUME phase = "over" PROVE Ended'
      BY <1>1 DEF Ended
    <2>1. \A f \in File : Wanted(f)' => f \in manifest' /\ drive'[f] = Bytes(f)'
      BY <1>1, <1>5, <1>7 DEF EndInv, Ended, remote
    <2> QED
      BY <1>1, <1>2, <1>4, <2>1 DEF EndInv, Ended
  <1> QED
    BY <1>8, <1>9 DEF EndInv

LEMMA EndFinal == Final => EndInv'
  <1> SUFFICES ASSUME Final PROVE EndInv'
    OBVIOUS
  <1>1. phase' = "final" /\ job' \subseteq left'
    BY DEF Final, Quiet, local
  <1>2. pass'.at = "walk" /\ pass'.dirs = Directory /\ pass'.partials = Checkpoint
    BY DEF Final, Passing, Rest
  <1>3. \A f \in File : f[2] \in In("downloads") \cup In("decisions")
    BY DEF File, Place, In
  <1>4. \A f \in File : Ahead(f)'
    BY <1>2, <1>3 DEF Ahead, Directory
  <1> QED
    BY <1>1, <1>2, <1>4 DEF EndInv, LastPass, Ended

\* A step of the last pass; what it must keep of LastPass.
LEMMA EndPass ==
  ASSUME EndInv, UNCHANGED <<local, phase>>, pass.at # "rest",
         phase = "final" =>
           /\ pass'.at # "rest" /\ pass'.partials = pass.partials
           /\ \A f \in File : Wanted(f) /\ (Seen(f) \/ Ahead(f)) => Seen(f)' \/ Ahead(f)'
           /\ pass'.at = "copy" /\ pass'.open[1] \notin left => pass'.bytes = Bytes(pass'.open)
           /\ pass'.at = "manifest" => /\ pass'.names = {} /\ pass'.dirs = {}
                                      /\ \A d \in Doc : EntrySaved(d)'
  PROVE  EndInv'
  <1>1. \A f \in File : Wanted(f)' = Wanted(f) /\ Bytes(f)' = Bytes(f)
    BY DEF local, Wanted, Has, Bytes
  <1>2. phase # "over"
    BY DEF EndInv, Ended, Rest
  <1>3. LastPass'
    <2>1. CASE phase = "final"
      <3>1. Bytes(pass.open)' = Bytes(pass'.open)
        BY DEF local, Bytes
      <3> QED
        BY <1>1, <2>1, <3>1 DEF EndInv, LastPass, local
    <2> QED
      BY <2>1 DEF LastPass
  <1> QED
    BY <1>2, <1>3 DEF EndInv, Ended

LEMMA EndWalk == DriveInv /\ EndInv /\ Walk => EndInv'
  <1> SUFFICES ASSUME DriveInv, EndInv, Walk PROVE EndInv'
    OBVIOUS
  <1>1. pass \in PassRecord /\ pass.at = "walk" /\ pass.names = {} /\ UNCHANGED <<local, remote, phase>>
    BY DEF DriveInv, TypeOK, PassRecord, Walk, OnDrive
  <1>2. PICK dir \in pass.dirs :
          pass' = [pass EXCEPT !.dirs = @ \ {dir},
                               !.names = {f \in File : f[2] \in In(dir) \cap files[f[1]]}]
    BY DEF Walk, Passing
  <1>3. /\ pass'.at = "walk" /\ pass'.partials = pass.partials /\ pass'.listed = pass.listed
        /\ pass'.dirs = pass.dirs \ {dir}
        /\ pass'.names = {f \in File : f[2] \in In(dir) \cap files[f[1]]}
    BY <1>1, <1>2 DEF PassRecord
  <1>4. ASSUME NEW f \in File, Wanted(f), Seen(f) \/ Ahead(f)
        PROVE  Seen(f)' \/ Ahead(f)'
    <2>1. CASE Seen(f)
      <3>1. Bytes(f)' = Bytes(f)
        BY <1>1 DEF local, Bytes
      <3> QED
        BY <1>1, <1>3, <2>1, <3>1 DEF Seen, remote
    <2>2. CASE Ahead(f)
      BY <1>1, <1>3, <1>4, <2>2 DEF Ahead, Wanted, Has
    <2> QED
      BY <1>4, <2>1, <2>2
  <1> QED
    BY <1>1, <1>3, <1>4, EndPass

LEMMA EndVisit ==
  ASSUME DriveInv, EndInv, NEW f \in File, Visit(f)
  PROVE  EndInv'
  <1>1. /\ pass \in PassRecord /\ pass.at = "walk" /\ UNCHANGED <<local, phase>> /\ drive' = drive
    BY DEF DriveInv, TypeOK, PassRecord, Visit, Opened, OnDrive
  <1>2. \A g \in File : Bytes(g)' = Bytes(g)
    BY <1>1 DEF local, Bytes
  <1>3. CASE /\ Has(f[1], f[2]) /\ (f[2] = "part" => pass.partials) /\ drive[f] # Bytes(f)
             /\ pass' = [pass EXCEPT !.at = "copy", !.open = f, !.bytes = Bytes(f)]
    <2>1. /\ pass'.at = "copy" /\ pass'.open = f /\ pass'.bytes = Bytes(f)
          /\ pass'.partials = pass.partials /\ pass'.names = pass.names /\ pass'.dirs = pass.dirs
          /\ pass'.listed = pass.listed
      BY <1>1, <1>3 DEF PassRecord
    <2>2. \A g \in File : Seen(g) \/ Ahead(g) => Seen(g)' \/ Ahead(g)'
      BY <1>1, <1>2, <2>1 DEF Seen, Ahead
    <2> QED
      BY <1>1, <2>1, <2>2, EndPass
  <1>4. CASE ~(Has(f[1], f[2]) /\ (f[2] = "part" => pass.partials) /\ drive[f] # Bytes(f))
    <2>1. /\ pass'.at = "walk" /\ pass'.partials = pass.partials /\ pass'.dirs = pass.dirs
          /\ pass'.names = pass.names \ {f}
          /\ pass'.listed \in {pass.listed, pass.listed \cup {f}}
      BY <1>1, <1>4 DEF Visit, Lists, Skip, Passing, PassRecord
    <2>2. Has(f[1], f[2]) /\ (f[2] = "part" => pass.partials) =>
            pass'.listed = pass.listed \cup {f} /\ drive[f] = Bytes(f)
      BY <1>1, <1>4 DEF Visit, Lists, Passing, PassRecord
    <2>3. ASSUME phase = "final", NEW g \in File, Wanted(g), Seen(g) \/ Ahead(g)
          PROVE  Seen(g)' \/ Ahead(g)'
      <3>1. CASE g = f
        BY <1>1, <1>2, <2>1, <2>2, <2>3, <3>1 DEF EndInv, LastPass, Wanted, Seen
      <3>2. CASE g # f
        BY <1>1, <1>2, <2>1, <2>3, <3>2 DEF Seen, Ahead
      <3> QED
        BY <3>1, <3>2
    <2> QED
      BY <1>1, <2>1, <2>3, EndPass
  <1> QED
    BY <1>3, <1>4 DEF Visit, Passing

LEMMA EndPublish == DriveInv /\ EndInv /\ Publish => EndInv'
  <1> SUFFICES ASSUME DriveInv, EndInv, Publish PROVE EndInv'
    OBVIOUS
  <1> DEFINE f == pass.open
  <1>1. /\ pass \in PassRecord /\ pass.at = "copy" /\ UNCHANGED <<local, phase>> /\ f \in File
        /\ drive \in [File -> 0..Whole] /\ drive' = [drive EXCEPT ![f] = pass.bytes]
    BY DEF DriveInv, TypeOK, PassRecord, Publish, Copying, OnDrive
  <1>2. /\ pass'.at = "walk" /\ pass'.partials = pass.partials /\ pass'.dirs = pass.dirs
        /\ pass'.names = pass.names \ {f} /\ pass'.listed = pass.listed \cup {f}
    BY <1>1 DEF Publish, Passing, PassRecord
  <1>3. \A g \in File : Bytes(g)' = Bytes(g)
    BY <1>1 DEF local, Bytes
  <1>4. ASSUME phase = "final", NEW g \in File, Wanted(g), Seen(g) \/ Ahead(g)
        PROVE  Seen(g)' \/ Ahead(g)'
    <2>1. CASE g = f
      <3>1. pass.bytes = Bytes(f)
        BY <1>1, <1>4, <2>1 DEF EndInv, LastPass, Wanted
      <3> QED
        BY <1>1, <1>2, <1>3, <2>1, <3>1 DEF Seen
    <2>2. CASE g # f
      BY <1>1, <1>2, <1>3, <1>4, <2>2 DEF Seen, Ahead
    <2> QED
      BY <2>1, <2>2
  <1> QED
    BY <1>1, <1>2, <1>4, EndPass

LEMMA EndCopyLedger == DriveInv /\ EndInv /\ CopyLedger => EndInv'
  <1> SUFFICES ASSUME DriveInv, EndInv, CopyLedger PROVE EndInv'
    OBVIOUS
  <1>1. /\ pass \in PassRecord /\ pass.at = "walk" /\ pass.names = {} /\ pass.dirs = {}
        /\ saved' = ledger /\ UNCHANGED <<local, drive, phase>>
    BY DEF DriveInv, TypeOK, PassRecord, CopyLedger, OnDrive
  <1>2. /\ pass'.at = "manifest" /\ pass'.partials = pass.partials /\ pass'.dirs = pass.dirs
        /\ pass'.names = pass.names /\ pass'.listed = pass.listed
    BY <1>1 DEF CopyLedger, Passing, PassRecord
  <1>3. \A g \in File : Bytes(g)' = Bytes(g)
    BY <1>1 DEF local, Bytes
  <1>4. \A g \in File : Seen(g) \/ Ahead(g) => Seen(g)' \/ Ahead(g)'
    BY <1>1, <1>2, <1>3 DEF Seen, Ahead
  <1>5. \A d \in Doc : EntrySaved(d)'
    BY <1>1 DEF EntrySaved, local
  <1> QED
    BY <1>1, <1>2, <1>4, <1>5, EndPass

LEMMA EndManifest == DriveInv /\ EndInv /\ WriteManifest => EndInv'
  <1> SUFFICES ASSUME DriveInv, EndInv, WriteManifest PROVE EndInv'
    OBVIOUS
  <1>1. /\ pass.at = "manifest" /\ manifest' = pass.listed /\ pass' = Rest
        /\ UNCHANGED <<local, drive, saved>>
        /\ phase' = IF phase = "final" THEN "over" ELSE phase
    BY DEF WriteManifest, Passing
  <1>2. phase # "over"
    BY <1>1 DEF EndInv, Ended, Rest
  <1>3. CASE phase = "final"
    <2>1. job' \subseteq left' /\ \A d \in Doc : EntrySaved(d)'
      BY <1>1, <1>3 DEF EndInv, LastPass, EntrySaved, local
    <2>2. ASSUME NEW f \in File, Wanted(f)' PROVE f \in manifest' /\ drive'[f] = Bytes(f)'
      <3>1. Wanted(f) /\ Bytes(f)' = Bytes(f)
        BY <1>1, <2>2 DEF local, Wanted, Has, Bytes
      <3>2. Seen(f)
        BY <1>1, <1>3, <3>1 DEF EndInv, LastPass, Ahead
      <3> QED
        BY <1>1, <3>1, <3>2 DEF Seen
    <2> QED
      BY <1>1, <1>3, <2>1, <2>2 DEF EndInv, LastPass, Ended
  <1>4. CASE phase # "final"
    BY <1>1, <1>2, <1>4 DEF EndInv, LastPass, Ended
  <1> QED
    BY <1>3, <1>4

LEMMA EndStep == DriveInv /\ EndInv /\ [Next]_vars => EndInv'
  <1> SUFFICES ASSUME DriveInv, EndInv, [Next]_vars PROVE EndInv'
    OBVIOUS
  <1>1. CASE UNCHANGED vars
    BY <1>1 DEF EndInv, LastPass, Ended, Wanted, Seen, Ahead, Has, Bytes, EntrySaved, vars, local, remote
  <1>2. CASE Start \/ Begin \/ PassFails \/ Stop \/ Abandon \/ Lose
    <2>1. PassFails => phase # "over"
      BY DEF EndInv, Ended, PassFails
    <2>2. phase' \notin {"final", "over"}
      BY <1>2, <2>1 DEF Start, Begin, PassFails, Stop, Abandon, Lose
    <2> QED
      BY <2>2 DEF EndInv, LastPass, Ended
  <1>3. CASE Next /\ ~(Start \/ Begin \/ PassFails \/ Stop \/ Abandon \/ Lose)
    BY <1>3, EndWork, EndFinal, EndWalk, EndVisit, EndPublish, EndCopyLedger, EndManifest
       DEF Next, Sync
  <1> QED
    BY <1>1, <1>2, <1>3

-----------------------------------------------------------------------------
(* The theorems                                                            *)

LEMMA DriveAlways == Spec => [](DriveInv /\ EndInv)
  <1>1. Init => DriveInv /\ EndInv
    BY DriveInit, EndInit
  <1>2. DriveInv /\ EndInv /\ [Next]_vars => (DriveInv /\ EndInv)'
    BY DriveStep, EndStep
  <1> QED
    BY <1>1, <1>2, PTL DEF Spec

\* The disk, Drive and the pass keep their types through every restore, copy
\* and lost machine.
THEOREM TypeCorrect == Spec => []TypeOK
  <1>1. DriveInv => TypeOK
    BY DEF DriveInv
  <1> QED
    BY <1>1, DriveAlways, PTL

\* No PDF on Drive is ever a part of one, for any number of documents, passes
\* and lost machines: a copy comes to its place when it is complete, and the
\* bytes of a PDF do not change while it is copied.
THEOREM NeverTorn == Spec => []NoTornPdf
  <1>1. DriveInv => NoTornPdf
    BY DEF DriveInv
  <1> QED
    BY <1>1, DriveAlways, PTL

\* The manifest never lists a file that Drive does not have, partial files of
\* earlier passes included.
THEOREM ManifestHolds == Spec => []ManifestIsThere
  <1>1. DriveInv => ManifestIsThere
    BY DEF DriveInv
  <1> QED
    BY <1>1, DriveAlways, PTL

\* A run that ends with its last pass leaves on Drive what is on the disk of
\* every document outside an abandoned validation pool, also while the workers
\* of such a pool go on under the pass: they never reach another document.
THEOREM EndsAreSaved == Spec => []EndIsSaved
  <1>1. DriveInv /\ EndInv => EndIsSaved
    <2> SUFFICES ASSUME DriveInv, EndInv, phase = "over" PROVE EndIsSaved
      BY DEF EndIsSaved
    <2>1. /\ \A d \in Doc : EntrySaved(d)
          /\ \A f \in File : Wanted(f) => f \in manifest /\ drive[f] = Bytes(f)
      BY DEF EndInv, Ended
    <2>2. ASSUME NEW d \in Doc \ left, NEW p \in files[d], p = "part" => Checkpoint
          PROVE  <<d, p>> \in manifest /\ drive[<<d, p>>] = Bytes(<<d, p>>)
      <3>1. <<d, p>> \in File /\ <<d, p>>[1] = d /\ <<d, p>>[2] = p
        BY DEF DriveInv, TypeOK, File
      <3> QED
        BY <2>1, <2>2, <3>1 DEF Wanted, Has
    <2> QED
      BY <2>1, <2>2 DEF EndIsSaved, EntrySaved
  <1> QED
    BY <1>1, DriveAlways, PTL
=============================================================================
