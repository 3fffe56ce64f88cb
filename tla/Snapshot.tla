------------------------------ MODULE Snapshot ------------------------------
(***************************************************************************)
(* Drive snapshots of the Colab runtime (DriveSnapshots in colab/storage.py*)
(* and its use by run_colab_pipeline).  A pass copies the PDFs and partial *)
(* files of the local disk, then the ledger, then writes the manifest,     *)
(* while download workers and validation workers change the disk; a run    *)
(* ends with a last pass, and a virtual machine may be lost at any step.   *)
(* A run that is cancelled while it waits for its validation pool leaves   *)
(* the pool to itself: the last pass then copies while its workers go on.  *)
(*                                                                         *)
(* The path of a document goes from a partial file over the download       *)
(* directory ("managed") to approved/ or rejected/ ("filed"); its ledger   *)
(* entry is abstracted to how far it got.  Left out: other JSON files, the *)
(* rebasing of paths, links instead of copies of restored PDFs, and        *)
(* partial files that a transfer starts again from zero.                   *)
(***************************************************************************)
EXTENDS Naturals

CONSTANTS Doc,
          Checkpoint,   \* checkpoint_partials_to_drive
          MaxStarts,    \* bound: runs
          MaxEvents     \* bound: passes during a run, failed passes and lost machines

ASSUME SnapshotAssumption ==
  Checkpoint \in BOOLEAN /\ MaxStarts \in Nat \ {0} /\ MaxEvents \in Nat

VARIABLES
  files,     \* local disk: where a document has bytes
  size,      \* and how many the partial file has
  ledger,    \* local downloads.json
  job,       \* documents with a job that has not recorded what it did
  left,      \* documents of a validation pool that a cancelled run left behind
  drive,     \* Drive: bytes of a document at each place, 0 for no file
  saved,     \* Drive: downloads.json
  manifest,  \* Drive: the files of snapshot_manifest.json, or None
  pass,      \* DriveSnapshots.sync
  phase,     \* where run_colab_pipeline is
  starts, events

local  == <<files, size, ledger, job, left>>
remote == <<drive, saved, manifest>>
count  == <<starts, events>>
vars   == <<local, remote, pass, phase, count>>

Whole == 2
Place == {"part", "managed", "filed"}
File == Doc \X Place
None == {<<>>}                        \* no manifest has been written
Directory == {"downloads", "decisions"}
In(dir) == IF dir = "downloads" THEN {"part", "managed"} ELSE {"filed"}

\* No entry; DOWNLOADING or a deferred state; INTEGRITY_PENDING; COMPLETED with
\* the download directory, or approved/ or rejected/, as integrity_path; and the
\* latter with its verdict.
Entry == {"new", "transfer", "pending", "sound", "moved", "decided"}
Steps == {"rest", "walk", "copy", "ledger", "manifest"}

Rest == [at |-> "rest", dirs |-> {}, names |-> {}, listed |-> {}, open |-> <<>>,
         bytes |-> 0, partials |-> FALSE]

TypeOK ==
  /\ files \in [Doc -> SUBSET Place] /\ size \in [Doc -> 0..Whole]
  /\ ledger \in [Doc -> Entry] /\ job \subseteq Doc /\ left \subseteq Doc
  /\ saved \in [Doc -> Entry]
  /\ drive \in [File -> 0..Whole]
  /\ manifest = None \/ manifest \subseteq File
  /\ pass \in [at : Steps, dirs : SUBSET Directory, names : SUBSET File, listed : SUBSET File,
               open : File \cup {<<>>}, bytes : 0..Whole, partials : BOOLEAN]
  /\ phase \in {"off", "running", "stopping", "final", "over", "failed"}
  /\ starts \in 0..MaxStarts /\ events \in 0..MaxEvents

Init ==
  /\ files = [d \in Doc |-> {}] /\ size = [d \in Doc |-> 0]
  /\ ledger = [d \in Doc |-> "new"] /\ job = {} /\ left = {} /\ saved = [d \in Doc |-> "new"]
  /\ drive = [f \in File |-> 0] /\ manifest = None
  /\ pass = Rest /\ phase = "off" /\ starts = 0 /\ events = 0

-----------------------------------------------------------------------------
(* The start of a run                                                      *)

\* What restore links or copies: what the manifest lists, or without a manifest
\* whatever is on Drive; partial files if they are checkpointed.
Listed == IF manifest = None THEN File ELSE manifest
Restored(d) == {p \in Place : <<d, p>> \in Listed /\ drive[<<d, p>>] > 0
                              /\ (p = "part" => Checkpoint)}

\* _completed_download_count: a PDF in the download directory that the ledger
\* does not vouch for at that path is pending.
Reconciled(entry, places) == IF "managed" \in places /\ entry # "sound" THEN "pending" ELSE entry

\* On a new machine the disk is empty; otherwise existing files stay.  Bound: a
\* run is not started while a job of an abandoned pool is at work.
Start ==
  /\ phase \in {"off", "over", "failed"} /\ job = {} /\ starts < MaxStarts
  /\ LET now == [d \in Doc |-> files[d] \cup Restored(d)]
         entries == IF phase = "off" THEN saved ELSE ledger
     IN /\ files' = now
        /\ ledger' = [d \in Doc |-> Reconciled(entries[d], now[d])]
        /\ size' = [d \in Doc |-> IF "part" \in now[d] \ files[d] THEN drive[<<d, "part">>] ELSE size[d]]
  /\ phase' = "running" /\ starts' = starts + 1 /\ left' = {}
  /\ UNCHANGED <<job, remote, pass, events>>

-----------------------------------------------------------------------------
(* Workers: a download, then a validation                                  *)

Has(d, p) == p \in files[d]
Becomes(d, entry) == ledger' = [ledger EXCEPT ![d] = entry]
Moves(d, from, to) == files' = [files EXCEPT ![d] = (@ \ {from}) \cup {to}]
Working == phase = "running"

\* The workers of an abandoned pool go on with its jobs, the queued ones too.
Validating(d) == Working \/ d \in left
OnDisk == UNCHANGED <<left, remote, pass, phase, count>>

\* _recovery_candidates and the search: an entry that is not completed is
\* transferred, unless its PDF is there.
Transfer(d) ==
  /\ Working /\ ledger[d] \in {"new", "transfer", "pending"} /\ d \notin job
  /\ ~Has(d, "managed") /\ size[d] < Whole
  /\ files' = [files EXCEPT ![d] = @ \cup {"part"}]
  /\ size' = [size EXCEPT ![d] = @ + 1] /\ Becomes(d, "transfer")
  /\ UNCHANGED job /\ OnDisk

Land(d) ==
  /\ Working /\ Has(d, "part") /\ size[d] = Whole /\ ledger[d] = "transfer"
  /\ Moves(d, "part", "managed") /\ size' = [size EXCEPT ![d] = 0]
  /\ job' = job \cup {d}
  /\ UNCHANGED ledger /\ OnDisk

\* A job that was begun is waited for when the run ends.
Record(d) ==
  /\ d \in job /\ ledger[d] = "transfer"
  /\ Becomes(d, "pending") /\ job' = job \ {d}
  /\ UNCHANGED <<files, size>> /\ OnDisk

Certify(d) ==
  /\ Validating(d) /\ Has(d, "managed") /\ ledger[d] = "pending"
  /\ Becomes(d, "sound")
  /\ UNCHANGED <<files, size, job>> /\ OnDisk

\* A verdict was reached.
Move(d) ==
  /\ Validating(d) /\ Has(d, "managed") /\ ledger[d] = "sound"
  /\ Moves(d, "managed", "filed") /\ job' = job \cup {d}
  /\ UNCHANGED <<size, ledger>> /\ OnDisk

Relocate(d) ==
  /\ d \in job /\ ledger[d] = "sound"
  /\ Becomes(d, "moved")
  /\ UNCHANGED <<files, size, job>> /\ OnDisk

\* Also in a later run, by _restore_pending_validation_jobs.
Decide(d) ==
  /\ d \in job \/ Validating(d)
  /\ Has(d, "filed") /\ ledger[d] = "moved"
  /\ Becomes(d, "decided") /\ job' = job \ {d}
  /\ UNCHANGED <<files, size>> /\ OnDisk

Work(d) == Transfer(d) \/ Land(d) \/ Record(d) \/ Certify(d) \/ Move(d) \/ Relocate(d) \/ Decide(d)

-----------------------------------------------------------------------------
(* One pass of sync                                                        *)

Passing(new) == pass' = new
Counted == events < MaxEvents /\ events' = events + 1
OnDrive == UNCHANGED <<local, phase, count>>

\* Every minute while the run lasts; partial files at long intervals.
Begin ==
  /\ phase = "running" /\ pass = Rest /\ Counted
  /\ \E b \in {FALSE, Checkpoint} : Passing([Rest EXCEPT !.at = "walk", !.dirs = Directory, !.partials = b])
  /\ UNCHANGED <<local, remote, phase, starts>>

\* The directories are listed one after the other.
Walk ==
  /\ pass.at = "walk" /\ pass.names = {} /\ pass.dirs # {}
  /\ \E dir \in pass.dirs :
       Passing([pass EXCEPT !.dirs = @ \ {dir}, !.names = {f \in File : f[2] \in In(dir) \cap files[f[1]]}])
  /\ UNCHANGED remote /\ OnDrive

Skip(f) == Passing([pass EXCEPT !.names = @ \ {f}])

Lists(f) == Passing([pass EXCEPT !.names = @ \ {f}, !.listed = @ \cup {f}])
Bytes(f) == IF f[2] = "part" THEN size[f[1]] ELSE Whole

\* Mutant of Kept: a partial file that is not copied is listed all the same.
Kept_Always(f) == TRUE

\* A partial file that is not copied this time is listed if an older copy exists.
Kept(f) == drive[f] > 0

\* Mutant of Opened: the copy is written at its destination.
Opened_InPlace(f) == [drive EXCEPT ![f] = 1]

\* copy_prefix: a copy that is being written is in a temporary file.
Opened(f) == drive

Visit(f) ==
  /\ pass.at = "walk" /\ f \in pass.names
  /\ IF Has(f[1], f[2]) /\ (f[2] = "part" => pass.partials) /\ drive[f] # Bytes(f)
     THEN /\ Passing([pass EXCEPT !.at = "copy", !.open = f, !.bytes = Bytes(f)])
          /\ drive' = Opened(f)
     ELSE /\ IF Has(f[1], f[2]) /\ (f[2] = "part" /\ ~pass.partials => Kept(f)) THEN Lists(f) ELSE Skip(f)
          /\ UNCHANGED drive
  /\ UNCHANGED <<saved, manifest>> /\ OnDrive

Publish ==
  /\ pass.at = "copy"
  /\ drive' = [drive EXCEPT ![pass.open] = pass.bytes]
  /\ Passing([pass EXCEPT !.at = "walk", !.names = @ \ {pass.open},
                          !.listed = @ \cup {pass.open}, !.open = <<>>, !.bytes = 0])
  /\ UNCHANGED <<saved, manifest>> /\ OnDrive

\* The ledger is read under its lock and replaced on Drive.
CopyLedger ==
  /\ pass.at = "walk" /\ pass.names = {} /\ pass.dirs = {}
  /\ saved' = ledger /\ Passing([pass EXCEPT !.at = "manifest"])
  /\ UNCHANGED <<drive, manifest>> /\ OnDrive

WriteManifest ==
  /\ pass.at = "manifest"
  /\ manifest' = pass.listed /\ Passing(Rest)
  /\ phase' = IF phase = "final" THEN "over" ELSE phase
  /\ UNCHANGED <<local, drive, saved, count>>

\* The loop logs an error and goes on; the last pass raises it.
PassFails ==
  /\ pass # Rest /\ Counted
  /\ Passing(Rest)
  /\ phase' = IF phase = "final" THEN "failed" ELSE phase
  /\ UNCHANGED <<local, remote, starts>>

Sync == Walk \/ (\E f \in File : Visit(f)) \/ Publish \/ CopyLedger \/ WriteManifest

-----------------------------------------------------------------------------
(* The end of a run                                                        *)

\* The run is over, interrupted or failed: no new job is taken.
Stop ==
  /\ phase = "running" /\ phase' = "stopping"
  /\ UNCHANGED <<local, remote, pass, count>>

\* The run is cancelled while it waits for its pool in _stop_validation_queue,
\* which has already taken the queue out of the global: the runner's own call
\* finds no queue, and nobody waits for the jobs of this pool any more.  The
\* download workers have ended before.
Abandon ==
  /\ phase = "stopping" /\ left = {}
  /\ \A d \in job : ledger[d] # "transfer"
  /\ \E docs \in SUBSET {d \in Doc : Has(d, "managed") \/ Has(d, "filed")} : left' = job \cup docs
  /\ left' # {}
  /\ UNCHANGED <<files, size, ledger, job, remote, pass, phase, count>>

\* Mutant of Quiet: the last pass does not wait for the validation queue.
Quiet_Not == pass = Rest

\* The queues that the runner still knows have been closed and the loop has
\* been joined.
Quiet == job \subseteq left /\ pass = Rest

Final ==
  /\ phase = "stopping" /\ Quiet
  /\ phase' = "final"
  /\ Passing([Rest EXCEPT !.at = "walk", !.dirs = Directory, !.partials = Checkpoint])
  /\ UNCHANGED <<local, remote, count>>

\* The machine is lost with its disk.
Lose ==
  /\ phase # "off" /\ Counted
  /\ files' = [d \in Doc |-> {}] /\ size' = [d \in Doc |-> 0]
  /\ ledger' = [d \in Doc |-> "new"] /\ job' = {} /\ left' = {}
  /\ pass' = Rest /\ phase' = "off"
  /\ UNCHANGED <<remote, starts>>

Next ==
  \/ Start \/ (\E d \in Doc : Work(d))
  \/ Begin \/ Sync \/ PassFails
  \/ Stop \/ Abandon \/ Final \/ Lose

Spec == Init /\ [][Next]_vars

-----------------------------------------------------------------------------
(* Properties                                                              *)

\* A PDF on Drive is whole, whenever a pass or the machine ends: what a later
\* run links or validates was not cut off by a copy.
NoTornPdf ==
  \A d \in Doc, p \in {"managed", "filed"} : drive[<<d, p>>] \in {0, Whole}

\* What the manifest lists is on Drive: a restore finds all of it.
ManifestIsThere == manifest # None => \A f \in manifest : drive[f] > 0

\* When a run has ended with its last pass, Drive has the ledger entry, every
\* PDF and every checkpointed partial file of a document as they are on the
\* local disk.  The documents of a pool that the run was cancelled over are
\* excepted: their files and entries may change under the last pass and after it.
EndIsSaved ==
  phase = "over" =>
    \A d \in Doc \ left :
      /\ saved[d] = ledger[d]
      /\ \A p \in files[d] :
           (p = "part" => Checkpoint) => /\ <<d, p>> \in manifest
                                         /\ drive[<<d, p>>] = Bytes(<<d, p>>)

=============================================================================
