----------------------------- MODULE FileSteps -----------------------------
(***************************************************************************)
(* What the command line's transactions do to the file system. A disk maps *)
(* each path to what stands there; a plan is the sequence of atomic steps  *)
(* a function performs. The process that runs a plan holds the lock of its *)
(* transaction, so nobody else changes its paths: the checks a function    *)
(* makes are decided on the disk it starts from, and a check that does not *)
(* hold is the step Fail, after which the rest of the plan is not reached. *)
(* A kill of the process falls between two steps. A loss of power does so  *)
(* too as far as the code syncs what it did before it goes on: journals,   *)
(* renames, directories and generated files, but not the files copied into *)
(* the tree of an update, nor the Cargo.lock copied by a generation.       *)
(***************************************************************************)
EXTENDS Sequences

CONSTANTS
  Version,  \* contents of a file or of a whole tree
  Absent,   \* nothing stands at the path
  Partial,  \* a tree some of whose files are missing: its manifest disagrees
  Empty     \* a journal without a complete record: just created, or torn

ASSUME ContentsAssumption ==
  /\ Absent \notin Version /\ Partial \notin Version /\ Empty \notin Version
  /\ Absent # Partial /\ Absent # Empty /\ Partial # Empty

Put(path, content) == <<[do |-> "put", path |-> path, content |-> content]>>
Move(from, to)     == <<[do |-> "move", path |-> from, content |-> to]>>
Fail               == <<[do |-> "fail", path |-> Absent, content |-> Absent]>>

When(condition, plan) == IF condition THEN plan ELSE <<>>
Check(condition)      == When(~condition, Fail)

\* fs::remove_file, which a missing file does not disturb.
Remove(path) == Put(path, Absent)
\* fs::remove_dir_all and the copy of a tree are not atomic: files go, or
\* appear, one at a time.
RemoveTree(path)    == Put(path, Partial) \o Put(path, Absent)
WriteTree(path, v)  == Put(path, Partial) \o Put(path, v)
\* RecoveryJournal::start creates the file and then writes the first record.
StartJournal(path, record) == Put(path, Empty) \o Put(path, record)

Exists(disk, path) == disk[path] # Absent
\* ownership::validate_owned_tree: the manifest is there and every file matches.
Whole(disk, path)  == disk[path] \in Version
\* read_latest: a journal that is missing or whose first record is torn has no phase.
Phase(disk, path)  == IF disk[path] \in {Absent, Empty} THEN "none" ELSE disk[path].phase

Execute(disk, step) ==
  IF step.do = "put"
  THEN [disk EXCEPT ![step.path] = step.content]
  ELSE [disk EXCEPT ![step.content] = disk[step.path], ![step.path] = Absent]

Failing(plan) == plan # <<>> /\ Head(plan).do = "fail"
=============================================================================
