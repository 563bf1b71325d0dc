------------------------------ MODULE SelfUpdate ------------------------------
(***************************************************************************)
(* `memmux update`: each of the two installed binaries is copied beside    *)
(* its place and renamed over it, memmux first.  Runs of the command may   *)
(* fail or die anywhere, leave their copy behind and cross each other: the *)
(* name a copy is staged under is the same for every run.                  *)
(***************************************************************************)
EXTENDS Integers

CONSTANTS
  Updaters,   \* those who run `memmux update`
  Latest      \* bound: the last release; releases are 1..Latest

ASSUME UpdateAssumption == Latest \in Nat \ {0}

Binaries == {"memmux", "memmuxd"}

VARIABLES
  released,    \* the newest release
  installed,   \* the file of each binary in bin_dir
  staged,      \* the file `.<name>.new` of each
  updates,     \* the run under way of each updater
  excuses      \* what has happened since an update last went through undisturbed

updateVars == <<released, installed, staged, updates, excuses>>

(* A file: the releases its contents come from, whether a copy of it was   *)
(* cut short, and who is copying into it.                                  *)
Emptied(writers) == [of |-> {}, cut |-> FALSE, open |-> writers]
NoFile        == Emptied({})
FileOf(tag)   == [of |-> {tag}, cut |-> FALSE, open |-> {}]
Whole(file)   == \E tag \in 1..Latest : file = FileOf(tag)
Files         == [of : SUBSET (1..Latest), cut : BOOLEAN, open : SUBSET Updaters]

NoUpdate      == [step |-> "none", name |-> "memmux", tag |-> 1, pinned |-> FALSE, alone |-> TRUE]
Updating(u)   == updates[u].step # "none"

UpdateTypeOK ==
  /\ released \in 1..Latest /\ installed \in [Binaries -> Files] /\ staged \in [Binaries -> Files]
  /\ updates \in [Updaters -> [step : {"none", "stage", "copy", "rename"}, name : Binaries,
                               tag : 1..Latest, pinned : BOOLEAN, alone : BOOLEAN]]
  /\ excuses \subseteq {"torn", "crossed"}

UpdateInit ==
  /\ released = 1 /\ installed = [n \in Binaries |-> FileOf(1)] /\ staged = [n \in Binaries |-> NoFile]
  /\ updates = [u \in Updaters |-> NoUpdate] /\ excuses = {}

Release ==
  /\ released < Latest /\ released' = released + 1
  /\ UNCHANGED <<installed, staged, updates, excuses>>

(* is_newer, on the parsed version triples.                                *)
IsNewer(latest, current) == latest > current

(* run_update, up to the download: the release MEMMUX_VERSION names, or    *)
(* the newest one when it is newer than the memmux that runs.              *)
BeginUpdate(u) ==
  /\ ~Updating(u)
  /\ \E current \in 1..Latest, tag \in 1..released, pinned \in BOOLEAN :
       /\ installed["memmux"] = FileOf(current)
       /\ pinned \/ (tag = released /\ IsNewer(tag, current))
       /\ LET crossed == \E v \in Updaters : Updating(v)
          IN  /\ updates' = [v \in Updaters |->
                   IF v = u THEN [step |-> "stage", name |-> "memmux", tag |-> tag,
                                  pinned |-> pinned, alone |-> ~crossed]
                   ELSE [updates[v] EXCEPT !.alone = @ /\ ~Updating(v)]]
              /\ excuses' = IF crossed THEN excuses \cup {"crossed"} ELSE excuses
  /\ UNCHANGED <<released, installed, staged>>

(* Copied straight over the binary.                                        *)
StageInPlace(u) ==
  LET name == updates[u].name IN
  /\ updates[u].step = "stage"
  /\ installed' = [installed EXCEPT ![name] = Emptied(installed[name].open \cup {u})]
  /\ updates' = [updates EXCEPT ![u].step = "copy"]
  /\ UNCHANGED <<released, staged, excuses>>

(* swap_binaries, one binary: fs::copy opens the staged name and empties   *)
(* what it finds there,                                                    *)
StageBinary(u) ==
  LET name == updates[u].name IN
  /\ updates[u].step = "stage"
  /\ staged' = [staged EXCEPT ![name] = Emptied(staged[name].open \cup {u})]
  /\ updates' = [updates EXCEPT ![u].step = "copy"]
  /\ UNCHANGED <<released, installed, excuses>>

(* writes into the file it opened, wherever that was renamed to meanwhile, *)
Written(file, u) ==
  IF u \in file.open THEN [file EXCEPT !.of = @ \cup {updates[u].tag}, !.open = @ \ {u}] ELSE file

CopyBinary(u) ==
  /\ updates[u].step = "copy"
  /\ installed' = [n \in Binaries |-> Written(installed[n], u)]
  /\ staged' = [n \in Binaries |-> Written(staged[n], u)]
  /\ updates' = [updates EXCEPT ![u].step = "rename"]
  /\ UNCHANGED <<released, excuses>>

(* and what now has the staged name is renamed over the binary.            *)
RenameBinary(u) ==
  LET run == updates[u] IN
  /\ run.step = "rename" /\ staged[run.name] # NoFile
  /\ installed' = [installed EXCEPT ![run.name] = staged[run.name]]
  /\ staged' = [staged EXCEPT ![run.name] = NoFile]
  /\ updates' = [updates EXCEPT ![u] =
       IF run.name = "memmux" THEN [run EXCEPT !.step = "stage", !.name = "memmuxd"] ELSE NoUpdate]
  /\ excuses' = IF run.name = "memmuxd" /\ run.alone THEN {} ELSE excuses
  /\ UNCHANGED released

(* Download, extraction, a missing binary, the copy or the rename fails,   *)
(* or the process dies; what was swapped stays, and so does the copy.      *)
Cut(file, u) == IF u \in file.open THEN [file EXCEPT !.cut = TRUE, !.open = @ \ {u}] ELSE file
UpdateFails(u) ==
  /\ Updating(u)
  /\ installed' = [n \in Binaries |-> Cut(installed[n], u)]
  /\ staged' = [n \in Binaries |-> Cut(staged[n], u)]
  /\ updates' = [updates EXCEPT ![u] = NoUpdate]
  /\ excuses' = IF updates[u].name = "memmuxd" THEN excuses \cup {"torn"} ELSE excuses
  /\ UNCHANGED released

UpdateNext ==
  \/ Release
  \/ \E u \in Updaters :
       BeginUpdate(u) \/ StageBinary(u) \/ CopyBinary(u) \/ RenameBinary(u) \/ UpdateFails(u)

UpdateSpec == UpdateInit /\ [][UpdateNext]_updateVars

-----------------------------------------------------------------------------
(* Properties.                                                             *)

(* swap_binaries means to "atomically replace those binaries": while no    *)
(* two updates cross, each installed binary is a whole copy of one release *)
(* whatever failed or was left behind; between updates the two are of one  *)
(* release unless one failed between its two renames; and an update that   *)
(* picks the release itself, undisturbed, takes nobody back to an older    *)
(* one.  An undisturbed update that goes through makes up for all before.  *)
InstallsAreWhole ==
  /\ "crossed" \notin excuses => \A n \in Binaries : Whole(installed[n])
  /\ excuses = {} /\ (\A u \in Updaters : ~Updating(u)) => installed["memmux"] = installed["memmuxd"]
  /\ \A u \in Updaters : Updating(u) /\ updates[u].alone /\ ~updates[u].pinned =>
       \A n \in Binaries : installed[n].of \subseteq 1..updates[u].tag

=============================================================================
