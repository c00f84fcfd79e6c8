----------------------------- MODULE SegmentLoad -----------------------------
(***************************************************************************)
(* load_segment (segment_constructor_base.rs 180-222) on one segment       *)
(* directory, with the migration of an older storage version, and the      *)
(* process dying between any two of its file writes.                       *)
(*                                                                         *)
(* A directory is abstracted to the version its version file names and the *)
(* format of its state file (segment.json).  Versions are "0.2" (older     *)
(* than 0.3), "0.3", "0.4" (between 0.3 and the application's version),   *)
(* Cur (the application's) and "newer"; the state file is in the 0.3       *)
(* format ("v3", with config.vector_size) or in the current one ("cur",    *)
(* with config.vector_data).  Both files are written by atomic saves, so a *)
(* crash leaves each whole, but not the pair.                              *)
(***************************************************************************)
EXTENDS Naturals

CONSTANTS
  Cur,          \* SegmentVersion::current()
  MaxCrashes    \* bound on restarts

Versions == {"0.2", "0.3", "0.4", Cur, "newer"}
Formats == {"v3", "cur"}

\* The directories a build or an earlier release leaves: no version file
\* (build_segment died before its last write), or a version file with the
\* state file its release wrote.
Written ==
  {[ver |-> "none", fmt |-> "cur"]} \cup
  {[ver |-> v, fmt |-> IF v = "0.3" THEN "v3" ELSE "cur"] : v \in Versions}

VARIABLES
  files,     \* [ver, fmt]: the version file and the state file's format
  origin,    \* the directory as its release left it
  mode,      \* "down", "loading", "loaded", "skipped" or "failed"
  pc,        \* the step of load_segment that comes next
  crashes

vars == <<files, origin, mode, pc, crashes>>

\* load_segment_state_v3: serde reads the state as ObsoleteSegmentState,
\* which needs config.vector_size; a state in the current format has none.
load_segment_state_v3(fmt) == IF fmt = "v3" THEN "cur" ELSE "error"

\* Segment::load_state reads the current format, whose config.vector_data
\* the 0.3 format does not have.
load_state(fmt) == fmt = "cur"

Init ==
  /\ files \in Written
  /\ origin = files
  /\ mode = "down"
  /\ pc = "check"
  /\ crashes = 0

\* check_exists and the comparison of the stored version with the
\* application's: skip a directory without version file, refuse a newer
\* version or one older than 0.3, convert a 0.3 state, and only rewrite
\* the version file of a version in between.
CheckVersion ==
  /\ mode = "down"
  /\ CASE files.ver = "none" -> mode' = "skipped" /\ pc' = "check"
       [] files.ver \in {"newer", "0.2"} -> mode' = "failed" /\ pc' = "check"
       [] files.ver = Cur -> mode' = "loading" /\ pc' = "load_state"
       [] files.ver = "0.3" -> mode' = "loading" /\ pc' = "convert"
       [] OTHER -> mode' = "loading" /\ pc' = "save_version"
  /\ UNCHANGED <<files, origin, crashes>>

\* load_segment_state_v3(path)?, then Segment::save_state, which writes the
\* converted state with atomic_save_json.
ConvertV3 ==
  /\ mode = "loading" /\ pc = "convert"
  /\ LET st == load_segment_state_v3(files.fmt) IN
     IF st = "error"
     THEN mode' = "failed" /\ UNCHANGED <<files, pc>>
     ELSE files' = [files EXCEPT !.fmt = st] /\ pc' = "save_version" /\ UNCHANGED mode
  /\ UNCHANGED <<origin, crashes>>

\* SegmentVersion::save(path)?: the version file names Cur.
SaveVersion ==
  /\ mode = "loading" /\ pc = "save_version"
  /\ files' = [files EXCEPT !.ver = Cur]
  /\ pc' = "load_state"
  /\ UNCHANGED <<origin, mode, crashes>>

\* Segment::load_state(path)?, then create_segment opens the storages.
LoadState ==
  /\ mode = "loading" /\ pc = "load_state"
  /\ mode' = IF load_state(files.fmt) THEN "loaded" ELSE "failed"
  /\ pc' = "check"
  /\ UNCHANGED <<files, origin, crashes>>

\* The process dies or is restarted at any point; the files stay.
Restart ==
  /\ mode # "down" /\ crashes < MaxCrashes
  /\ mode' = "down" /\ pc' = "check"
  /\ crashes' = crashes + 1
  /\ UNCHANGED <<files, origin>>

Next == CheckVersion \/ ConvertV3 \/ SaveVersion \/ LoadState \/ Restart

Spec == Init /\ [][Next]_vars

----------------------------------------
\* Properties

TypeOK ==
  /\ files \in [ver : Versions \cup {"none"}, fmt : Formats]
  /\ origin \in Written
  /\ mode \in {"down", "loading", "loaded", "skipped", "failed"}
  /\ pc \in {"check", "convert", "save_version", "load_state"}
  /\ crashes \in 0..MaxCrashes

\* A segment its release wrote in a version this one can migrate (0.3 up
\* to Cur) never fails to load, whenever an earlier load_segment of it was
\* interrupted: the migration is crash-safe.
MigrationSurvivesCrash ==
  origin.ver \in {"0.3", "0.4", Cur} => mode # "failed"

========================================
