------------------------- MODULE ExperimentTracking -------------------------
(***************************************************************************)
(* ExperimentLogger (eval_platform/tracking/experiment_logger.py) over     *)
(* ArtifactStore (eval_platform/tracking/artifact_store.py): start_run is  *)
(* a context manager that makes a run record the logger's current_run,     *)
(* log_* change current_run, and leaving the context writes current_run to *)
(* run_manifest.json in the directory of its run_id.  Several processes,   *)
(* each with its logger, may share the store.                              *)
(*                                                                         *)
(* A run_id is made of the name, the time in SECONDS and the seed.  The    *)
(* store is a table from (run_id, file name) to contents.  store_file      *)
(* copies the source and then hashes the copy: two steps, between which    *)
(* other processes run.  A hash is the contents it was computed from.      *)
(* The captured environment (git, hardware, seeds) is left out.            *)
(*                                                                         *)
(* The last four constants say what the users of the loggers do; the runs  *)
(* that leave one of them TRUE show what the code then does.               *)
(***************************************************************************)
EXTENDS Integers, Sequences, SequencesExt, FiniteSets

CONSTANTS
  Loggers,        \* ExperimentLogger objects, one per process
  RunNames,       \* values of run_name
  Seeds,          \* values of seed
  FileNames,      \* names of artifacts
  Contents,       \* contents of a source file
  MaxClock,       \* bound: seconds that pass
  MaxRuns,        \* bound: runs started
  MaxArtifacts,   \* bound: artifacts of a run
  NestedRuns,     \* start_run inside a run of the same logger
  SameSecond,     \* two runs of one name and seed within a second
  RepeatedNames,  \* two artifacts of one name in a run
  LateLogs        \* log_* after the run was left

ASSUME TrackingAssumption ==
  /\ {MaxClock, MaxRuns, MaxArtifacts} \subseteq Nat
  /\ {NestedRuns, SameSecond, RepeatedNames, LateLogs} \subseteq BOOLEAN
  /\ "run_manifest.json" \notin FileNames

VARIABLES
  clock,    \* datetime.utcnow() in seconds
  source,   \* the files that log_artifact is given
  runs,     \* the ExperimentRunRecords created, by number
  current,  \* current_run of each logger; 0 is None
  context,  \* the runs a logger is inside of, the innermost last
  storing,  \* where a logger is in store_file
  store     \* (run_id, file name) -> contents

trackingVars == <<clock, source, runs, current, context, storing, store>>

NotStoring == [id |-> <<>>, name |-> ""]

TrackingInit ==
  /\ clock = 1
  /\ source \in [FileNames -> Contents]
  /\ runs = <<>>
  /\ current = [l \in Loggers |-> 0]
  /\ context = [l \in Loggers |-> <<>>]
  /\ storing = [l \in Loggers |-> NotStoring]
  /\ store = [f \in {} |-> 0]

Put(id, name, contents) ==
  [f \in DOMAIN store \cup {<<id, name>>} |->
     IF f = <<id, name>> THEN contents ELSE store[f]]

-----------------------------------------------------------------------------
(* The clock advances and other programs rewrite the source files. *)
Tick ==
  /\ clock < MaxClock
  /\ clock' = clock + 1
  /\ UNCHANGED <<source, runs, current, context, storing, store>>

RewriteSource(name, contents) ==
  /\ source' = [source EXCEPT ![name] = contents]
  /\ UNCHANGED <<clock, runs, current, context, storing, store>>

RunId(run_name, seed) == <<run_name, clock, seed>>

(* start_run, up to the body of the with statement; outcome and begun are  *)
(* history. *)
StartRun(l, run_name, seed) ==
  LET begun == <<run_name, clock, seed>> IN
  /\ Len(runs) < MaxRuns
  /\ storing[l] = NotStoring
  /\ NestedRuns \/ context[l] = <<>>
  /\ SameSecond \/ \A r \in DOMAIN runs : runs[r].begun # begun
  /\ runs' = Append(runs,
       [id |-> RunId(run_name, seed), status |-> "RUNNING", data |-> {},
        artifacts |-> <<>>, begun |-> begun, outcome |-> "open"])
  /\ current' = [current EXCEPT ![l] = Len(runs')]
  /\ context' = [context EXCEPT ![l] = Append(@, Len(runs'))]
  /\ UNCHANGED <<clock, source, storing, store>>

HasRun(l) == current[l] # 0

(* log_parameters and log_metrics; "tensor" is a value that json.dump does *)
(* not serialize. *)
Log(l, item) ==
  /\ HasRun(l) /\ storing[l] = NotStoring
  /\ LateLogs \/ context[l] # <<>>
  /\ runs' = [runs EXCEPT ![current[l]].data = @ \cup {item}]
  /\ UNCHANGED <<clock, source, current, context, storing, store>>

(* log_artifact: store_file copies the file into the run's directory ... *)
CopyArtifact(l, name) ==
  LET id == runs[current[l]].id IN
  /\ HasRun(l) /\ storing[l] = NotStoring
  /\ LateLogs \/ context[l] # <<>>
  /\ Len(runs[current[l]].artifacts) < MaxArtifacts
  /\ RepeatedNames \/ \A i \in DOMAIN runs[current[l]].artifacts :
                         runs[current[l]].artifacts[i].name # name
  /\ store' = Put(id, name, source[name])
  /\ storing' = [storing EXCEPT ![l] = [id |-> id, name |-> name]]
  /\ UNCHANGED <<clock, source, runs, current, context>>

(* ... and hashes the copy. *)
(* (the source is hashed, not the copy) *)
HashOfSource(id, name) == source[name]

HashOf(id, name) == store[<<id, name>>]

IndexArtifact(l) ==
  LET at == storing[l] IN
  /\ at # NotStoring
  /\ runs' = [runs EXCEPT ![current[l]].artifacts =
       Append(@, [name |-> at.name, sha256 |-> HashOf(at.id, at.name)])]
  /\ storing' = [storing EXCEPT ![l] = NotStoring]
  /\ UNCHANGED <<clock, source, current, context, store>>

(* The body returns, raises an Exception (a missing file or a failed copy  *)
(* among others), or is left by KeyboardInterrupt or another BaseException,*)
(* which no clause of start_run catches.                                   *)
StatusAfter(how, status) ==
  CASE how = "returned" -> "SUCCESS"
    [] how = "raised" -> "FAILED"
    [] OTHER -> status

(* _flush_run_manifest: open(..., "w") truncates, json.dump may then raise. *)
Manifest(run) ==
  IF "tensor" \in run.data
  THEN [complete |-> FALSE, status |-> "", data |-> {}, artifacts |-> <<>>]
  ELSE [complete |-> TRUE, status |-> run.status, data |-> run.data,
        artifacts |-> run.artifacts]

(* (the manifest is written before the status is set) *)
LeaveFlushFirst(l, how) ==
  LET top == Last(context[l])
      left == [runs[current[l]] EXCEPT !.status = StatusAfter(how, @)]
  IN
  /\ context[l] # <<>>
  /\ how = "returned" => storing[l] = NotStoring
  /\ runs' = [[runs EXCEPT ![current[l]] = left] EXCEPT ![top].outcome = how]
  /\ store' = Put(left.id, "run_manifest.json", Manifest(runs[current[l]]))
  /\ context' = [context EXCEPT ![l] = Front(@)]
  /\ storing' = [storing EXCEPT ![l] = NotStoring]
  /\ UNCHANGED <<clock, source, current>>

(* Leaving the context: the exits work on current_run, whichever run the   *)
(* context was entered with. *)
Leave(l, how) ==
  LET top == Last(context[l])
      left == [runs[current[l]] EXCEPT !.status = StatusAfter(how, @)]
  IN
  /\ context[l] # <<>>
  /\ how = "returned" => storing[l] = NotStoring
  /\ runs' = [[runs EXCEPT ![current[l]] = left] EXCEPT ![top].outcome = how]
  /\ store' = Put(left.id, "run_manifest.json", Manifest(left))
  /\ context' = [context EXCEPT ![l] = Front(@)]
  /\ storing' = [storing EXCEPT ![l] = NotStoring]
  /\ UNCHANGED <<clock, source, current>>

(* The process dies: nothing is written. *)
Die(l) ==
  /\ context[l] # <<>>
  /\ runs' = [r \in DOMAIN runs |->
       IF \E i \in DOMAIN context[l] : context[l][i] = r
       THEN [runs[r] EXCEPT !.outcome = "died"] ELSE runs[r]]
  /\ current' = [current EXCEPT ![l] = 0]
  /\ context' = [context EXCEPT ![l] = <<>>]
  /\ storing' = [storing EXCEPT ![l] = NotStoring]
  /\ UNCHANGED <<clock, source, store>>

TrackingNext ==
  \/ Tick
  \/ \E name \in FileNames, c \in Contents : RewriteSource(name, c)
  \/ \E l \in Loggers :
       \/ \E run_name \in RunNames, seed \in Seeds : StartRun(l, run_name, seed)
       \/ \E item \in {"metric", "tensor"} : Log(l, item)
       \/ \E name \in FileNames : CopyArtifact(l, name)
       \/ IndexArtifact(l)
       \/ \E how \in {"returned", "raised", "interrupted"} : Leave(l, how)
       \/ Die(l)

TrackingSpec == TrackingInit /\ [][TrackingNext]_trackingVars

-----------------------------------------------------------------------------
(* Types, and that a logger works on the innermost run it is inside of.    *)
TrackingTypeOK ==
  /\ clock \in 1..MaxClock /\ source \in [FileNames -> Contents]
  /\ \A r \in DOMAIN runs :
       /\ runs[r].status \in {"RUNNING", "SUCCESS", "FAILED"}
       /\ runs[r].outcome \in
            {"open", "returned", "raised", "interrupted", "died"}
  /\ \A l \in Loggers :
       /\ current[l] \in 0..Len(runs)
       /\ context[l] # <<>> => current[l] = Last(context[l])
       /\ storing[l] # NotStoring =>
            context[l] # <<>> /\ storing[l].id = runs[current[l]].id

(* start_run is a "context manager for lifecycle tracking of a benchmark   *)
(* run" (experiment_logger.py:167): every run that was left, however,      *)
(* has its own manifest on disk, with its data and artifacts, SUCCESS      *)
(* exactly if the body returned and FAILED exactly if it raised.  A value  *)
(* that is not serializable leaves half a manifest.                        *)
Left(run) == run.outcome \in {"returned", "raised", "interrupted"}

HasManifest(run) ==
  /\ <<run.id, "run_manifest.json">> \in DOMAIN store
  /\ LET m == store[<<run.id, "run_manifest.json">>] IN
     /\ m.complete = ("tensor" \notin run.data)
     /\ m.complete =>
          /\ m.data = run.data /\ m.artifacts = run.artifacts
          /\ m.status = "SUCCESS" <=> run.outcome = "returned"
          /\ m.status = "FAILED" <=> run.outcome = "raised"

ManifestMatchesRun ==
  \A r \in DOMAIN runs : Left(runs[r]) => HasManifest(runs[r])

(* The store offers "checksum validation (SHA-256)" of the artifacts       *)
(* (artifact_store.py:2): whatever a manifest on disk lists is stored      *)
(* under its name with the contents of that hash, other processes          *)
(* rewriting the sources notwithstanding.                                  *)
ArtifactsIntact ==
  \A f \in DOMAIN store :
    f[2] = "run_manifest.json" =>
      \A i \in DOMAIN store[f].artifacts :
        LET a == store[f].artifacts[i] IN
        /\ <<f[1], a.name>> \in DOMAIN store
        /\ store[<<f[1], a.name>>] = a.sha256

(* What is on disk is the record of the runs: every run that was left has  *)
(* its own manifest, and every artifact of a manifest is there intact.     *)
RunsOnRecord == ManifestMatchesRun /\ ArtifactsIntact

(* log_parameters and log_metrics refuse to log when there is "No active   *)
(* run" (experiment_logger.py:200): what they accept is logged to a run    *)
(* that has not been left.                                                 *)
LoggedIntoOpenRun ==
  [][\A r \in DOMAIN runs : runs'[r].data # runs[r].data => ~Left(runs[r])]_trackingVars
=============================================================================
