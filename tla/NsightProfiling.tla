-------------------------- MODULE NsightProfiling --------------------------
(***************************************************************************)
(* NsightComputeProfiler (cudaforge/profiler.py): profile_python_cmd runs  *)
(* ncu, which writes a CSV file while it profiles, and _parse_ncu_csv      *)
(* reads the file.  The name of the file is fixed, so profilers with one   *)
(* output_dir, the temporary directory by default, share it.               *)
(*                                                                         *)
(* ncu is external: it empties the file when it starts, writes a row for   *)
(* every metric of every launch, in order, and may fail in between.  A row *)
(* is its kernel, its metric and its value (NotANumber: no float); one     *)
(* with too few columns is Short.  The header is left out.                 *)
(***************************************************************************)
EXTENDS Integers, Sequences, SequencesExt, FiniteSetsExt

CONSTANTS
  Profilers,      \* NsightComputeProfiler objects, one process each
  Commands,      \* python commands: the launches, each a kernel and values
  target_metrics, \* the metrics of a launch, in the order of the rows
  MaxProfiles,    \* bound: calls of profile_python_cmd
  SharedDir,      \* whether all profilers have one output_dir
  ShortRows       \* whether rows may be cut

ASSUME NsightAssumption ==
  /\ target_metrics \in Seq(STRING) /\ target_metrics # <<>>
  /\ MaxProfiles \in Nat
  /\ {SharedDir, ShortRows} \subseteq BOOLEAN

VARIABLES
  csv,      \* output_dir -> the rows of the file; absent before the first run
  profile   \* what each profiler is doing

nsightVars == <<csv, profile>>

NotANumber == -1
Short == "short"

ASSUME CommandAssumption ==
  \A work \in Commands :
    work \in Seq(Range(work)) /\ \A launch \in Range(work) : launch.kernel # Short

NotProfiling ==
  [pc |-> "idle", work |-> <<>>, rows |-> <<>>, calls |-> 0, report |-> <<>>]

NsightInit ==
  csv = <<>> /\ profile = [p \in Profilers |-> NotProfiling]

output_csv(p) == IF SharedDir THEN "tmp" ELSE p

FileWith(file, rows) ==
  [f \in DOMAIN csv \cup {file} |-> IF f = file THEN rows ELSE csv[f]]

-----------------------------------------------------------------------------
(* The rows of a command, launch by launch. *)
RowsOf(work) ==
  [i \in 1..(Len(work) * Len(target_metrics)) |->
     LET launch == work[((i - 1) \div Len(target_metrics)) + 1]
         metric == target_metrics[((i - 1) % Len(target_metrics)) + 1]
     IN [kernel |-> launch.kernel, metric |-> metric, value |-> launch.values[metric]]]

(* (without --force-overwrite) *)
Kept(file) == IF file \in DOMAIN csv THEN csv[file] ELSE <<>>

AtStart(file) == <<>>

StartProfile(p, work) ==
  /\ profile[p].pc \in {"idle", "done", "failed"} /\ profile[p].calls < MaxProfiles
  /\ profile' = [profile EXCEPT ![p] =
       [pc |-> "ncu", work |-> work, rows |-> RowsOf(work),
        calls |-> profile[p].calls + 1, report |-> <<>>]]
  /\ csv' = FileWith(output_csv(p), AtStart(output_csv(p)))

NextRows(p) ==
  IF profile[p].rows = <<>> THEN {}
  ELSE {Head(profile[p].rows)} \cup (IF ShortRows THEN {[kernel |-> Short]} ELSE {})

WriteRow(p, row) ==
  /\ profile[p].pc = "ncu"
  /\ csv' = FileWith(output_csv(p), Append(csv[output_csv(p)], row))
  /\ profile' = [profile EXCEPT ![p].rows = Tail(@)]

(* check=True: a status other than 0 is a RuntimeError. *)
NcuFails(p) ==
  /\ profile[p].pc = "ncu"
  /\ profile' = [profile EXCEPT ![p].pc = "failed"]
  /\ UNCHANGED csv

-----------------------------------------------------------------------------
(* _parse_ncu_csv: rows that are too short are skipped, a value that is no *)
(* number counts as 0, a later row of a kernel and metric replaces an      *)
(* earlier one. *)
Whole(rows) == {row \in Range(rows) : row.kernel # Short}

Value(row) == IF row.value = NotANumber THEN 0 ELSE row.value

LastValue(rows, kernel, metric) ==
  LET at == {i \in DOMAIN rows : rows[i].kernel = kernel /\ rows[i].metric = metric} IN
  IF at = {} THEN 0 ELSE Value(rows[Max(at)])

(* One report per kernel; a metric without a row is 0. *)
Parsed(rows) ==
  [k \in {row.kernel : row \in Whole(rows)} |->
     [m \in Range(target_metrics) |-> LastValue(rows, k, m)]]

ParseCsv(p) ==
  /\ profile[p].pc = "ncu" /\ profile[p].rows = <<>>
  /\ profile' = [profile EXCEPT ![p].pc = "done",
                               ![p].report = Parsed(csv[output_csv(p)])]
  /\ UNCHANGED csv

NsightNext ==
  \E p \in Profilers :
    \/ \E work \in Commands : StartProfile(p, work)
    \/ \E row \in NextRows(p) : WriteRow(p, row)
    \/ NcuFails(p)
    \/ ParseCsv(p)

NsightSpec == NsightInit /\ [][NsightNext]_nsightVars

-----------------------------------------------------------------------------
NsightTypeOK ==
  /\ DOMAIN csv \subseteq Profilers \cup {"tmp"}
  /\ \A p \in Profilers :
       /\ profile[p].pc \in {"idle", "ncu", "done", "failed"}
       /\ profile[p].calls \in 0..MaxProfiles
       /\ profile[p].pc # "idle" => profile[p].work \in Commands

(* profile_python_cmd "runs a Python invocation under Nsight Compute and   *)
(* extracts structured metrics" (profiler.py:76): what it returns has the  *)
(* kernels of its own command and no other, each with the metrics of ONE   *)
(* launch, its last, whatever an earlier call left in the file, failed     *)
(* half-way or not.  Needs an output_dir of its own and rows that are      *)
(* whole.                                                                  *)
LastLaunch(work, kernel) ==
  work[Max({i \in DOMAIN work : work[i].kernel = kernel})]

ReportOfOwnRun ==
  \A p \in Profilers : profile[p].pc = "done" =>
    LET work == profile[p].work
        report == profile[p].report
    IN
    /\ DOMAIN report = {launch.kernel : launch \in Range(work)}
    /\ \A k \in DOMAIN report : \A m \in Range(target_metrics) :
         report[k][m] = Value([value |-> LastLaunch(work, k).values[m]])
=============================================================================
