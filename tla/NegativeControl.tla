--------------------------- MODULE NegativeControl ---------------------------
(***************************************************************************)
(* The negative control of the terminal stop, nc_b6b_negative.sh: run the  *)
(* scenario with the intact build, let nc_patch_b6b.py disable the stop,   *)
(* build and run again, undo the patch and compare.  The patch keeps a     *)
(* backup of the source and a marker under /tmp, and the machine may go    *)
(* down between any two writes.                                            *)
(*                                                                         *)
(* A source is its revision and whether it is patched; whoever works on it *)
(* commits a new revision between two runs.  A write is one step: one that *)
(* is torn by the crash is left out.                                       *)
(***************************************************************************)
EXTENDS PluginSmoke

CONSTANTS
    LeastOvershoot,  \* DIFF_MIN
    MaxStarts,       \* bounds: how often the runner is started,
    MaxCrashes,      \* how often it crashes,
    MaxRevisions     \* and how often the source is edited

ASSUME NegativeControlAssumption ==
    {LeastOvershoot, MaxStarts, MaxCrashes, MaxRevisions} \subseteq Nat

VARIABLES
    source,   \* CPP
    backup,   \* BAK, NoBackup when there is none
    marker,   \* MARK exists
    binary,   \* what was built last
    runner,   \* where the runner is (pc), its measurements and its verdict
    counts    \* history: starts, crashes

files == <<source, backup, marker, binary>>
sandboxVars == <<files, runner, counts, smokeVars>>

NoBackup == [rev |-> NotRun, patched |-> FALSE]

Sources == [rev : 0..MaxRevisions, patched : BOOLEAN]

Idle == [pc |-> "idle", intact |-> NotRun, overshot |-> NotRun, verdict |-> ""]

Init ==
    /\ SmokeInit
    /\ source = [rev |-> 0, patched |-> FALSE] /\ backup = NoBackup
    /\ marker = FALSE /\ binary = source
    /\ runner = Idle /\ counts = [starts |-> 0, crashes |-> 0]

To(pc) == runner' = [runner EXCEPT !.pc = pc]

Fails == runner' = [runner EXCEPT !.pc = "idle"]

\* The runner starts, unless a patch is marked: that is reverted first.
Start ==
    /\ runner.pc = "idle" /\ counts.starts < MaxStarts
    /\ counts' = [counts EXCEPT !.starts = @ + 1]
    /\ runner' = [Idle EXCEPT !.pc = IF marker THEN "stray_revert" ELSE "launch_a"]
    /\ UNCHANGED <<files, smokeVars>>

\* revert: the backup is put back, then the marker removed; the backup stays.
\* The runner goes on even when there is nothing to put back.
Revert(pc, unmark, build) ==
    /\ runner.pc = pc
    /\ IF backup = NoBackup THEN To(build) /\ UNCHANGED source
       ELSE source' = backup /\ To(unmark)
    /\ UNCHANGED <<backup, marker, binary, counts, smokeVars>>

Unmark(pc, next) ==
    /\ runner.pc = pc
    /\ marker' = FALSE /\ To(next)
    /\ UNCHANGED <<source, backup, binary, counts, smokeVars>>

\* A build that fails ends the runner, whatever the source is then.
Build(pc, next) ==
    /\ runner.pc = pc
    /\ \/ binary' = source /\ To(next)
       \/ Fails /\ UNCHANGED binary
    /\ UNCHANGED <<source, backup, marker, counts, smokeVars>>

\* run_nc: the scenario with what was built last.
Launch(pc, next) ==
    /\ runner.pc = pc
    /\ Launched("nc", binary.patched)
    /\ To(next)
    /\ UNCHANGED <<files, counts>>

\* Phase A: the intact robot must have stopped near the end.
IntactDone ==
    /\ runner.pc = "run_a" /\ script.pc = "done"
    /\ IF /\ script.exit = 0
          /\ probes.far \in (Length - Tolerance)..(Length + Excess)
       THEN runner' = [runner EXCEPT !.pc = "apply", !.intact = probes.far]
       ELSE Fails
    /\ UNCHANGED <<files, counts, smokeVars>>

\* apply refuses a marked patch, and a source without exactly one clamp.
MayPatch == ~marker /\ ~source.patched

\* Mutant of Kept: what is backed up is the text already patched.
KeptPatched ==
    IF backup = NoBackup THEN [source EXCEPT !.patched = TRUE] ELSE backup

\* The source is backed up once.
Kept == IF backup = NoBackup THEN source ELSE backup

\* apply, one write after the other.
Apply ==
    /\ \/ /\ runner.pc = "apply"
          /\ IF MayPatch THEN backup' = Kept /\ To("patch")
             ELSE Fails /\ UNCHANGED backup
          /\ UNCHANGED <<source, marker>>
       \/ /\ runner.pc = "patch"
          /\ source' = [source EXCEPT !.patched = TRUE]
          /\ To("mark") /\ UNCHANGED <<backup, marker>>
       \/ /\ runner.pc = "mark"
          /\ marker' = TRUE
          /\ To("build_b") /\ UNCHANGED <<source, backup>>
    /\ UNCHANGED <<binary, counts, smokeVars>>

\* Phase B: whether it failed or not, the patch is reverted.
PatchedDone ==
    /\ runner.pc = "run_b" /\ script.pc = "done"
    /\ runner' = [runner EXCEPT !.pc = "revert",
                     !.overshot = IF script.exit = 0 THEN probes.far ELSE NotRun]
    /\ UNCHANGED <<files, counts, smokeVars>>

Verdict ==
    /\ runner.pc = "verdict"
    /\ runner' = [runner EXCEPT !.pc = "idle",
          !.verdict = IF runner.overshot = NotRun THEN ""
                      ELSE IF runner.overshot - runner.intact >= LeastOvershoot
                      THEN "PASS" ELSE "FAIL"]
    /\ UNCHANGED <<files, counts, smokeVars>>

Runner ==
    \/ Revert("stray_revert", "stray_unmark", "stray_build")
    \/ Unmark("stray_unmark", "stray_build")
    \/ Build("stray_build", "launch_a")
    \/ Launch("launch_a", "run_a") \/ IntactDone
    \/ Apply \/ Build("build_b", "launch_b") \/ Launch("launch_b", "run_b")
    \/ PatchedDone
    \/ Revert("revert", "unmark", "build_c") \/ Unmark("unmark", "build_c")
    \/ Build("build_c", "verdict") \/ Verdict

\* run_b6b_sandbox.sh on its own.
Stage ==
    /\ runner.pc = "idle" /\ script.pc \in {"idle", "done"}
    /\ counts.starts < MaxStarts
    /\ counts' = [counts EXCEPT !.starts = @ + 1]
    /\ \E st \in Stages \ {"nc"} : Launched(st, binary.patched)
    /\ UNCHANGED <<files, runner>>

\* The machine goes down: processes are gone, files are as they are.
Crash ==
    /\ runner.pc # "idle" /\ counts.crashes < MaxCrashes
    /\ counts' = [counts EXCEPT !.crashes = @ + 1]
    /\ Fails
    /\ script' = [script EXCEPT !.pc = "idle"]
    /\ goal' = [state |-> "none", cancel |-> FALSE]
    /\ call' = [sent |-> <<>>, reply |-> "none"]
    /\ robot' = [robot EXCEPT !.v = 0]
    /\ UNCHANGED <<files, stage, server, probes, patched>>

\* A new revision is committed and built between two runs.
Edit ==
    /\ runner.pc = "idle" /\ source.rev < MaxRevisions
    /\ source' = [source EXCEPT !.rev = @ + 1]
    /\ binary' = source'
    /\ UNCHANGED <<backup, marker, runner, counts, smokeVars>>

Next ==
    \/ Start \/ Runner \/ Stage \/ Crash \/ Edit
    \/ (Script \/ Spin \/ World) /\ UNCHANGED <<files, runner, counts>>

Spec == Init /\ [][Next]_sandboxVars

-----------------------------------------------------------------------------

\* Wherever the machine went down and whatever was committed since, a patched
\* source can be reverted: there is a backup of a revision that was never
\* patched.  It need not be the revision that was patched last: the backup is
\* made once and never renewed.
PatchCanBeUndone ==
    source.patched => backup \in Sources /\ ~backup.patched
=============================================================================
