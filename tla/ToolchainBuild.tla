--------------------------- MODULE ToolchainBuild ---------------------------
(***************************************************************************)
(* The scripts that build the OpenISA toolchain, run again and again until *)
(* they get through: build.sh, and artifact17docker/build.sh under docker. *)
(*                                                                         *)
(* A script is a sequence of stages.  A stage is skipped when the artefact *)
(* that guards it is on disk; otherwise its commands run one by one, and   *)
(* the first that fails ends the script through check_error.  What a run   *)
(* leaves on disk is what the next one finds.  Any command may fail (the   *)
(* network, a compiler error) and the whole run may be killed.             *)
(*                                                                         *)
(* A command stands for consecutive lines of a script with the same needs. *)
(* Its outputs appear one at a time, in an order that make, ninja and git  *)
(* decide.                                                                 *)
(***************************************************************************)
EXTENDS Naturals, Sequences

CONSTANTS
  Scripts, \* TRUE: artifact17docker/build.sh, FALSE: build.sh
  MaxRuns  \* bound: runs of the script

ASSUME ScriptAssumption == Scripts \subseteq BOOLEAN
ASSUME RunsAssumption == MaxRuns \in Nat \ {0}

VARIABLES
  artifact,\* the script; never changes
  disk,    \* the artefacts on disk
  status,  \* of the current run, or of the last one
  stage,   \* the stage the run is at
  cmd,     \* its command within the stage, 0 before the guard is tested
  left,    \* the outputs that the command has still to write
  faulted, \* some command of this run failed through no fault of the script
  runs,    \* the runs so far
  built,   \* history: some run has finished
  cut      \* history: stages in which a run stopped with their guard on disk

vars == <<artifact, disk, status, stage, cmd, left, faulted, runs, built, cut>>

-----------------------------------------------------------------------------
(***************************************************************************)
(* The scripts.  "clone" and "mkdir" refuse to overwrite, "link" goes one  *)
(* level deeper when its target is there, "clean" removes its outputs.     *)
(***************************************************************************)
Cmd(op, outs, needs) == [op |-> op, outs |-> outs, needs |-> needs]
Stage(guard, cmds) == [guard |-> guard, cmds |-> cmds]

\* Mutants of guards: an artefact that is not made; that of the stage before.
CompilerGuard_Elsewhere == "bin/clang"

NewlibGuard_Install == "clang"

BinutilsGuard == "ld"
CompilerGuard == "obj/bin/clang"
InstallGuard == "clang"
NewlibGuard == "libc.a"

Binutils == Stage(BinutilsGuard, <<
  Cmd("clone", {"openisa", "openisa files"}, {}),
  Cmd("write", {"binutils files"}, {"openisa files"}),
  Cmd("write", {"linker build"}, {"binutils files"}),
  Cmd("write", {"ld", "other binutils"}, {"linker build"}) >>)

Llvm == Stage("llvm-openisa", <<
  Cmd("clone", {"llvm-openisa", "llvm files"}, {}) >>)

\* Mutant: the directory is made as build.sh does, in both scripts.
MakeDir_Plain(dir, needs) == Cmd("mkdir", {dir}, needs)

\* mkdir -p in artifact17docker/build.sh, mkdir in build.sh.
MakeDir(dir, needs) ==
  Cmd(IF artifact THEN "write" ELSE "mkdir", {dir}, needs)

Compiler == Stage(CompilerGuard, <<
  MakeDir("obj", {}),
  Cmd("write", {"obj/bin/clang"}, {"obj", "llvm files"}) >>)

Install == Stage(InstallGuard,
  << Cmd("write", {"clang", "other OpenISA tools"}, {"obj"}) >>
    \o IF artifact THEN << Cmd("clean", {"obj/bin/clang"}, {}) >> ELSE << >>)

Newlib == Stage(NewlibGuard, <<
  MakeDir("newlib build", {"openisa files"}),
  Cmd("write", {"newlib objects"}, {"newlib build", "clang", "other binutils"}),
  Cmd("write", {"libc.a", "libc headers"}, {"newlib objects"}),
  Cmd("write", {"ac_link.ld"}, {"libc.a"}),
  Cmd("write", {"ac_start.o"}, {"libc.a", "clang"}) >>)

\* What follows the toolchain in artifact17docker/build.sh has no guard.
Benchmarks == Stage("no guard", <<
  Cmd("link", {"/tools", "/tools/sbt-sysheaders"}, {}),
  Cmd("write", {"benchmarks"}, {"clang", "libc.a", "openisa files"}) >>)

Script == << Binutils, Llvm, Compiler, Install, Newlib >>
            \o IF artifact THEN << Benchmarks >> ELSE << >>

Commands == {Script[i].cmds[k] : <<i, k>> \in
              {p \in (1..Len(Script)) \X (1..9) : p[2] <= Len(Script[p[1]].cmds)}}

Artefacts == UNION {c.outs : c \in Commands}

\* What the README tells the user to expect in oi-toolchain.
Toolchain == {"ld", "other binutils", "clang", "other OpenISA tools", "libc.a",
              "libc headers", "ac_link.ld", "ac_start.o"}

-----------------------------------------------------------------------------
(***************************************************************************)
(* One run.                                                                *)
(***************************************************************************)
Running == status = "running"

Current == Script[stage].cmds[cmd]

\* Continue at command k of stage i.
Continue(i, k) ==
  /\ stage' = i
  /\ cmd' = k
  /\ left' = IF k = 0 THEN {} ELSE Script[i].cmds[k].outs

Advance ==
  IF cmd < Len(Script[stage].cmds)
  THEN Continue(stage, cmd + 1)
  ELSE Continue(stage + 1, 0)

\* The shell is gone: only the disk remembers where it was.
Stop(how) ==
  /\ status' = how
  /\ stage' = 1
  /\ cmd' = 0
  /\ left' = {}
  /\ cut' = IF cmd > 0 /\ Script[stage].guard \in disk' THEN cut \cup {stage} ELSE cut
  /\ UNCHANGED <<artifact, runs, built>>

Start ==
  /\ status \in {"idle", "failed", "killed", "finished"}
  /\ runs < MaxRuns
  /\ status' = "running"
  /\ runs' = runs + 1
  /\ faulted' = FALSE
  /\ UNCHANGED <<artifact, disk, stage, cmd, left, built, cut>>

TestGuard ==
  /\ Running /\ cmd = 0 /\ stage <= Len(Script)
  /\ IF Script[stage].guard \in disk
     THEN Continue(stage + 1, 0)
     ELSE Continue(stage, 1)
  /\ UNCHANGED <<artifact, disk, status, faulted, runs, built, cut>>

\* The command cannot even begin with what is on disk.
Blocked ==
  \/ ~(Current.needs \subseteq disk)
  \/ Current.op \in {"clone", "mkdir"} /\ Current.outs \cap disk # {}
  \/ Current.op = "link" /\ Current.outs \subseteq disk

Begins == left = Current.outs

Refuse ==
  /\ Running /\ cmd > 0 /\ Begins
  /\ Blocked
  /\ UNCHANGED <<disk, faulted>>
  /\ Stop("failed")

\* An output appears; a command that overwrites may find it already there.
Write(o) ==
  /\ Running /\ cmd > 0
  /\ Begins => ~Blocked
  /\ Current.op \in {"write", "clone", "mkdir"}
  /\ o \in left
  /\ disk' = disk \cup {o}
  /\ IF left = {o}
     THEN Advance
     ELSE left' = left \ {o} /\ UNCHANGED <<stage, cmd>>
  /\ UNCHANGED <<artifact, status, faulted, runs, built, cut>>

Link ==
  /\ Running /\ cmd > 0 /\ ~Blocked
  /\ Current.op = "link"
  /\ disk' = disk \cup {IF "/tools" \in disk THEN "/tools/sbt-sysheaders" ELSE "/tools"}
  /\ Advance
  /\ UNCHANGED <<artifact, status, faulted, runs, built, cut>>

\* ninja clean, whose failure is not checked.
Clean ==
  /\ Running /\ cmd > 0
  /\ Current.op = "clean"
  /\ disk' = disk \ Current.outs
  /\ Advance
  /\ UNCHANGED <<artifact, status, faulted, runs, built, cut>>

\* A command fails.  git removes what a failed clone has fetched.
Fail ==
  /\ Running /\ cmd > 0
  /\ Current.op # "clean"
  /\ disk' = IF Current.op = "clone" /\ ~Begins THEN disk \ Current.outs ELSE disk
  /\ faulted' = TRUE
  /\ Stop("failed")

\* The run is killed, at any point.
Kill ==
  /\ Running
  /\ faulted' = TRUE
  /\ UNCHANGED disk
  /\ Stop("killed")

Finish ==
  /\ Running /\ cmd = 0 /\ stage = Len(Script) + 1
  /\ status' = "finished"
  /\ stage' = 1
  /\ built' = TRUE
  /\ UNCHANGED <<artifact, disk, cmd, left, faulted, runs, cut>>

(***************************************************************************)
(* The Dockerfile runs crossbuild_arm.sh when build.sh returns 0.  The     *)
(* exit of check_error returns the status of the echo before it.           *)
(***************************************************************************)
ExitStatus(how) == IF how \in {"finished", "failed"} THEN 0 ELSE 1

Crossbuild ==
  /\ artifact
  /\ status \in {"finished", "failed", "killed"}
  /\ ExitStatus(status) = 0
  /\ status' = "crossbuild"
  /\ UNCHANGED <<artifact, disk, stage, cmd, left, faulted, runs, built, cut>>

-----------------------------------------------------------------------------
Init ==
  /\ artifact \in Scripts
  /\ disk = {}
  /\ status = "idle"
  /\ stage = 1
  /\ cmd = 0
  /\ left = {}
  /\ faulted = FALSE
  /\ runs = 0
  /\ built = FALSE
  /\ cut = {}

Next ==
  \/ Start
  \/ TestGuard
  \/ Refuse
  \/ \E o \in left : Write(o)
  \/ Link
  \/ Clean
  \/ Fail
  \/ Kill
  \/ Finish
  \/ Crossbuild

Spec == Init /\ [][Next]_vars

-----------------------------------------------------------------------------
(***************************************************************************)
(* Properties.                                                             *)
(***************************************************************************)
\* A finished build is final: later runs of build.sh change nothing on disk and
\* do not fail.
FinishedIsFinal ==
  [][built /\ ~artifact => disk' = disk /\ (status' = "failed" => faulted')]_vars

\* With mkdir -p a run that nothing interferes with gets through after any
\* earlier failures, unless it has to clone or link what is there already.
StuckOnlyAtClone ==
  [][status' = "failed" /\ ~faulted' /\ artifact /\ cut = {} =>
       Running /\ Current.op \in {"clone", "link"}]_vars

\* "Finished :-) Tools installed in ...": whatever failed before, only what
\* the stages in cut install may be missing.
FinishedMeansComplete ==
  status = "finished" => \A i \in 1..Len(Script) \ cut :
    \A k \in 1..Len(Script[i].cmds) : Script[i].cmds[k].outs \cap Toolchain \subseteq disk

=============================================================================
