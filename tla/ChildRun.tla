------------------------------ MODULE ChildRun ------------------------------
(***************************************************************************)
(* The user's command inside the sandbox and the three places that watch   *)
(* it: the select of `ntnbox run`, that of `ntnbox replay`, and the        *)
(* dashboard's Run.  All three stop it alike: SIGTERM, three seconds,      *)
(* SIGKILL, and then a wait for cmd.Wait without a limit.                  *)
(*                                                                         *)
(* Under the dashboard the output goes through a pipe that readLines       *)
(* drains.  cmd.Wait returns when the child has exited AND the goroutine   *)
(* that copies into that pipe is done: which it is not before the last     *)
(* descendant of the command that holds the pipe has ended, and never is   *)
(* once readLines has left with output still to come.  Without a dashboard *)
(* the output is a file, and cmd.Wait is about the child alone.  Both      *)
(* signals go to the child alone, never to a descendant.                   *)
(***************************************************************************)
EXTENDS Naturals

CONSTANTS
  MaxLines    \* bound: lines of output the dashboard is given per child

ASSUME MaxLinesAssumption == MaxLines \in Nat

VARIABLES
  child,      \* "none", "running" or "exited"
  heirs,      \* kinds of the descendants that the command has left running:
              \* "holding" the dashboard's pipe, or "quiet", without it
  watch,      \* "off", "watching", "grace" (SIGTERM sent) or "killing"
  reading,    \* readLines still drains the pipe
  stuck,      \* the copying goroutine waits for a reader that has gone
  lines,      \* lines printed so far
  replayed    \* the replayer's goroutine has returned

childVars == <<child, heirs, watch, reading, stuck, lines, replayed>>

ChildTypeOK ==
  /\ child \in {"none", "running", "exited"}
  /\ heirs \subseteq {"quiet", "holding"}
  /\ watch \in {"off", "watching", "grace", "killing"}
  /\ reading \in BOOLEAN /\ stuck \in BOOLEAN /\ replayed \in BOOLEAN
  /\ lines \in 0..MaxLines

ChildInit ==
  /\ child = "none" /\ heirs = {} /\ watch = "off" /\ reading = FALSE
  /\ stuck = FALSE /\ lines = 0 /\ replayed = FALSE

ClearChild ==
  /\ child' = "none" /\ heirs' = {} /\ watch' = "off" /\ reading' = FALSE
  /\ stuck' = FALSE /\ lines' = 0 /\ replayed' = FALSE

(* cmd.Wait has returned.                                                  *)
Waited == child = "exited" /\ ~stuck /\ "holding" \notin heirs

(* Quiet descendants of a command before it (another replay) live on.      *)
StartChild ==
  /\ child' = "running" /\ watch' = "watching" /\ reading' = TRUE
  /\ stuck' = FALSE /\ lines' = 0 /\ replayed' = FALSE
  /\ UNCHANGED heirs

ChildExits ==
  /\ child = "running"
  /\ child' = "exited"
  /\ UNCHANGED <<heirs, watch, reading, stuck, lines, replayed>>

(* A process of the command that may write to its output.                  *)
Writing == child = "running" \/ "holding" \in heirs

(* Such a process leaves one behind: a job in the background, a daemon.    *)
Fork(kind) ==
  /\ Writing
  /\ heirs' = heirs \union {kind}
  /\ UNCHANGED <<child, watch, reading, stuck, lines, replayed>>

(* The last descendant of a kind ends.                                     *)
HeirsEnd(kind) ==
  /\ kind \in heirs
  /\ heirs' = heirs \ {kind}
  /\ UNCHANGED <<child, watch, reading, stuck, lines, replayed>>

(* The session is over: its descendants are the host's from here on.       *)
Disown ==
  /\ heirs' = {}
  /\ UNCHANGED <<child, watch, reading, stuck, lines, replayed>>

(* The replayer has played the file, failed, or seen the cancelled context. *)
ReplayEnds ==
  /\ watch # "off" /\ ~replayed
  /\ replayed' = TRUE
  /\ UNCHANGED <<child, heirs, watch, reading, stuck, lines>>

(* A line for the dashboard.  The first one after the context is cancelled *)
(* makes readLines return; a line beyond bufio.Scanner's 64 kB ends Scan,  *)
(* with the rest of that line still in the pipe.                           *)
PrintLine(long, cancelled) ==
  /\ Writing /\ lines < MaxLines
  /\ lines' = lines + 1
  /\ reading' = (reading /\ ~long /\ ~cancelled)
  /\ stuck' = (stuck \/ ~reading \/ long)
  /\ UNCHANGED <<child, heirs, watch, replayed>>

SeeExit ==
  /\ watch = "watching" /\ Waited
  /\ watch' = "off"
  /\ UNCHANGED <<child, heirs, reading, stuck, lines, replayed>>

Terminate ==
  /\ watch = "watching"
  /\ watch' = "grace"
  /\ UNCHANGED <<child, heirs, reading, stuck, lines, replayed>>

\* Mutant: nothing but the child's own exit ends the wait after SIGTERM.
GraceUnlimited ==
  /\ watch = "grace" /\ Waited
  /\ watch' = "killing"
  /\ UNCHANGED <<child, heirs, reading, stuck, lines, replayed>>

GraceOver ==
  /\ watch = "grace"
  /\ watch' = "killing"
  /\ UNCHANGED <<child, heirs, reading, stuck, lines, replayed>>

(* SIGKILL takes effect, on the child.                                     *)
KillLands ==
  /\ watch = "killing" /\ child = "running"
  /\ child' = "exited"
  /\ UNCHANGED <<heirs, watch, reading, stuck, lines, replayed>>

Reap ==
  /\ watch \in {"grace", "killing"} /\ Waited
  /\ watch' = "off"
  /\ UNCHANGED <<child, heirs, reading, stuck, lines, replayed>>
=============================================================================
