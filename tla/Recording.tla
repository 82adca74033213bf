------------------------------ MODULE Recording ------------------------------
(***************************************************************************)
(* The recorder and the replayer of coverage events (internal/recorder).   *)
(* The recorder evaluates a device's coverage again when the event reaches *)
(* it, and writes a row; the replayer publishes each row as an event.      *)
(***************************************************************************)
EXTENDS Integers, Sequences

CONSTANT Unending  \* JSON has no +Inf: such a row cannot be written

VARIABLES
  file,      \* the rows of the recording
  replayed,  \* the events the replay has published (history)
  replay     \* "idle", "running", "cancelled" or "done"

recordingVars == <<file, replayed, replay>>

RecordingTypeOK(Kinds) ==
  /\ file \in Seq([kind : Kinds, inCoverage : BOOLEAN])
  /\ Len(replayed) <= Len(file)
  /\ \A i \in DOMAIN replayed : replayed[i] \in [kind : Kinds, inCoverage : BOOLEAN]
  /\ replay \in {"idle", "running", "cancelled", "done"}

RecordingInit == file = <<>> /\ replayed = <<>> /\ replay = "idle"

Row(kind, cov) == [kind |-> kind, inCoverage |-> cov.inCoverage]

\* OnCoverage for events of these kinds.  The encoder's error is ignored.
Rows(kinds, cov) ==
  IF cov.until = Unending THEN <<>> ELSE [i \in DOMAIN kinds |-> Row(kinds[i], cov)]

Record(kinds, cov) == file' = file \o Rows(kinds, cov) /\ UNCHANGED <<replayed, replay>>

ReplayStart == replay = "idle" /\ replay' = "running" /\ UNCHANGED <<file, replayed>>

\* A bug: the first row only sets the clock of the replay.
ReplayRowAfterFirst ==
  /\ replay = "running"
  /\ Len(replayed) + 1 < Len(file)
  /\ replayed' = Append(replayed, file[Len(replayed) + 2])
  /\ UNCHANGED <<file, replay>>

\* The next row, once the time that separates it from the last has passed.
ReplayRow ==
  /\ replay = "running"
  /\ Len(replayed) < Len(file)
  /\ replayed' = Append(replayed, file[Len(replayed) + 1])
  /\ UNCHANGED <<file, replay>>

\* The context is cancelled while the replayer sleeps or reads the next row.
ReplayCancel ==
  /\ replay = "running"
  /\ Len(replayed) < Len(file)
  /\ replay' = "cancelled"
  /\ UNCHANGED <<file, replayed>>

\* The file is exhausted: replay_done is emitted.
ReplayDone ==
  /\ replay = "running"
  /\ Len(replayed) = Len(file)
  /\ replay' = "done"
  /\ UNCHANGED <<file, replayed>>
=============================================================================
