----------------------------- MODULE Extraction -----------------------------
(***************************************************************************)
(* What running a self-extracting .EXE promises, without the container,    *)
(* the cursor, the buffers or the chunks.  Files are taken in archive      *)
(* order; each one ends up either whole or skipped before the next one is  *)
(* touched; the run-after program starts at most once and only after the   *)
(* last file; and a run that stops early leaves at most one partial file.  *)
(***************************************************************************)
EXTENDS Naturals, Sequences

VARIABLES
  file,      \* per entry: "untouched", "partial", "whole" or "skipped"
  status,    \* "running", "ok" (exit 0) or "failed" (exit 1 or power lost)
  launched   \* the run-after program has been started

vars == <<file, status, launched>>

Settled(i) == file[i] \in {"whole", "skipped"}
AllSettled == \A i \in DOMAIN file : Settled(i)

Init ==
  /\ file \in Seq({"untouched"})
  /\ status = "running"
  /\ launched = FALSE

\* It is the turn of entry i: everything before it is settled.
Turn(i) ==
  /\ status = "running"
  /\ \A j \in 1..(i - 1) : Settled(j)
  /\ UNCHANGED <<status, launched>>

\* An empty output file appears under the entry's name.
Begin(i) ==
  /\ Turn(i)
  /\ file[i] = "untouched"
  /\ file' = [file EXCEPT ![i] = "partial"]

\* The output file has exactly the bytes that were packed, and is closed.
Finish(i) ==
  /\ Turn(i)
  /\ file[i] = "partial"
  /\ file' = [file EXCEPT ![i] = "whole"]

\* The output file cannot be created; the entry is reported and passed over.
Skip(i) ==
  /\ Turn(i)
  /\ file[i] = "untouched"
  /\ file' = [file EXCEPT ![i] = "skipped"]

Launch ==
  /\ status = "running" /\ AllSettled /\ ~launched
  /\ launched' = TRUE
  /\ UNCHANGED <<file, status>>

Succeed ==
  /\ status = "running" /\ AllSettled
  /\ status' = "ok"
  /\ UNCHANGED <<file, launched>>

Fail ==
  /\ status = "running"
  /\ status' = "failed"
  /\ UNCHANGED <<file, launched>>

Next ==
  \/ \E i \in DOMAIN file : Begin(i) \/ Finish(i) \/ Skip(i)
  \/ Launch
  \/ Succeed
  \/ Fail

Spec == Init /\ [][Next]_vars
=============================================================================
