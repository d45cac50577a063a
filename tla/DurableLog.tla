------------------------------ MODULE DurableLog ------------------------------
(***************************************************************************)
(* What the write-ahead log promises the goroutines that call it, with no  *)
(* batches, segments or locks in sight.                                    *)
(*                                                                         *)
(* A caller hands over entries and gets one answer for each.  The log only *)
(* grows at its end, and every entry enters it at most once; the answer    *)
(* "ok" is given only for an entry that has entered the log.  The oldest   *)
(* entries may be retired (segment retention, checkpoint), never the       *)
(* others.  Since an entry is appended between its submission and its      *)
(* "ok", two calls that do not overlap in time are logged in the order     *)
(* they were made.                                                         *)
(***************************************************************************)
EXTENDS Integers, Sequences, SequencesExt

CONSTANT Entry

VARIABLES
  log,      \* every entry appended so far, oldest first
  retired,  \* how many of the oldest ones are no longer on disk
  answer    \* what the submitter of each entry knows

vars == <<log, retired, answer>>

Answers == {"new", "sent", "ok", "failed"}

Init ==
  /\ log = <<>>
  /\ retired = 0
  /\ answer = [e \in Entry |-> "new"]

Answer(E, from, to) ==
  /\ \A e \in E : answer[e] \in from
  /\ answer' = [e \in Entry |-> IF e \in E THEN to ELSE answer[e]]
  /\ UNCHANGED <<log, retired>>

Submit(E) == Answer(E, {"new"}, "sent")

Acknowledge(E) == E \subseteq ToSet(log) /\ Answer(E, {"sent"}, "ok")

(* A failure promises nothing: the entry may be in the log, or enter it    *)
(* later.                                                                  *)
Fail(E) == Answer(E, {"new", "sent"}, "failed")

(* The step appends the entries of Added to the log, and may retire its    *)
(* oldest entries.                                                         *)
Added == SubSeq(log', Len(log) + 1, Len(log'))

ExtendOrRetire ==
  /\ IsPrefix(log, log')
  /\ IsInjective(log')
  /\ \A e \in ToSet(Added) : answer[e] \in {"sent", "failed"}
  /\ retired' \in retired .. Len(log')
  /\ UNCHANGED answer

Changed(status) == {e \in Entry : answer[e] # answer'[e] /\ answer'[e] = status}

Next ==
  \/ Submit(Changed("sent"))
  \/ Acknowledge(Changed("ok"))
  \/ Fail(Changed("failed"))
  \/ ExtendOrRetire

Spec == Init /\ [][Next]_vars
=============================================================================
