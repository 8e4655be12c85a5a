------------------------------ MODULE Journal ------------------------------
(***************************************************************************)
(* internal/infra/state: the operation journal, a file of JSON lines, and  *)
(* the commands that append to it under the deployment lock.               *)
(*                                                                         *)
(* An append is one write and one fsync, and either may fail or be cut     *)
(* short; Engine.journal carries on after a failed one.  The file is the   *)
(* sequence of what the appends left in it.                                *)
(***************************************************************************)
EXTENDS Naturals, Sequences

CONSTANTS Ops,        \* operation ids
          NoOp,       \* no operation at work
          MaxAppends  \* bound: appends that leave something in the file

ASSUME BoundAssumption == MaxAppends \in Nat /\ NoOp \notin Ops

OpFinal == {"succeeded", "failed", "requires-manual-intervention"}

VARIABLES
  file,    \* what each append left
  synced,  \* how much of it a power cut cannot take
  live,    \* the operation at work
  acked    \* history: the last append that returned no error, for each operation

journalVars == <<file, synced, live, acked>>

\* "whole" is a record and its newline; "short" is the record without it;
\* "torn" is a part of the record.
Parts == {"whole", "short", "torn"}

-----------------------------------------------------------------------------
(* Reading *)

\* readJournal splits at newlines and skips what does not parse: a record is
\* read when it has a line of its own, which only the last may leave unended.
Readable_UntilATear(i) == \A j \in 1..(i - 1) : file[j].part = "whole"

Readable(i) == /\ i > 1 => file[i - 1].part = "whole"
               /\ file[i].part = "whole" \/ (file[i].part = "short" /\ i = Len(file))

\* Operations: the last record of an id wins.
LastOf(S) == CHOOSE i \in S : \A j \in S : j <= i

Reported(o) == LET mine == {i \in 1..Len(file) : file[i].op = o /\ Readable(i)}
               IN  IF mine = {} THEN "none" ELSE file[LastOf(mine)].status

Unfinished_Failed == {o \in Ops : Reported(o) = "requires-manual-intervention"}

Unfinished == {o \in Ops : Reported(o) \in {"running", "requires-manual-intervention"}}

-----------------------------------------------------------------------------
(* Appending *)

Entry(o, s, part) == [op |-> o, status |-> s, part |-> part]

\* AppendOperation returns nil once the record is written and flushed.
AppendSucceeds(o, s) == /\ file' = Append(file, Entry(o, s, "whole"))
                        /\ synced' = Len(file')
                        /\ acked' = [acked EXCEPT ![o] = Len(file')]

\* The file does not open, or the disk is full or fails part of the way, or only
\* the flush fails.
AppendFails(o, s) == /\ \/ UNCHANGED file
                        \/ \E part \in Parts : file' = Append(file, Entry(o, s, part))
                     /\ UNCHANGED <<synced, acked>>

AppendOperation(o, s) == /\ Len(file) < MaxAppends
                         /\ AppendSucceeds(o, s) \/ AppendFails(o, s)

-----------------------------------------------------------------------------
(* Commands *)

\* A command begins, gated: over no unfinished operation but the one it resumes.
Begin(o) == /\ live = NoOp
            /\ Unfinished \subseteq {o}
            /\ Reported(o) \in {"none", "running", "failed"}
            /\ AppendOperation(o, "running")
            /\ live' = o

\* Each of its steps is journaled, and its end, whether or not the write holds.
JournalStep == /\ live # NoOp
               /\ AppendOperation(live, "running")
               /\ UNCHANGED live

Finish == /\ live # NoOp
          /\ \E s \in OpFinal : AppendOperation(live, s)
          /\ live' = NoOp

\* ClearIntervention fails when its append does.
ClearIntervention == /\ live = NoOp
                     /\ \E o \in Unfinished : AppendOperation(o, "failed")
                     /\ UNCHANGED live

\* The process dies, perhaps within an append.
Die == /\ live # NoOp
       /\ live' = NoOp
       /\ \/ UNCHANGED <<file, synced, acked>>
          \/ /\ Len(file) < MaxAppends
             /\ \E s \in OpFinal \cup {"running"} : AppendFails(live, s)

\* The machine loses what was not flushed, the first of it perhaps in part.
PowerCut ==
  /\ live' = NoOp
  /\ synced < Len(file)
  /\ \E k \in synced..(Len(file) - 1) :
       \/ file' = SubSeq(file, 1, k)
       \/ \E part \in {"short", "torn"} :
            /\ part = "short" => file[k + 1].part = "whole"
            /\ file' = Append(SubSeq(file, 1, k), [file[k + 1] EXCEPT !.part = part])
  /\ synced' = Len(file')
  /\ UNCHANGED acked

JournalInit == file = <<>> /\ synced = 0 /\ live = NoOp /\ acked = [o \in Ops |-> 0]

JournalNext == \/ \E o \in Ops : Begin(o)
               \/ JournalStep \/ Finish \/ ClearIntervention
               \/ Die \/ PowerCut

JournalSpec == JournalInit /\ [][JournalNext]_journalVars

-----------------------------------------------------------------------------
(* Properties *)

JournalTypeOK ==
  /\ file \in Seq([op : Ops, status : OpFinal \cup {"running"}, part : Parts])
  /\ synced \in 0..Len(file)
  /\ live \in Ops \cup {NoOp}
  /\ acked \in [Ops -> 0..Len(file)]

\* The record whose append was the last to return no error, for an operation
\* that nothing was appended of since.
Standing(o) == /\ acked[o] > 0
               /\ \A i \in (acked[o] + 1)..Len(file) : file[i].op # o

\* A write cut short costs one record: every standing record is the one reported
\* of its operation, but one written right behind a partial line (readJournal
\* reads on past what it cannot read).
LostOnlyBehindATear ==
  \A o \in Ops :
    Standing(o) => \/ Reported(o) = file[acked[o]].status
                   \/ acked[o] > 1 /\ file[acked[o] - 1].part # "whole"

\* An operation that died with its first record in the journal keeps the gate
\* closed to any other until it is resumed or acknowledged.
DeadBlocks ==
  [][\A o \in Ops :
       /\ live = NoOp /\ live' \in Ops \ {o}
       /\ acked[o] > 0 /\ file[acked[o]].status = "running"
       => \/ \E i \in (acked[o] + 1)..Len(file) : file[i].op = o
          \/ acked[o] > 1 /\ file[acked[o] - 1].part # "whole"]_journalVars

\* "The last record for an ID wins" (state.go, ports.StateStore): a record whose
\* append returned no error is what is reported until another is appended.
LastRecordWins ==
  \A o \in Ops : Standing(o) => Reported(o) = file[acked[o]].status

=============================================================================
