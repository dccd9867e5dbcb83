------------------------------- MODULE LogTail -------------------------------
(***************************************************************************)
(* The log tailing transport, LogTailListener of apire/capture/log_tail.py,*)
(* against the application that writes, truncates and rotates its log.     *)
(*                                                                         *)
(* A line is written as two halves, in one write or in two, and the second *)
(* half ends it.  The file is the sequence of halves in it, an offset is a *)
(* number of halves.  The poll looks at the size first and opens the file  *)
(* later, so the file may change, vanish or be another one by then.        *)
(***************************************************************************)
EXTENDS Naturals, Sequences, FiniteSets

CONSTANTS
    MaxLines,      \* bound on the lines the application writes
    MaxRotations,  \* bound on truncations and rotations
    QuickRegrowth  \* TRUE: a new log may outgrow the old offset between two polls

ASSUME TailAssumption ==
    /\ MaxLines \in Nat \ {0} /\ MaxRotations \in Nat /\ QuickRegrowth \in BOOLEAN

VARIABLES
    file,       \* what is in the log now
    exists,     \* there is a log
    lines,      \* lines the application has begun
    partial,    \* the last of them lacks its second half
    rotations,
    regrown,    \* no poll has seen the log since it was last emptied
    from,       \* halves of this log that were there before the capture
    pos,        \* _pos
    data,       \* what the poll has read
    frames,     \* the frames appended: each a set of halves of one line
    stopping,   \* the stop event
    pc          \* where the thread is

appVars  == <<file, exists, lines, partial, rotations>>
tailVars == <<pos, data, frames, pc>>
vars     == <<appVars, tailVars, regrown, from, stopping>>

Half(n, h) == [line |-> n, half |-> h]

\* start: the file must exist; follow it from its end.
Init ==
    /\ lines \in 0..1 /\ partial \in BOOLEAN
    /\ partial => lines = 1
    /\ file = IF lines = 0 THEN <<>>
              ELSE IF partial THEN <<Half(1, 1)>> ELSE <<Half(1, 1), Half(1, 2)>>
    /\ exists = TRUE /\ rotations = 0 /\ regrown = FALSE
    /\ from = Len(file)
    /\ pos = Len(file) /\ data = <<>> /\ frames = <<>>
    /\ stopping = FALSE /\ pc = "poll"

-----------------------------------------------------------------------------
(* The application.                                                         *)

\* One write: the rest of the last line, half a line, or a whole one.
Write ==
    /\ exists
    /\ \E new \in {<<Half(lines, 2)>>, <<Half(lines + 1, 1)>>,
                   <<Half(lines + 1, 1), Half(lines + 1, 2)>>} :
          /\ partial <=> new = <<Half(lines, 2)>>
          /\ new[1].line <= MaxLines
          /\ regrown /\ ~QuickRegrowth => pos = 0 \/ Len(file) + Len(new) < pos
          /\ file' = file \o new
          /\ lines' = new[1].line
          /\ partial' = (new[Len(new)].half = 1)
    /\ UNCHANGED <<exists, rotations, regrown, from, stopping, tailVars>>

\* The log is emptied in place, or taken away; a line begun in it is dropped.
Rotate ==
    /\ exists /\ file # <<>> /\ rotations < MaxRotations
    /\ rotations' = rotations + 1
    /\ file' = <<>> /\ partial' = FALSE /\ from' = 0
    /\ regrown' = TRUE
    /\ exists' \in BOOLEAN
    /\ UNCHANGED <<lines, stopping, tailVars>>

Recreate ==
    /\ ~exists /\ exists' = TRUE
    /\ UNCHANGED <<file, lines, partial, rotations, regrown, from, stopping, tailVars>>

-----------------------------------------------------------------------------
(* The thread.                                                              *)

\* Mutants: after a truncation, follow from the new end; or do not see it.
PollFromEnd ==
    /\ pc = "poll" /\ ~stopping /\ exists
    /\ pos' = IF Len(file) < pos THEN Len(file) ELSE pos
    /\ pc' = IF Len(file) > pos' THEN "open" ELSE "poll"
    /\ regrown' = FALSE
    /\ UNCHANGED <<appVars, data, frames, from, stopping>>

PollGrowthOnly ==
    /\ pc = "poll" /\ ~stopping /\ exists
    /\ pc' = IF Len(file) > pos THEN "open" ELSE "poll"
    /\ regrown' = FALSE
    /\ UNCHANGED <<appVars, pos, data, frames, from, stopping>>

\* The loop condition, then stat.  A missing file may come back; a size below
\* the offset means another file, to be read from its start.
Poll ==
    /\ pc = "poll"
    /\ IF stopping THEN pc' = "ended" /\ UNCHANGED <<pos, regrown>>
       ELSE IF ~exists THEN UNCHANGED <<pc, pos, regrown>>
       ELSE LET start == IF Len(file) < pos THEN 0 ELSE pos IN
            /\ pos' = start
            /\ pc' = IF Len(file) > start THEN "open" ELSE "poll"
            /\ regrown' = FALSE
    /\ UNCHANGED <<appVars, data, frames, from, stopping>>

\* Mutant: the offset stays where it was.
ReadAgain ==
    /\ pc = "open" /\ exists
    /\ data' = SubSeq(file, pos + 1, Len(file))
    /\ pc' = "append"
    /\ UNCHANGED <<appVars, pos, frames, regrown, from, stopping>>

\* open, seek, read to the end, tell.  A seek behind the end stays there.
Read ==
    /\ pc = "open" /\ exists
    /\ data' = SubSeq(file, pos + 1, Len(file))
    /\ pos' = IF Len(file) > pos THEN Len(file) ELSE pos
    /\ pc' = "append"
    /\ UNCHANGED <<appVars, frames, regrown, from, stopping>>

\* The log cannot be opened or read: try again at the next poll.
ReadFails ==
    /\ pc = "open"
    /\ pc' = "poll"
    /\ UNCHANGED <<appVars, pos, data, frames, regrown, from, stopping>>

\* splitlines: the halves of one line that were read together are one frame.
LinesOf(text) ==
    LET held(n) == {text[i].half : i \in {j \in DOMAIN text : text[j].line = n}}
        first == text[1].line  last == text[Len(text)].line
    IN  IF text = <<>> THEN <<>>
        ELSE [i \in 1..(last - first + 1) |-> [line |-> first + i - 1, halves |-> held(first + i - 1)]]

\* append_frames takes the lines, or raises and ends the thread.
AppendLines ==
    /\ pc = "append"
    /\ data' = <<>>
    /\ \/ frames' = frames \o LinesOf(data) /\ pc' = "poll"
       \/ data # <<>> /\ pc' = "ended" /\ UNCHANGED frames
    /\ UNCHANGED <<appVars, pos, regrown, from, stopping>>

Stop ==
    /\ ~stopping /\ stopping' = TRUE
    /\ UNCHANGED <<appVars, tailVars, regrown, from>>

Follow == Poll \/ Read \/ ReadFails \/ AppendLines

Next == Write \/ Rotate \/ Recreate \/ Follow \/ Stop

Spec == Init /\ [][Next]_vars

\* The thread polls on, and a log that is there can be read now and then.
FairSpec == Spec /\ WF_vars(Poll) /\ SF_vars(Read) /\ WF_vars(AppendLines)

-----------------------------------------------------------------------------
(* Properties.                                                              *)

Halves == [line : 1..MaxLines, half : {1, 2}]

\* The types of the log and of the tail's state; a conjunct of LinesInOrder.
TypeOK ==
    /\ file \in Seq(Halves) /\ data \in Seq(Halves)
    /\ exists \in BOOLEAN /\ partial \in BOOLEAN /\ regrown \in BOOLEAN /\ stopping \in BOOLEAN
    /\ lines \in 0..MaxLines /\ rotations \in 0..MaxRotations
    /\ from \in 0..Len(file) /\ pos \in Nat
    /\ frames \in Seq([line : 1..MaxLines, halves : SUBSET {1, 2}])
    /\ pc \in {"poll", "open", "append", "ended"}

InFrames(h) == \E i \in DOMAIN frames : frames[i].line = h.line /\ h.half \in frames[i].halves

\* No line is recorded twice and none out of order, whatever rotation falls
\* between the stat, the open and the read of one poll.
LinesInOrder ==
    /\ TypeOK
    /\ \A i, j \in DOMAIN frames : i < j =>
          \/ frames[i].line < frames[j].line
          \/ frames[i].line = frames[j].line /\ frames[i].halves \cap frames[j].halves = {}

\* Rotation and truncation are handled (log_tail.py): when the tail has looked
\* at a log and is at its end, all that was written to it since the capture
\* began is recorded.
CaughtUpIsComplete ==
    pc = "poll" /\ exists /\ ~regrown /\ pos = Len(file) =>
       \A i \in (from + 1)..Len(file) : InFrames(file[i])

\* What the application leaves in its log is recorded in the end, while the
\* thread runs.
WrittenIsRecorded ==
    \A n \in 1..MaxLines :
       (\E i \in (from + 1)..Len(file) : file[i] = Half(n, 2)) ~>
          \/ InFrames(Half(n, 2)) \/ stopping \/ pc = "ended"
          \/ \A i \in DOMAIN file : file[i] # Half(n, 2)

=============================================================================
