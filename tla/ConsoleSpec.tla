---------------------------- MODULE ConsoleSpec ----------------------------
(***************************************************************************)
(* What kernel/console.c promises its readers: a line being edited, and a  *)
(* queue of what has been entered.  Nothing that was entered can be edited *)
(* any more, and no reader sees what has not been entered.  The two        *)
(* together hold at most Size characters.                                  *)
(***************************************************************************)
EXTENDS Integers, Sequences, SequencesExt

CONSTANTS Char,    \* characters that are stored
          Enders,  \* those that enter the line: newline and end of file
          Size

VARIABLES entered, editing

lvars == <<entered, editing>>

LInit == entered = <<>> /\ editing = <<>>

\* A character is added to the line, which is entered with it if it ends the
\* line or fills the buffer.
Add(ch) ==
  /\ Len(entered) + Len(editing) < Size
  /\ IF ch \in Enders \/ Len(entered) + Len(editing) + 1 = Size
     THEN entered' = entered \o Append(editing, ch) /\ editing' = <<>>
     ELSE editing' = Append(editing, ch) /\ UNCHANGED entered

Erase == editing # <<>> /\ editing' = Front(editing) /\ UNCHANGED entered

KillLine == editing' = <<>> /\ UNCHANGED entered

Get == entered # <<>> /\ entered' = Tail(entered) /\ UNCHANGED editing

LNext == (\E ch \in Char : Add(ch)) \/ Erase \/ KillLine \/ Get

Spec == LInit /\ [][LNext]_lvars
=============================================================================
