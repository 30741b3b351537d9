---------------------------- MODULE MCCommitSlot ----------------------------
(* CommitSlot, for TLC: one package whose manifest loses a capability line *)
(* and its resumability, a task to resume, and two drafts.                 *)
EXTENDS CommitSlot
CONSTANTS p1, look, type, hello, bye

TheTask      == [package |-> p1, statement |-> hello]
TheManifests == { [lines |-> {look, type}, resumable |-> TRUE],
                  [lines |-> {look}, resumable |-> FALSE] }
TheDrafts ==
  { [package |-> p1, statement |-> hello, narrow |-> None, resumes |-> TheTask],
    [package |-> p1, statement |-> bye, narrow |-> {look}, resumes |-> None] }
==============================================================================
