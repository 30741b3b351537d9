---------------------------- MODULE TaskLifecycle ----------------------------
(***************************************************************************)
(* The A-04 task state machine (ec-policy-eval, task.rs).  A closed task   *)
(* is represented by its close reason, so that a state is a string.        *)
(***************************************************************************)

(* TaskState::{Active, Paused, Draining}: the states that occupy the       *)
(* principal's single live slot.                                           *)
LiveStates == {"active", "paused", "draining"}

(* CloseReason: what TaskState::Closed carries.                            *)
CloseReasons == {"completed", "cancelled", "expired", "failed"}

TaskStates == LiveStates \cup CloseReasons

TaskEvents ==
  {"pause", "resume", "drain", "drained", "cancel", "deadline", "fault"}

(* TaskState::is_live and TaskState::accepts_acting_requests.              *)
IsLive(s)    == s \in LiveStates
AcceptsActing(s) == s = "active"

(* TaskState::transition: the states an event may lead to, none when the   *)
(* pair is an IllegalTransition.                                           *)
Successors(s, e) ==
  { n \in TaskStates :
      \/ s = "active"   /\ e = "pause"    /\ n = "paused"
      \/ s = "paused"   /\ e = "resume"   /\ n = "active"
      \/ s \in {"active", "paused"} /\ e = "drain" /\ n = "draining"
      \/ s = "draining" /\ e = "drained"  /\ n = "completed"
      \/ IsLive(s)      /\ e = "cancel"   /\ n = "cancelled"
      \/ IsLive(s)      /\ e = "deadline" /\ n = "expired"
      \/ IsLive(s)      /\ e = "fault"    /\ n = "failed" }
=============================================================================
