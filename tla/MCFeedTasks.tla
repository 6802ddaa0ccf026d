----------------------------- MODULE MCFeedTasks -----------------------------
(***************************************************************************)
(* Two tasks of the process side by side: the RTDS connection with its     *)
(* watchdog, and the tape of the CLOB task.  They share no state, so one   *)
(* run checks both.                                                        *)
(***************************************************************************)
EXTENDS Recorder, RtdsWatchdog

FeedTasksInit == Init /\ RtdsInit

FeedTasks ==
  /\ FeedTasksInit
  /\ [][(Next /\ UNCHANGED rtds) \/ (RtdsNext /\ UNCHANGED vars)]_<<vars, rtds>>
  /\ RtdsFairness
=============================================================================
