--------------------------- MODULE MCTelemostSession ---------------------------
(* TelemostSession with a history variable: Telemost has had the bot       *)
(* inside the meeting.                                                     *)
EXTENDS TelemostSession

VARIABLE entered

HistoryInit == MeetingInit("prejoin") /\ TelemostInit /\ entered = FALSE
HistoryNext == TelemostNext /\ entered' = (entered \/ place' = "inside")
HistorySpec == HistoryInit /\ [][HistoryNext]_<<allTelemostVars, entered>>

(* A bot in the waiting room that has never been inside has not joined: it *)
(* is admitted or the join times out ("Waiting room: same                  *)
(* CONF_JOIN_TIMEOUT_SEC", docs/en/connectors.md).                         *)
WaitingIsJoining == waiting /\ ~entered => join # "joined"
================================================================================
