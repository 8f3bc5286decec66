----------------------------- MODULE MeetingPage -----------------------------
(***************************************************************************)
(* What the two connectors of src/app/capture/browser.py share: the page   *)
(* the meeting's site shows the bot, how far the join is, and the reason   *)
(* for which the disconnect watch ended (wait_for_disconnect), or "none".  *)
(***************************************************************************)
EXTENDS Integers

VARIABLES place, join, reason

meetingVars == <<place, join, reason>>

Reason == {"kicked", "conference_ended", "conference_left", "conference_failed",
           "page_closed", "disconnect_watch_failed"}

MeetingInit(first) == place = first /\ join = "look" /\ reason = "none"

Joined == join = "joined"
Watching == Joined /\ reason = "none"
==============================================================================
