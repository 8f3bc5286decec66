----------------------------- MODULE JitsiSession -----------------------------
(***************************************************************************)
(* One Jitsi meeting as the bot sees it: _join_conference and              *)
(* wait_for_disconnect of src/app/capture/browser.py, with the script      *)
(* _DISCONNECT_WATCH_JS that lives in the page, has a one-second timer of  *)
(* its own, and is gone when the page is loaded again.                     *)
(*                                                                         *)
(* Jitsi itself is the environment.  place is where it has the bot:        *)
(*   "loading"   nothing known is shown: a blank page, connecting          *)
(*   "prejoin"   a join button or the name field                           *)
(*   "password"  the lobby's password field                                *)
(*   "inside"    the meeting                                               *)
(*   "left"      out of the meeting, without a text                        *)
(*   "kicked"    out, with a text that says so                             *)
(*   "closed"    the page is closed                                        *)
(* Inside, the toolbar with the leave button may be hidden, and the page   *)
(* may show a text about the removal of another participant.               *)
(***************************************************************************)
EXTENDS MeetingPage

VARIABLES toolbar,     \* the leave button is there
          notice,      \* a text on another's removal: "none", "shown" or "gone"
          pin,         \* the task has a pin
          filled,      \* it was typed into the password field
          script,      \* the watch script is in the page
          wasJoined,   \* its state.wasJoined
          hooked,      \* it listens to the events of the present room object
          told,        \* its state.reason
          poll,        \* wait_for_disconnect: "install", "ask" (awaits evaluate), "sleep"
          steady       \* history: inside since the join saw it there

scriptVars == <<script, wasJoined, hooked, told>>
jitsiPageVars == <<toolbar, notice, filled>>
jitsiVars == <<jitsiPageVars, pin, scriptVars, poll, steady>>
allJitsiVars == <<meetingVars, jitsiVars>>

JitsiPlace == {"loading", "prejoin", "password", "inside", "left", "kicked", "closed"}

JitsiTypeOK ==
  /\ place \in JitsiPlace
  /\ join \in {"look", "pin", "prejoin", "click", "muting", "joined", "failed"}
  /\ reason \in Reason \cup {"none"}
  /\ notice \in {"none", "shown", "gone"}
  /\ {toolbar, pin, filled, script, wasJoined, hooked, steady} \subseteq BOOLEAN
  /\ told \in Reason \cup {"none"}
  /\ poll \in {"install", "ask", "sleep"}
  /\ ~script => ~wasJoined /\ told = "none"

JitsiInit ==
  /\ pin \in BOOLEAN
  /\ toolbar = FALSE /\ notice = "none" /\ filled = FALSE
  /\ script = FALSE /\ wasJoined = FALSE /\ hooked = FALSE /\ told = "none"
  /\ poll = "install" /\ steady = FALSE

-----------------------------------------------------------------------------
(* Mutant: only the leave button is looked for.                            *)
LeaveButtonOnly == toolbar

(* _in_meeting, and inMeeting of the script: isJoined() or the button.     *)
JitsiInMeeting == place = "inside" \/ toolbar

-----------------------------------------------------------------------------
(***************************************************************************)
(* _join_conference: look, fill in the pin and the name, look for the      *)
(* prejoin page, mute, click, sleep.                                       *)
(***************************************************************************)
JitsiLooks ==
  /\ join = "look" /\ place # "closed"
  /\ join' = IF JitsiInMeeting THEN "muting" ELSE "pin"
  /\ steady' = JitsiInMeeting
  /\ UNCHANGED <<place, reason, jitsiPageVars, pin, scriptVars, poll>>

FillsPin ==
  /\ join = "pin"
  /\ join' = "prejoin"
  /\ filled' = (filled \/ (pin /\ place = "password"))
  /\ UNCHANGED <<place, reason, toolbar, notice, pin, scriptVars, poll, steady>>

(* _prejoin_visible.  A password page may have a join button as well.      *)
SeesPrejoin ==
  /\ join = "prejoin"
  /\ \/ place \in {"prejoin", "password"} /\ join' = "click"
     \/ place # "prejoin" /\ join' = "look"
  /\ UNCHANGED <<place, reason, jitsiVars>>

(* The button may be gone by now, and a click may do nothing.  A password  *)
(* page lets nobody in without the password.                               *)
ClicksJoin ==
  /\ join = "click"
  /\ join' = "look"
  /\ \/ /\ place = "prejoin" \/ (place = "password" /\ filled)
        /\ place' = "loading" /\ filled' = FALSE
     \/ UNCHANGED <<place, filled>>
  /\ UNCHANGED <<reason, toolbar, notice, pin, scriptVars, poll, steady>>

(* The time is up, or the page is closed and evaluate raises.              *)
JitsiJoinFails ==
  /\ join = "look" \/ (join = "muting" /\ place = "closed")
  /\ join' = "failed"
  /\ UNCHANGED <<place, reason, jitsiVars>>

(* _ensure_mic_muted and the rest of open_and_join.  The pin is not needed *)
(* any more.                                                               *)
JitsiMutes ==
  /\ join = "muting" /\ place # "closed"
  /\ join' = "joined"
  /\ filled' = FALSE /\ pin' = FALSE
  /\ UNCHANGED <<place, reason, toolbar, notice, scriptVars, poll, steady>>

-----------------------------------------------------------------------------
(***************************************************************************)
(* The script in the page.                                                 *)
(***************************************************************************)
KickText == place = "kicked" \/ notice = "shown"

(* Mutant: the script does not remember that it was in the meeting.        *)
FoundForgets(before) == IF KickText THEN "kicked" ELSE "none"

(* What a tick finds, given wasJoined before it; the first reason stays.   *)
Found(before) ==
  IF before /\ ~JitsiInMeeting THEN "conference_left"
  ELSE IF KickText THEN "kicked" ELSE "none"

Ticks(before) ==
  /\ wasJoined' = (before \/ JitsiInMeeting)
  /\ told' = Found(before)
  /\ hooked' = (hooked \/ place = "inside")

Tick ==
  /\ script /\ told = "none"
  /\ Ticks(wasJoined)
  /\ UNCHANGED <<meetingVars, jitsiPageVars, pin, script, poll, steady>>

(* page.evaluate(_DISCONNECT_WATCH_JS) installs the script and ticks once. *)
WatchInstalls ==
  /\ Watching /\ poll = "install" /\ place # "closed"
  /\ script' = TRUE
  /\ Ticks(FALSE)
  /\ poll' = "ask"
  /\ UNCHANGED <<meetingVars, jitsiPageVars, pin, steady>>

(* _READ_DISCONNECT_REASON_JS was answered.                                *)
WatchAsks ==
  /\ Watching /\ poll = "ask" /\ place # "closed"
  /\ reason' = told
  /\ poll' = "sleep"
  /\ UNCHANGED <<place, join, jitsiPageVars, pin, scriptVars, steady>>

WatchWakes ==
  /\ Watching /\ poll = "sleep" /\ place # "closed"
  /\ poll' = "ask"
  /\ UNCHANGED <<meetingVars, jitsiPageVars, pin, scriptVars, steady>>

(* is_closed() is looked at after the sleep; an evaluate raises.           *)
WatchFindsClosed ==
  /\ Watching /\ poll = "sleep" /\ place = "closed"
  /\ reason' = "page_closed"
  /\ UNCHANGED <<place, join, jitsiVars>>

WatchRaises ==
  /\ Watching /\ poll # "sleep" /\ place = "closed"
  /\ reason' = "disconnect_watch_failed"
  /\ UNCHANGED <<place, join, jitsiVars>>

-----------------------------------------------------------------------------
(***************************************************************************)
(* Jitsi.                                                                  *)
(***************************************************************************)
JitsiMoves(from, to) ==
  /\ place \in from
  /\ place' \in to
  /\ toolbar' = (place' = "inside")
  /\ filled' = FALSE
  /\ steady' = FALSE
  /\ notice' = IF notice = "shown" THEN "gone" ELSE notice
  /\ UNCHANGED <<join, reason, pin, script, wasJoined, poll>>

(* The room object is a new one.                                           *)
JitsiEnters ==
  /\ JitsiMoves({"loading"}, {"inside"})
  /\ hooked' = FALSE /\ told' = told

JitsiShows ==
  /\ JitsiMoves({"loading"}, {"prejoin", "password", "left", "kicked"}) \/ JitsiMoves({"left"}, {"loading"})
  /\ UNCHANGED <<hooked, told>>

(* The KICKED, CONFERENCE_LEFT and CONFERENCE_FAILED events of the room,   *)
(* which need not come when the connection is lost.                        *)
JitsiLeaves ==
  /\ JitsiMoves({"inside"}, {"loading", "left", "kicked"})
  /\ \/ UNCHANGED told
     \/ /\ script /\ hooked /\ told = "none"
        /\ told' \in IF place' = "kicked" THEN {"kicked"}
                     ELSE {"conference_left", "conference_failed"}
  /\ hooked' = hooked

JitsiCloses ==
  /\ JitsiMoves(JitsiPlace \ {"closed"}, {"closed"})
  /\ UNCHANGED <<hooked, told>>

ToolbarHides ==
  /\ place = "inside"
  /\ toolbar' = ~toolbar
  /\ UNCHANGED <<meetingVars, notice, filled, pin, scriptVars, poll, steady>>

OtherIsRemoved ==
  /\ place = "inside" /\ notice # "gone"
  /\ notice' = IF notice = "none" THEN "shown" ELSE "gone"
  /\ UNCHANGED <<meetingVars, toolbar, filled, pin, scriptVars, poll, steady>>

(* The page is loaded again: the script is gone with the old page, and an  *)
(* evaluate that was awaited may raise, which neither the watch nor the    *)
(* join survives, or be answered by the new page.                          *)
JitsiReloads ==
  /\ place # "closed"
  /\ place' = "loading" /\ toolbar' = FALSE /\ filled' = FALSE /\ steady' = FALSE
  /\ notice' = IF notice = "shown" THEN "gone" ELSE notice
  /\ script' = FALSE /\ wasJoined' = FALSE /\ hooked' = FALSE /\ told' = "none"
  /\ join' \in IF join \in {"look", "muting"} THEN {join, "failed"} ELSE {join}
  /\ reason' \in IF Watching /\ poll # "sleep" THEN {reason, "disconnect_watch_failed"}
                 ELSE {reason}
  /\ UNCHANGED <<pin, poll>>

JitsiWatchGoesOn == WatchWakes \/ WatchFindsClosed
JitsiWatch == JitsiWatchGoesOn \/ WatchInstalls \/ WatchAsks \/ WatchRaises

JitsiJoin ==
  JitsiLooks \/ FillsPin \/ SeesPrejoin \/ ClicksJoin \/ JitsiJoinFails \/ JitsiMutes

JitsiPage == JitsiEnters \/ JitsiShows \/ JitsiLeaves \/ ToolbarHides \/ OtherIsRemoved

-----------------------------------------------------------------------------
(* A bot that has been in the meeting ever since it joined is not taken    *)
(* out of it, whether or not the toolbar is shown, unless a text about     *)
(* another participant's removal is taken for its own ("kick heuristics",  *)
(* docs/en/connectors.md).                                                 *)
SteadyIsKept == steady /\ reason # "none" => notice # "none"
===============================================================================
