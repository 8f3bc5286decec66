---------------------------- MODULE TelemostSession ----------------------------
(***************************************************************************)
(* One Telemost meeting as the bot sees it: join_telemost and              *)
(* wait_for_telemost_disconnect of src/app/capture/telemost.py, which look *)
(* at the page about once a second and guess from buttons and texts what   *)
(* became of the bot.  CaptureRunner.tla has the join as three awaits and  *)
(* the disconnect as one event; this module has what lies between them.    *)
(*                                                                         *)
(* Telemost itself is the environment.  place is where it has the bot:     *)
(*   "prejoin"  the page with the connect button                           *)
(*   "loading"  connecting or reconnecting, none of the known texts shown  *)
(*   "lobby"    the waiting room                                           *)
(*   "inside"   the meeting                                                *)
(*   "denied"   refused by the moderator, none of the known texts shown    *)
(*   "left"     out of the meeting, none of the known texts shown          *)
(*   "kicked", "over"  out, with a text that says so                       *)
(*   "closed"   the page is closed                                         *)
(* The page shows what belongs to the place: the frames that               *)
(* _merge_meeting_states joins are one page here.                          *)
(***************************************************************************)
EXTENDS MeetingPage

(* join is where join_telemost stands: "look" (before it looks at the      *)
(* page), "step" (in join_step), "ready" (join_telemost has returned, and  *)
(* the last evaluate of open_and_join is awaited), "joined" or "failed".   *)
(* watch is where the disconnect watch stands: "sleep" (also before its    *)
(* first round), or awaiting the answer of a "kick" or "state" question,   *)
(* which has no timeout.                                                   *)
VARIABLES tracks,        \* whether any audio track is connected (sinkCount > 0)
          press,         \* the connect argument of that join_step
          connects,      \* connect_attempts
          ticks,         \* post_connect_ticks
          watch,         \* the disconnect watch
          wasInMeeting,
          zeroSinks      \* zero_sink_ticks

localVars == <<press, connects, ticks>>
telemostVars == <<tracks, localVars, watch, wasInMeeting, zeroSinks>>
pageVars == <<place, tracks>>
joinVars == <<join, localVars>>
watchVars == <<watch, wasInMeeting, zeroSinks, reason>>
allTelemostVars == <<meetingVars, telemostVars>>

MaxConnects == 3
PostConnectTicks == 2
ZeroSinkTicks == 3

TelemostPlace == {"prejoin", "loading", "lobby", "inside", "denied", "left", "kicked",
                  "over", "closed"}

TelemostTypeOK ==
  /\ place \in TelemostPlace
  /\ tracks \in BOOLEAN
  /\ join \in {"look", "step", "ready", "joined", "failed"}
  /\ press \in BOOLEAN
  /\ connects \in 0 .. MaxConnects
  /\ ticks \in 0 .. PostConnectTicks
  /\ watch \in {"sleep", "kick", "state"}
  /\ wasInMeeting \in BOOLEAN
  /\ zeroSinks \in 0 .. ZeroSinkTicks
  /\ reason \in Reason \cup {"none"}

TelemostInit ==
  /\ tracks = FALSE
  /\ press = FALSE /\ connects = 0 /\ ticks = 0
  /\ watch = "sleep" /\ wasInMeeting = FALSE /\ zeroSinks = 0

-----------------------------------------------------------------------------
(* MEETING_STATE_JS and KICK_CHECK_JS.                                     *)
waiting == place = "lobby"
ended == place = "over"
leaveVisible == place = "inside"
prejoinConnect == place = "prejoin"
inMeeting == ~waiting /\ ~ended /\ ~prejoinConnect /\ (leaveVisible \/ tracks)

(* Mutant: the text of a meeting that has ended is not looked for.         *)
KickReasonOnly == IF place = "kicked" THEN "kicked" ELSE "none"

KickReason ==
  CASE place = "kicked" -> "kicked"
    [] place = "over"   -> "conference_ended"
    [] OTHER            -> "none"

-----------------------------------------------------------------------------
(***************************************************************************)
(* join_telemost.                                                          *)
(***************************************************************************)

(* The connect button was pressed and neither it nor the waiting room is   *)
(* to be seen.  The count goes on over pages that show either.             *)
PostConnect == connects > 0 /\ ~prejoinConnect /\ ~waiting
NextTicks == IF PostConnect /\ ~inMeeting THEN ticks + 1 ELSE ticks

(* Mutant: the attempts are not limited.                                   *)
TryConnectAgain == prejoinConnect
TryConnect == prejoinConnect /\ connects < MaxConnects

JoinLooks ==
  /\ join = "look" /\ place # "closed"
  /\ IF inMeeting \/ NextTicks >= PostConnectTicks
     THEN /\ join' = "ready"
          /\ press' = FALSE /\ connects' = 0 /\ ticks' = 0
     ELSE /\ join' = "step"
          /\ ticks' = NextTicks
          /\ press' = TryConnect
          /\ connects' = IF TryConnect THEN connects + 1 ELSE connects
  /\ UNCHANGED <<pageVars, watchVars>>

(* click_connect finds the button, if the page still has it, and the click *)
(* may do nothing.                                                         *)
JoinSteps ==
  /\ join = "step"
  /\ join' = "look"
  /\ \/ press /\ prejoinConnect /\ place' = "loading"
     \/ place' = place
  /\ UNCHANGED <<tracks, localVars, watchVars>>

(* The evaluate that resumes the capture is answered, or the page is gone. *)
JoinResumes ==
  /\ join = "ready"
  /\ join' = IF place = "closed" THEN "failed" ELSE "joined"
  /\ UNCHANGED <<pageVars, localVars, watchVars>>

JoinTimesOut ==
  /\ join = "look"
  /\ join' = "failed"
  /\ UNCHANGED <<pageVars, localVars, watchVars>>

-----------------------------------------------------------------------------
(***************************************************************************)
(* wait_for_telemost_disconnect.  The page may change between the two      *)
(* questions of a round.  On a page that is closed each frame raises and   *)
(* is skipped.                                                             *)
(***************************************************************************)
WatchBegins ==
  /\ Watching /\ watch = "sleep" /\ place # "closed"
  /\ watch' = "kick"
  /\ UNCHANGED <<pageVars, joinVars, wasInMeeting, zeroSinks, reason>>

KickAnswered ==
  /\ Watching /\ watch = "kick"
  /\ IF KickReason # "none"
     THEN reason' = KickReason /\ watch' = watch
     ELSE watch' = "state" /\ reason' = reason
  /\ UNCHANGED <<pageVars, joinVars, wasInMeeting, zeroSinks>>

(* Mutant: the count starts again with every round.                        *)
ZeroSinksForget == IF wasInMeeting /\ ~tracks THEN 1 ELSE 0

NextZeroSinks == IF wasInMeeting /\ ~tracks THEN zeroSinks + 1 ELSE 0

StateAnswered ==
  /\ Watching /\ watch = "state"
  /\ watch' = "sleep"
  /\ IF wasInMeeting /\ (prejoinConnect \/ ended)
     THEN /\ reason' = IF prejoinConnect THEN "kicked" ELSE "conference_ended"
          /\ UNCHANGED <<wasInMeeting, zeroSinks>>
     ELSE /\ zeroSinks' = NextZeroSinks
          /\ IF NextZeroSinks >= ZeroSinkTicks \/ (wasInMeeting /\ ~inMeeting)
             THEN reason' = "conference_left" /\ wasInMeeting' = wasInMeeting
             ELSE reason' = reason /\ wasInMeeting' = (wasInMeeting \/ inMeeting)
  /\ UNCHANGED <<pageVars, joinVars>>

(* page.is_closed() at the top of the round.                               *)
WatchSeesClosed ==
  /\ Watching /\ watch = "sleep" /\ place = "closed"
  /\ reason' = "page_closed"
  /\ UNCHANGED <<pageVars, joinVars, watch, wasInMeeting, zeroSinks>>

TelemostWatchGoesOn == WatchBegins \/ WatchSeesClosed
TelemostWatch == TelemostWatchGoesOn \/ KickAnswered \/ StateAnswered

-----------------------------------------------------------------------------
(***************************************************************************)
(* Telemost.  Only the bot's click leaves the prejoin page.                *)
(***************************************************************************)
Moves(from, to) ==
  /\ place \in from
  /\ place' \in to
  /\ UNCHANGED <<tracks, joinVars, watchVars>>

PageMoves ==
  \/ Moves({"loading"}, {"lobby", "inside", "left"})
  \/ Moves({"lobby"}, {"inside", "denied", "over"})
  \/ Moves({"inside"}, {"loading", "prejoin", "left", "kicked", "over"})
  \/ Moves({"left"}, {"prejoin"})

TracksStart ==
  /\ place = "inside"
  /\ tracks' = TRUE
  /\ UNCHANGED <<place, joinVars, watchVars>>

TracksEnd ==
  /\ tracks
  /\ tracks' = FALSE
  /\ UNCHANGED <<place, joinVars, watchVars>>

(* A closed page has no frame to answer: nothing is seen, no track.        *)
TelemostCloses ==
  /\ place # "closed"
  /\ place' = "closed" /\ tracks' = FALSE
  /\ UNCHANGED <<joinVars, watchVars>>

(* The page is loaded again, and shows the prejoin page or nothing known.  *)
(* The join does not catch what its own evaluates raise: the look, the     *)
(* last attempt at the button and the last one of open_and_join.  The      *)
(* watch asks each frame and skips one that raises.                        *)
TelemostReloads ==
  /\ place # "closed"
  /\ place' \in {"prejoin", "loading"} /\ tracks' = FALSE
  /\ join' \in IF join \in {"look", "ready"} \/ (join = "step" /\ press)
              THEN {join, "failed"} ELSE {join}
  /\ UNCHANGED <<localVars, watchVars>>

TelemostJoin == JoinLooks \/ JoinSteps \/ JoinResumes \/ JoinTimesOut
TelemostPage == PageMoves \/ TracksStart \/ TracksEnd

TelemostNext ==
  TelemostJoin \/ TelemostWatch \/ TelemostPage \/ TelemostCloses \/ TelemostReloads

TelemostSpec ==
  /\ MeetingInit("prejoin") /\ TelemostInit
  /\ [][TelemostNext]_allTelemostVars

===============================================================================
