---------------------------- MODULE BrowserSession ----------------------------
(***************************************************************************)
(* BrowserCaptureSession (src/app/capture/browser.py): the address that it *)
(* opens, the join and the watch of its connector, the spool loop that     *)
(* open_and_join starts, and the stop that a reason, a client or the time  *)
(* limit brings about.  The parts meet in the page: one that is loaded     *)
(* again or closed takes the buffered audio and the watch script with it.  *)
(***************************************************************************)
EXTENDS MeetingUrl, TelemostSession, JitsiSession, PcmSpool

VARIABLES connector,
          url           \* meeting_url, or NoUrl when the page of it is open

requestVars == <<connector, url>>
browserVars == <<requestVars, meetingVars, telemostVars, jitsiVars, spoolVars>>

Telemost == connector = "telemost"
Jitsi == connector = "jitsi"

BrowserTypeOK ==
  /\ connector \in Connectors /\ url \in Urls \cup {NoUrl}
  /\ IF Telemost THEN TelemostTypeOK ELSE JitsiTypeOK
  /\ SpoolTypeOK

BrowserInit ==
  /\ url \in Urls
  /\ TelemostInit /\ JitsiInit /\ SpoolInit
  /\ \/ Telemost /\ MeetingInit("prejoin") /\ ~pin
     \/ Jitsi /\ MeetingInit("loading")

(* page.goto(_navigate_url()), of a session whose request was accepted.    *)
OpensPage ==
  /\ url # NoUrl /\ Valid(connector, url)
  /\ url' = NoUrl
  /\ UNCHANGED <<connector, meetingVars, telemostVars, jitsiVars, spoolVars>>

(* What the page shows matters until the join has failed or the watch has  *)
(* returned.                                                               *)
Capturing == url = NoUrl /\ final = "off" /\ join # "failed" /\ reason = "none"

OnTelemost(Step) == Capturing /\ Telemost /\ Step /\ UNCHANGED <<requestVars, jitsiVars>>
OnJitsi(Step) == Capturing /\ Jitsi /\ Step /\ UNCHANGED <<requestVars, telemostVars>>

(* The spool begins in the last step of the join.                          *)
Joins ==
  /\ OnTelemost(TelemostJoin) \/ OnJitsi(JitsiJoin)
  /\ IF Joined' THEN SpoolBegins ELSE UNCHANGED spoolVars

Watches ==
  /\ OnTelemost(TelemostWatch) \/ OnJitsi(JitsiWatch)
  /\ UNCHANGED spoolVars

(* What the watch does without an answer of the page.                      *)
WatchGoesOn ==
  /\ OnTelemost(TelemostWatchGoesOn) \/ OnJitsi(JitsiWatchGoesOn)
  /\ UNCHANGED spoolVars

PageTicks == OnJitsi(Tick) /\ UNCHANGED spoolVars

TracksGo == OnTelemost(place # "inside" /\ TracksEnd) /\ UNCHANGED spoolVars

PageSteps ==
  /\ OnTelemost(TelemostPage) \/ OnJitsi(JitsiPage)
  /\ UNCHANGED spoolVars

PageReloads ==
  /\ OnTelemost(TelemostReloads \/ TelemostCloses) \/ OnJitsi(JitsiReloads \/ JitsiCloses)
  /\ Reload

(* From a stop on the watch has nothing to add, so it is forgotten, and    *)
(* what the page shows with it: their variables take one value.            *)
WatchIsForgotten ==
  /\ place' = "closed" /\ join' = "joined" /\ reason' = "none"
  /\ tracks' = FALSE /\ press' = FALSE /\ connects' = 0 /\ ticks' = 0
  /\ watch' = "sleep" /\ wasInMeeting' = FALSE /\ zeroSinks' = 0
  /\ toolbar' = FALSE /\ notice' = "none" /\ filled' = FALSE /\ pin' = FALSE
  /\ script' = FALSE /\ wasJoined' = FALSE /\ hooked' = FALSE /\ told' = "none"
  /\ poll' = "install" /\ steady' = FALSE

(* on_auto_stop for a reason, a client's stop or the time limit.           *)
StopSession ==
  /\ Joined
  /\ Stop
  /\ WatchIsForgotten
  /\ UNCHANGED requestVars

(* Audio from before the join is left out.                                 *)
Records(f) == Joined /\ place # "closed" /\ Record(f)

(* While the capture is finalized the page still records, and may be       *)
(* loaded again.                                                           *)
RecordsOn(f) == final # "off" /\ Record(f)

SpoolSteps ==
  /\ \/ \E f \in Frames : Records(f) \/ RecordsOn(f) \/ OrphanAnswers(f)
     \/ Answer \/ SpoolWakes \/ SpoolDrainTimesOut
     \/ AppendLands \/ AppendFails
     \/ StopTimesOut \/ FinalDrainTimesOut \/ Convert \/ Unlink
     \/ final # "off" /\ Reload
  /\ UNCHANGED <<requestVars, meetingVars, telemostVars, jitsiVars>>

FinalizeGoesOn ==
  /\ FinalDrainTimesOut \/ AppendLands \/ Convert \/ Unlink
  /\ UNCHANGED <<requestVars, meetingVars, telemostVars, jitsiVars>>

BrowserNext ==
  OpensPage \/ Joins \/ Watches \/ PageTicks \/ PageSteps \/ PageReloads \/ StopSession \/ SpoolSteps

(* A watch that sleeps wakes, tracks end some time after the bot has gone, *)
(* a reason leads to a stop (on_auto_stop), and the timeouts of            *)
(* finalize_to_mp3 and its threads run out.  The page's timer goes on as   *)
(* long as the page lives.  No evaluate is assumed to be answered.         *)
BrowserSpec ==
  /\ BrowserInit /\ [][BrowserNext]_browserVars
  /\ WF_browserVars(WatchGoesOn)
  /\ WF_browserVars(PageTicks)
  /\ WF_browserVars(TracksGo)
  /\ WF_browserVars(reason # "none" /\ StopSession)
  /\ WF_browserVars(FinalizeGoesOn)

-----------------------------------------------------------------------------
(* The address opened is that of the meeting the client asked for          *)
(* (docs/en/connectors.md), and none is accepted whose row could not be    *)
(* opened when the task has its slot.                                      *)
UrlsReachTheirMeeting ==
  url # NoUrl => ReachesMeeting(connector, url) /\ OpensMeetingPage(connector, url)

TelemostIsOut ==
  \/ place \in {"kicked", "over"}
  \/ wasInMeeting /\ place # "inside"

(* The script can only know what it has seen, and only while it is there.  *)
JitsiIsOut ==
  /\ script
  /\ \/ place = "kicked"
     \/ wasJoined /\ place \in {"loading", "left", "prejoin", "password"}

IsOut ==
  /\ Joined
  /\ \/ place = "closed"
     \/ Telemost /\ TelemostIsOut
     \/ Jitsi /\ JitsiIsOut

(* The watch awaits the answer to an evaluate.                             *)
Asking ==
  /\ Capturing /\ Watching
  /\ IF Telemost THEN watch # "sleep" ELSE poll # "sleep"

(* Unless the page leaves a question of the watch unanswered, a capture    *)
(* does not outlive its meeting: a bot that was removed, or that was seen  *)
(* inside and is out, or whose page is closed, is stopped, unless it gets  *)
(* back in or its page is loaded again ("kick / end / leave",              *)
(* "JitsiMeetJS events, kick heuristics", docs/en/connectors.md).          *)
EndIsNoticed == <>[]Asking \/ (IsOut ~> final # "off" \/ ~IsOut)

(* Unless the page leaves a question of the watch unanswered, a bot that   *)
(* was inside a Telemost meeting and hears nobody for good is stopped      *)
(* although the meeting goes on ("sink drop", docs/en/connectors.md).      *)
SilenceIsNoticed == <>[]Asking \/ (wasInMeeting /\ ~tracks ~> tracks \/ final # "off")
===============================================================================
