------------------------- MODULE BrowserSessionProofs -------------------------
(***************************************************************************)
(* Proofs about BrowserSession.tla, for every number of frames, of chunks  *)
(* and of segments in a URL.                                               *)
(***************************************************************************)
EXTENDS PcmSpoolProofs, FiniteSetTheorems

(* What is known of the watch before a bot that stayed inside is taken     *)
(* out: before the join is over the script is not in the page, so it has   *)
(* nothing to say; a steady bot is inside; and while it is, the script has *)
(* a reason only after a text on another participant.                      *)
SteadyInv ==
  /\ connector \in Connectors
  /\ notice \in {"none", "shown", "gone"}
  /\ reason # "none" => Joined
  /\ script => Joined
  /\ ~script => told = "none" /\ ~wasJoined
  /\ steady => Jitsi /\ place = "inside"
  /\ toolbar => Jitsi /\ place = "inside"
  /\ steady /\ (told # "none" \/ reason # "none") => notice # "none"

LEMMA InitSteady == BrowserInit => SteadyInv
BY DEF BrowserInit, SteadyInv, JitsiInit, MeetingInit, Telemost, Jitsi, Connectors, Joined

(* Telemost's steps leave what is known of the Jitsi script alone, and     *)
(* give a reason only to a bot that has joined.                            *)
LEMMA TelemostSteady ==
  ASSUME SteadyInv,
         OnTelemost(TelemostJoin) \/ OnTelemost(TelemostWatch) \/ OnTelemost(TelemostPage)
         \/ OnTelemost(place # "inside" /\ TracksEnd)
         \/ OnTelemost(TelemostReloads \/ TelemostCloses)
  PROVE  SteadyInv'
<1>1. /\ Telemost /\ UNCHANGED <<connector, jitsiVars>>
      /\ \/ TelemostJoin \/ TelemostWatch \/ TelemostPage \/ TracksEnd
         \/ TelemostReloads \/ TelemostCloses
  BY DEF OnTelemost, requestVars
<1>2. Joined => Joined'
  BY <1>1 DEF TelemostJoin, JoinLooks, JoinSteps, JoinResumes, JoinTimesOut, TelemostWatch,
     TelemostWatchGoesOn, WatchBegins, KickAnswered, StateAnswered, WatchSeesClosed, TelemostPage, PageMoves, Moves, TracksStart, TracksEnd,
     TelemostReloads, TelemostCloses, joinVars, Joined
<1>3. reason' # "none" => Joined' \/ reason # "none"
  BY <1>1, <1>2 DEF TelemostJoin, JoinLooks, JoinSteps, JoinResumes, JoinTimesOut, TelemostWatch,
     TelemostWatchGoesOn, WatchBegins, KickAnswered, StateAnswered, WatchSeesClosed, TelemostPage, PageMoves, Moves, TracksStart, TracksEnd,
     TelemostReloads, TelemostCloses, watchVars, Watching
<1> QED
  BY <1>1, <1>2, <1>3 DEF SteadyInv, Telemost, Jitsi, jitsiVars, jitsiPageVars, scriptVars

(* The join: a bot becomes steady only where it is seen inside, before     *)
(* there is a script.                                                      *)
LEMMA JitsiJoinSteady ==
  ASSUME SteadyInv, reason = "none", Jitsi, JitsiJoin, UNCHANGED connector
  PROVE  SteadyInv'
<1> USE DEF SteadyInv, Jitsi, Joined, jitsiVars, jitsiPageVars, scriptVars
<1>1. CASE JitsiLooks
  BY <1>1 DEF JitsiLooks, JitsiInMeeting
<1>2. CASE FillsPin
  BY <1>2 DEF FillsPin
<1>3. CASE SeesPrejoin
  BY <1>3 DEF SeesPrejoin
<1>4. CASE ClicksJoin
  BY <1>4 DEF ClicksJoin
<1>5. CASE JitsiJoinFails
  BY <1>5 DEF JitsiJoinFails
<1>6. CASE JitsiMutes
  BY <1>6 DEF JitsiMutes
<1> QED
  BY <1>1, <1>2, <1>3, <1>4, <1>5, <1>6 DEF JitsiJoin

(* The watch: a reason is what the script was told.                        *)
LEMMA JitsiWatchSteady ==
  ASSUME SteadyInv, reason = "none", Jitsi, JitsiWatch \/ Tick, UNCHANGED connector
  PROVE  SteadyInv'
<1> USE DEF SteadyInv, Jitsi, Joined, jitsiVars, jitsiPageVars, scriptVars, meetingVars
<1>1. CASE Tick
  BY <1>1 DEF Tick, Ticks, Found, KickText, JitsiInMeeting
<1>2. CASE WatchInstalls
  BY <1>2 DEF WatchInstalls, Watching, Ticks, Found, KickText, JitsiInMeeting
<1>3. CASE WatchAsks
  BY <1>3 DEF WatchAsks, Watching
<1>4. CASE WatchWakes
  BY <1>4 DEF WatchWakes
<1>5. CASE WatchFindsClosed \/ WatchRaises
  BY <1>5 DEF WatchFindsClosed, WatchRaises, Watching
<1> QED
  BY <1>1, <1>2, <1>3, <1>4, <1>5 DEF JitsiWatch, JitsiWatchGoesOn

(* Jitsi's steps: whatever takes the bot to another place ends its being   *)
(* steady, and hiding the toolbar does not.                                *)
LEMMA JitsiPageSteady ==
  ASSUME SteadyInv, reason = "none", Jitsi, JitsiPage \/ JitsiReloads \/ JitsiCloses,
         UNCHANGED connector
  PROVE  SteadyInv'
<1> USE DEF SteadyInv, Jitsi, Joined, jitsiVars, jitsiPageVars, scriptVars, meetingVars
<1>1. ASSUME NEW from, NEW to, JitsiMoves(from, to), told' = told \/ (told' # "none" /\ script)
      PROVE  SteadyInv'
  BY <1>1 DEF JitsiMoves
<1>2. CASE JitsiEnters
  BY <1>1, <1>2 DEF JitsiEnters
<1>3. CASE JitsiShows
  BY <1>1, <1>3 DEF JitsiShows
<1>4. CASE JitsiLeaves
  <2>1. told' = told \/ (told' # "none" /\ script)
    BY <1>4 DEF JitsiLeaves
  <2> QED
    BY <1>1, <1>4, <2>1 DEF JitsiLeaves
<1>5. CASE JitsiCloses
  BY <1>1, <1>5 DEF JitsiCloses
<1>6. CASE ToolbarHides
  BY <1>6 DEF ToolbarHides
<1>7. CASE OtherIsRemoved
  BY <1>7 DEF OtherIsRemoved
<1>8. CASE JitsiReloads
  BY <1>8 DEF JitsiReloads, Watching
<1> QED
  BY <1>2, <1>3, <1>4, <1>5, <1>6, <1>7, <1>8 DEF JitsiPage

LEMMA UnchangedSteady ==
  ASSUME SteadyInv, UNCHANGED <<connector, meetingVars, jitsiVars>>
  PROVE  SteadyInv'
BY DEF SteadyInv, Jitsi, Joined, meetingVars, jitsiVars, jitsiPageVars, scriptVars

LEMMA StopSteady ==
  ASSUME SteadyInv, StopSession
  PROVE  SteadyInv'
BY DEF SteadyInv, StopSession, WatchIsForgotten, Joined, requestVars

LEMMA NextSteady == SteadyInv /\ [BrowserNext]_browserVars => SteadyInv'
<1> SUFFICES ASSUME SteadyInv, [BrowserNext]_browserVars PROVE SteadyInv'
  OBVIOUS
<1>1. CASE OpensPage
  BY <1>1, UnchangedSteady DEF OpensPage
<1>2. CASE Joins
  BY <1>2, TelemostSteady, JitsiJoinSteady DEF Joins, OnJitsi, Capturing, requestVars
<1>3. CASE Watches
  BY <1>3, TelemostSteady, JitsiWatchSteady DEF Watches, OnJitsi, Capturing, requestVars
<1>4. CASE PageTicks
  BY <1>4, JitsiWatchSteady DEF PageTicks, OnJitsi, Capturing, requestVars
<1>5. CASE PageSteps
  BY <1>5, TelemostSteady, JitsiPageSteady DEF PageSteps, OnJitsi, Capturing, requestVars
<1>6. CASE PageReloads
  BY <1>6, TelemostSteady, JitsiPageSteady DEF PageReloads, OnJitsi, Capturing, requestVars
<1>7. CASE StopSession
  BY <1>7, StopSteady
<1>8. CASE SpoolSteps
  BY <1>8, UnchangedSteady DEF SpoolSteps, requestVars
<1>9. CASE UNCHANGED browserVars
  BY <1>9, UnchangedSteady DEF browserVars, requestVars
<1> QED
  BY <1>1, <1>2, <1>3, <1>4, <1>5, <1>6, <1>7, <1>8, <1>9 DEF BrowserNext

(* A bot that has been inside ever since its join saw it there is not      *)
(* stopped by wait_for_disconnect (browser.py) because the toolbar hides   *)
(* or the page is slow: only a text on another participant's removal can   *)
(* do that.                                                                *)
THEOREM SteadyBotIsKept == BrowserSpec => []SteadyIsKept
<1>1. BrowserInit => SteadyInv
  BY InitSteady
<1>2. SteadyInv /\ [BrowserNext]_browserVars => SteadyInv'
  BY NextSteady
<1>3. SteadyInv => SteadyIsKept
  BY DEF SteadyInv, SteadyIsKept
<1> QED
  BY <1>1, <1>2, <1>3, PTL DEF BrowserSpec

-----------------------------------------------------------------------------
(***************************************************************************)
(* Type correctness.                                                       *)
(***************************************************************************)
SpoolBounds ==
  /\ Len(recorded) <= MaxChunks /\ stopAt <= MaxChunks
  /\ orphans \subseteq Frames /\ adrift \subseteq Chunks

(* The watch ends in the round in which it has counted to ZERO_SINK_TICKS. *)
TelemostInv == TelemostTypeOK /\ (zeroSinks = ZeroSinkTicks => reason # "none")

TypeInv ==
  /\ TracedInv /\ SpoolBounds
  /\ connector \in Connectors /\ url \in Urls \cup {NoUrl}
  /\ Telemost => TelemostInv
  /\ Jitsi => JitsiTypeOK

LEMMA ChunkSequence ==
  ASSUME NEW s \in Seq(Nat), Recorded(s), Len(recorded) \in Nat, Len(recorded) <= MaxChunks
  PROVE  s \in Seq(Chunks) /\ Elements(s) \subseteq Chunks
<1>1. 1 .. Len(recorded) \subseteq Chunks
  BY SpoolAssumption DEF Chunks
<1>2. \A i \in 1 .. Len(s) : s[i] \in Chunks
  BY <1>1 DEF Recorded, Elements
<1> QED
  BY <1>2 DEF Elements

(* Whatever the coroutines and the page hold are chunks, and they call     *)
(* frames of the page.                                                     *)
LEMMA BoundedChunks ==
  ASSUME TracedInv, SpoolBounds
  PROVE  /\ \A f \in Frames : buffer[f] \in Seq(Chunks) /\ Elements(buffer[f]) \subseteq Chunks
         /\ drain.got \in Seq(Chunks) /\ Elements(drain.got) \subseteq Chunks
         /\ \A a \in appends : a.chunks \in Seq(Chunks) /\ Elements(a.chunks) \subseteq Chunks
         /\ file \in Seq(Chunks) /\ mp3 \in Seq(Chunks)
         /\ \A fs \in SUBSET Frames : Buffered(fs) \subseteq Chunks
         /\ InHand \subseteq Chunks
         /\ CallOf(spool) \subseteq Frames /\ CallOf(final) \subseteq Frames
         /\ final = "drain" => drain.frame .. NFrames \subseteq Frames
<1>1. ChunkTypes /\ ChunksRecorded /\ Stages /\ Len(recorded) \in Nat
  BY DEF TracedInv, ChunkInv, ChunkTypes
<1>2. \A f \in Frames : buffer[f] \in Seq(Chunks) /\ Elements(buffer[f]) \subseteq Chunks
  BY <1>1, ChunkSequence DEF ChunkTypes, ChunksRecorded, SpoolBounds
<1>3. drain.got \in Seq(Chunks) /\ Elements(drain.got) \subseteq Chunks
  BY <1>1, ChunkSequence DEF ChunkTypes, ChunksRecorded, SpoolBounds
<1>4. \A a \in appends : a.chunks \in Seq(Chunks) /\ Elements(a.chunks) \subseteq Chunks
  BY <1>1, ChunkSequence DEF ChunkTypes, ChunksRecorded, SpoolBounds, AppendRecord
<1>5. file \in Seq(Chunks) /\ mp3 \in Seq(Chunks)
  BY <1>1, ChunkSequence DEF ChunkTypes, ChunksRecorded, SpoolBounds
<1>6. \A fs \in SUBSET Frames : Buffered(fs) \subseteq Chunks
  BY <1>2 DEF Buffered
<1>7. InHand \subseteq Chunks
  BY <1>3, <1>4 DEF InHand
<1>8. "drain" \in {spool, final} => drain.frame \in 1 .. NFrames
  BY <1>1, SpoolAssumption DEF ChunkTypes, Stages
<1>9. CallOf(spool) \subseteq Frames /\ CallOf(final) \subseteq Frames
  BY <1>8 DEF CallOf, Frames
<1>10. final = "drain" => drain.frame .. NFrames \subseteq Frames
  BY <1>8, SpoolAssumption DEF Frames
<1> QED
  BY <1>2, <1>3, <1>4, <1>5, <1>6, <1>7, <1>9, <1>10

LEMMA SpoolIsTyped == TracedInv /\ SpoolBounds => SpoolTypeOK
<1> SUFFICES ASSUME TracedInv, SpoolBounds PROVE SpoolTypeOK
  OBVIOUS
<1>1. ChunkTypes /\ Stages
  BY DEF TracedInv, ChunkInv
<1>2. buffer \in [Frames -> Seq(Chunks)]
  BY <1>1, BoundedChunks DEF ChunkTypes
<1>3. recorded \in Seq(Frames) /\ Len(recorded) <= MaxChunks /\ stopAt \in 0 .. MaxChunks
  BY <1>1, SpoolAssumption DEF ChunkTypes, Stages, SpoolBounds
<1>4. drain.frame \in 0 .. NFrames /\ drain.got \in Seq(Chunks)
  BY <1>1, BoundedChunks DEF ChunkTypes
<1>5. \A a \in appends : a.by \in {"spool", "final"} /\ a.chunks \in Seq(Chunks)
  BY <1>1, BoundedChunks DEF ChunkTypes, AppendRecord
<1> QED
  BY <1>1, <1>2, <1>3, <1>4, <1>5, BoundedChunks DEF SpoolTypeOK, Stages, SpoolBounds

LEMMA TypeInvSuffices == TypeInv => BrowserTypeOK
<1> SUFFICES ASSUME TypeInv PROVE BrowserTypeOK
  OBVIOUS
<1>1. Telemost \/ Jitsi
  BY DEF TypeInv, Telemost, Jitsi, Connectors
<1>2. IF Telemost THEN TelemostTypeOK ELSE JitsiTypeOK
  BY <1>1 DEF TypeInv, TelemostInv
<1> QED
  BY <1>2, SpoolIsTyped DEF TypeInv, BrowserTypeOK

LEMMA InitTyped == BrowserInit => TypeInv
<1> SUFFICES ASSUME BrowserInit PROVE TypeInv
  OBVIOUS
<1>1. TracedInv
  BY InitFound
<1>2. SpoolBounds
  BY SpoolAssumption DEF BrowserInit, SpoolInit, SpoolBounds, Frames, Chunks
<1>3. connector \in Connectors /\ url \in Urls \cup {NoUrl}
  BY DEF BrowserInit, Telemost, Jitsi, Connectors
<1>4. Telemost => TelemostInv
  <2>1. Telemost => place = "prejoin" /\ join = "look" /\ reason = "none"
    BY DEF BrowserInit, Telemost, Jitsi, MeetingInit
  <2>2. /\ tracks \in BOOLEAN /\ press \in BOOLEAN /\ wasInMeeting \in BOOLEAN
        /\ watch = "sleep" /\ connects = 0 /\ ticks = 0 /\ zeroSinks = 0
    BY DEF BrowserInit, TelemostInit
  <2>3. connects \in 0 .. MaxConnects /\ ticks \in 0 .. PostConnectTicks
        /\ zeroSinks \in 0 .. ZeroSinkTicks /\ zeroSinks # ZeroSinkTicks
    BY <2>2 DEF MaxConnects, PostConnectTicks, ZeroSinkTicks
  <2> QED
    BY <2>1, <2>2, <2>3 DEF TelemostInv, TelemostTypeOK, TelemostPlace
<1>5. Jitsi => JitsiTypeOK
  BY DEF BrowserInit, Telemost, Jitsi, JitsiInit, MeetingInit, JitsiTypeOK, JitsiPlace
<1> QED
  BY <1>1, <1>2, <1>3, <1>4, <1>5 DEF TypeInv

(* The spool's steps: the chunks are counted up to the bound, and only     *)
(* frames of the page are called.                                          *)
LEMMA SpoolStaysBounded ==
  ASSUME TracedInv, SpoolBounds,
         \/ \E f \in Frames : Record(f) \/ OrphanAnswers(f)
         \/ Answer \/ SpoolWakes \/ SpoolDrainTimesOut \/ AppendLands \/ AppendFails
         \/ StopTimesOut \/ FinalDrainTimesOut \/ Convert \/ Unlink \/ Reload
         \/ SpoolBegins \/ Stop
  PROVE  SpoolBounds'
<1>1. recorded \in Seq(Frames) /\ Len(recorded) \in Nat /\ MaxChunks \in Nat
  BY SpoolAssumption DEF TracedInv, ChunkInv, ChunkTypes
<1>2. /\ \A fs \in SUBSET Frames : Buffered(fs) \subseteq Chunks
      /\ InHand \subseteq Chunks /\ Elements(drain.got) \subseteq Chunks
      /\ \A a \in appends : Elements(a.chunks) \subseteq Chunks
      /\ CallOf(spool) \subseteq Frames /\ CallOf(final) \subseteq Frames
      /\ final = "drain" => drain.frame .. NFrames \subseteq Frames
  BY BoundedChunks
<1>3. ASSUME UNCHANGED <<recorded, stopAt>>, orphans' \subseteq Frames, adrift' \subseteq Chunks
      PROVE  SpoolBounds'
  BY <1>3 DEF SpoolBounds
<1>4. orphans \subseteq Frames /\ adrift \subseteq Chunks
  BY DEF SpoolBounds
<1>5. CASE \E f \in Frames : Record(f)
  BY <1>1, <1>5 DEF Record, SpoolBounds, historyVars
<1>6. ASSUME NEW f \in Frames, OrphanAnswers(f) PROVE SpoolBounds'
  <2>1. Buffered({f}) \subseteq Chunks
    BY <1>2
  <2> QED
    BY <1>3, <1>4, <1>6, <2>1 DEF OrphanAnswers
<1>7. CASE Answer \/ SpoolWakes \/ AppendLands \/ Convert \/ Unlink \/ SpoolBegins
  BY <1>7 DEF Answer, SpoolWakes, AppendLands, Convert, Unlink, SpoolBegins, SpoolBounds,
     historyVars, pageBufferVars
<1>8. CASE SpoolDrainTimesOut
  <2>1. drain.frame \in Frames
    BY <1>2, <1>8 DEF SpoolDrainTimesOut, CallOf
  <2> QED
    BY <1>3, <1>4, <1>8, <2>1 DEF SpoolDrainTimesOut, historyVars, pageBufferVars
<1>9. CASE AppendFails
  <2>1. PICK a \in appends : adrift' = adrift \cup Elements(a.chunks)
    BY <1>9 DEF AppendFails
  <2>2. UNCHANGED <<recorded, stopAt, orphans>>
    BY <1>9 DEF AppendFails, pageBufferVars
  <2> QED
    BY <1>2, <1>3, <1>4, <2>1, <2>2
<1>10. CASE FinalDrainTimesOut
  <2>1. Buffered(drain.frame .. NFrames) \subseteq Chunks
    BY <1>2, <1>10 DEF FinalDrainTimesOut
  <2>2. /\ UNCHANGED <<recorded, stopAt, orphans>>
        /\ adrift' = adrift \cup Elements(drain.got) \cup Buffered(drain.frame .. NFrames)
    BY <1>10 DEF FinalDrainTimesOut, pageBufferVars
  <2> QED
    BY <1>2, <1>3, <1>4, <2>1, <2>2
<1>11. CASE StopTimesOut
  <2>1. /\ UNCHANGED <<recorded, stopAt, orphans>>
        /\ adrift' = adrift \cup InHand \cup Buffered(CallOf(final)) \cup
                       (IF final = "drain" THEN Buffered(drain.frame .. NFrames) ELSE {})
    BY <1>11 DEF StopTimesOut, pageBufferVars
  <2>2. Buffered(CallOf(final)) \subseteq Chunks
    BY <1>2
  <2>3. final = "drain" => Buffered(drain.frame .. NFrames) \subseteq Chunks
    BY <1>2
  <2> QED
    BY <1>2, <1>3, <1>4, <2>1, <2>2, <2>3
<1>12. CASE Reload
  <2>1. Buffered(Frames) \subseteq Chunks
    BY <1>2
  <2> QED
    BY <1>3, <1>4, <1>12, <2>1 DEF Reload
<1>13. CASE Stop
  <2>1. /\ recorded' = recorded /\ stopAt' = Len(recorded)
        /\ orphans' = orphans \cup CallOf(spool) /\ adrift' = adrift \cup InHand
    BY <1>13 DEF Stop, pageBufferVars
  <2> QED
    BY <1>1, <1>2, <1>4, <2>1 DEF SpoolBounds
<1> QED
  BY <1>5, <1>6, <1>7, <1>8, <1>9, <1>10, <1>11, <1>12, <1>13

LEMMA BrowserStaysBounded ==
  TracedInv /\ SpoolBounds /\ [BrowserNext]_browserVars => SpoolBounds'
<1> SUFFICES ASSUME TracedInv, SpoolBounds, [BrowserNext]_browserVars PROVE SpoolBounds'
  OBVIOUS
<1>1. CASE UNCHANGED spoolVars
  BY <1>1 DEF spoolVars, pageBufferVars, historyVars, SpoolBounds
<1>2. CASE OpensPage \/ Watches \/ PageTicks \/ PageSteps \/ UNCHANGED browserVars
  BY <1>1, <1>2 DEF OpensPage, Watches, PageTicks, PageSteps, browserVars
<1>3. CASE Joins
  BY <1>1, <1>3, SpoolStaysBounded DEF Joins
<1>4. CASE PageReloads
  BY <1>4, SpoolStaysBounded DEF PageReloads
<1>5. CASE StopSession
  BY <1>5, SpoolStaysBounded DEF StopSession
<1>6. CASE SpoolSteps
  BY <1>6, SpoolStaysBounded DEF SpoolSteps, Records, RecordsOn
<1> QED
  BY <1>2, <1>3, <1>4, <1>5, <1>6 DEF BrowserNext

(* Telemost's steps.  A count is left at its bound by none of them.        *)
LEMMA TelemostIsTyped ==
  ASSUME TelemostInv, reason = "none",
         \/ TelemostJoin \/ TelemostWatch \/ TelemostPage \/ TracksEnd
         \/ TelemostReloads \/ TelemostCloses
  PROVE  TelemostInv'
<1> USE DEF TelemostInv, TelemostTypeOK, MaxConnects, PostConnectTicks, ZeroSinkTicks, meetingVars
<1>1. CASE JoinLooks
  <2>1. /\ join' \in {"ready", "step"}
        /\ UNCHANGED <<place, tracks, watch, wasInMeeting, zeroSinks, reason>>
    BY <1>1 DEF JoinLooks, pageVars, watchVars
  <2>2. press' \in BOOLEAN
    BY <1>1 DEF JoinLooks, TryConnect
  <2>3. connects' \in 0 .. MaxConnects
    BY <1>1 DEF JoinLooks, TryConnect
  <2>4. ticks' \in 0 .. PostConnectTicks
    BY <1>1 DEF JoinLooks, NextTicks
  <2> QED
    BY <2>1, <2>2, <2>3, <2>4
<1>2. CASE JoinSteps
  BY <1>2 DEF JoinSteps, localVars, watchVars, TelemostPlace
<1>3. CASE JoinTimesOut \/ JoinResumes
  BY <1>3 DEF JoinTimesOut, JoinResumes, pageVars, localVars, watchVars
<1>4. CASE KickAnswered
  BY <1>4 DEF KickAnswered, KickReason, Reason, pageVars, joinVars, localVars
<1>5. CASE StateAnswered
  <2>1. UNCHANGED <<place, tracks, join, press, connects, ticks>> /\ watch' = "sleep"
    BY <1>5 DEF StateAnswered, pageVars, joinVars, localVars
  <2>2. wasInMeeting' \in BOOLEAN
    BY <1>5 DEF StateAnswered
  <2>3. reason' \in Reason \cup {"none"}
    BY <1>5 DEF StateAnswered, Reason
  <2>4. /\ zeroSinks' \in 0 .. ZeroSinkTicks
        /\ zeroSinks' = ZeroSinkTicks => reason' # "none"
    BY <1>5 DEF StateAnswered, NextZeroSinks
  <2> QED
    BY <2>1, <2>2, <2>3, <2>4
<1>6. CASE WatchBegins \/ WatchSeesClosed
  BY <1>6 DEF WatchBegins, WatchSeesClosed, Reason, pageVars, joinVars, localVars
<1>7. CASE TelemostPage \/ TracksEnd
  BY <1>7 DEF TelemostPage, PageMoves, Moves, TracksStart, TracksEnd, TelemostPlace, joinVars,
     localVars, watchVars
<1>8. CASE TelemostReloads \/ TelemostCloses
  BY <1>8 DEF TelemostReloads, TelemostCloses, TelemostPlace, joinVars, localVars, watchVars
<1> QED
  BY <1>1, <1>2, <1>3, <1>4, <1>5, <1>6, <1>7, <1>8 DEF TelemostJoin, TelemostWatch, TelemostWatchGoesOn

LEMMA JitsiJoinIsTyped == ASSUME JitsiTypeOK, JitsiJoin PROVE JitsiTypeOK'
<1> USE DEF JitsiTypeOK, jitsiVars, jitsiPageVars, scriptVars
<1>1. CASE JitsiLooks
  BY <1>1 DEF JitsiLooks, JitsiInMeeting
<1>2. CASE FillsPin
  BY <1>2 DEF FillsPin
<1>3. CASE SeesPrejoin
  BY <1>3 DEF SeesPrejoin
<1>4. CASE ClicksJoin
  BY <1>4 DEF ClicksJoin, JitsiPlace
<1>5. CASE JitsiJoinFails
  BY <1>5 DEF JitsiJoinFails
<1>6. CASE JitsiMutes
  BY <1>6 DEF JitsiMutes
<1> QED
  BY <1>1, <1>2, <1>3, <1>4, <1>5, <1>6 DEF JitsiJoin

LEMMA JitsiWatchIsTyped == ASSUME JitsiTypeOK, JitsiWatch \/ Tick PROVE JitsiTypeOK'
<1> USE DEF JitsiTypeOK, jitsiVars, jitsiPageVars, scriptVars, meetingVars
<1>1. CASE Tick
  BY <1>1 DEF Tick, Ticks, Found, KickText, JitsiInMeeting, Reason
<1>2. CASE WatchInstalls
  BY <1>2 DEF WatchInstalls, Ticks, Found, KickText, JitsiInMeeting, Reason
<1>3. CASE WatchAsks
  BY <1>3 DEF WatchAsks
<1>4. CASE WatchWakes
  BY <1>4 DEF WatchWakes
<1>5. CASE WatchFindsClosed \/ WatchRaises
  BY <1>5 DEF WatchFindsClosed, WatchRaises, Reason
<1> QED
  BY <1>1, <1>2, <1>3, <1>4, <1>5 DEF JitsiWatch, JitsiWatchGoesOn

LEMMA JitsiPageIsTyped ==
  ASSUME JitsiTypeOK, JitsiPage \/ JitsiReloads \/ JitsiCloses
  PROVE  JitsiTypeOK'
<1> USE DEF JitsiTypeOK, jitsiVars, jitsiPageVars, scriptVars, meetingVars
<1>1. ASSUME NEW from, NEW to \in SUBSET JitsiPlace, JitsiMoves(from, to),
             hooked' \in BOOLEAN, told' = told \/ (told' \in Reason /\ script)
      PROVE  JitsiTypeOK'
  BY <1>1 DEF JitsiMoves
<1>2. CASE JitsiEnters
  BY <1>1, <1>2 DEF JitsiEnters, JitsiPlace
<1>3. CASE JitsiShows
  BY <1>1, <1>3 DEF JitsiShows, JitsiPlace
<1>4. CASE JitsiLeaves
  <2>1. hooked' \in BOOLEAN /\ (told' = told \/ (told' \in Reason /\ script))
    BY <1>4 DEF JitsiLeaves, Reason
  <2> QED
    BY <1>1, <1>4, <2>1 DEF JitsiLeaves, JitsiPlace
<1>5. CASE JitsiCloses
  BY <1>1, <1>5 DEF JitsiCloses, JitsiPlace
<1>6. CASE ToolbarHides
  BY <1>6 DEF ToolbarHides
<1>7. CASE OtherIsRemoved
  BY <1>7 DEF OtherIsRemoved
<1>8. CASE JitsiReloads
  BY <1>8 DEF JitsiReloads, JitsiPlace, Reason
<1> QED
  BY <1>2, <1>3, <1>4, <1>5, <1>6, <1>7, <1>8 DEF JitsiPage

LEMMA StopIsTyped ==
  ASSUME WatchIsForgotten
  PROVE  TelemostInv' /\ JitsiTypeOK'
<1>1. /\ {tracks', press', wasInMeeting', toolbar', pin', filled', script', wasJoined',
          hooked', steady'} \subseteq BOOLEAN
      /\ ~wasJoined'
  BY DEF WatchIsForgotten
<1>2. /\ connects' \in 0 .. MaxConnects /\ ticks' \in 0 .. PostConnectTicks
      /\ zeroSinks' \in 0 .. ZeroSinkTicks /\ zeroSinks' # ZeroSinkTicks
  BY DEF WatchIsForgotten, MaxConnects, PostConnectTicks, ZeroSinkTicks
<1>3. /\ place' \in TelemostPlace \cap JitsiPlace /\ join' = "joined" /\ reason' = "none"
      /\ watch' = "sleep" /\ notice' = "none" /\ told' = "none" /\ poll' = "install"
  BY DEF WatchIsForgotten, TelemostPlace, JitsiPlace
<1>4. TelemostInv'
  BY <1>1, <1>2, <1>3 DEF TelemostInv, TelemostTypeOK
<1>5. JitsiTypeOK'
  BY <1>1, <1>3 DEF JitsiTypeOK
<1> QED
  BY <1>4, <1>5

(* A step is one of the connector's own meeting or leaves both alone.      *)
LEMMA NextTyped == TypeInv /\ [BrowserNext]_browserVars => TypeInv'
<1> SUFFICES ASSUME TypeInv, [BrowserNext]_browserVars PROVE TypeInv'
  OBVIOUS
<1>1. TracedInv' /\ SpoolBounds'
  BY BrowserFinds, BrowserStaysBounded DEF TypeInv
<1>2. ASSUME UNCHANGED requestVars, Telemost => TelemostInv', Jitsi => JitsiTypeOK'
      PROVE  TypeInv'
  BY <1>1, <1>2 DEF TypeInv, Telemost, Jitsi, requestVars
<1>3. ASSUME connector' = connector, url' \in {url, NoUrl},
             UNCHANGED <<meetingVars, telemostVars, jitsiVars>>
      PROVE  TypeInv'
  BY <1>1, <1>3 DEF TypeInv, TelemostInv, TelemostTypeOK, JitsiTypeOK, Telemost, Jitsi,
     meetingVars, telemostVars, localVars, jitsiVars, jitsiPageVars, scriptVars
<1>4. CASE OpensPage
  BY <1>3, <1>4 DEF OpensPage
<1>5. CASE SpoolSteps \/ UNCHANGED browserVars
  BY <1>3, <1>5 DEF SpoolSteps, browserVars, requestVars
<1>6. CASE StopSession
  BY <1>2, <1>6, StopIsTyped DEF StopSession
<1>7. CASE Joins
  BY <1>2, <1>7, TelemostIsTyped, JitsiJoinIsTyped
     DEF Joins, OnTelemost, OnJitsi, Capturing, Telemost, Jitsi, TypeInv
<1>8. CASE Watches
  BY <1>2, <1>8, TelemostIsTyped, JitsiWatchIsTyped
     DEF Watches, OnTelemost, OnJitsi, Capturing, Telemost, Jitsi, TypeInv
<1>9. CASE PageTicks
  BY <1>2, <1>9, JitsiWatchIsTyped DEF PageTicks, OnJitsi, Telemost, Jitsi, TypeInv
<1>10. CASE PageSteps
  BY <1>2, <1>10, TelemostIsTyped, JitsiPageIsTyped
     DEF PageSteps, OnTelemost, OnJitsi, Capturing, Telemost, Jitsi, TypeInv
<1>11. CASE PageReloads
  BY <1>2, <1>11, TelemostIsTyped, JitsiPageIsTyped
     DEF PageReloads, OnTelemost, OnJitsi, Capturing, Telemost, Jitsi, TypeInv
<1> QED
  BY <1>4, <1>5, <1>6, <1>7, <1>8, <1>9, <1>10, <1>11 DEF BrowserNext

(* A session of either connector has a state of its types: the counts of   *)
(* join_telemost and of the watch (telemost.py) stay within their limits,  *)
(* and browser_init.js and the spool loop (browser.py) hold chunks of the  *)
(* session only.                                                           *)
THEOREM BrowserTypeCorrect == BrowserSpec => []BrowserTypeOK
<1>1. BrowserInit => TypeInv
  BY InitTyped
<1>2. TypeInv /\ [BrowserNext]_browserVars => TypeInv'
  BY NextTyped
<1>3. TypeInv => BrowserTypeOK
  BY TypeInvSuffices
<1> QED
  BY <1>1, <1>2, <1>3, PTL DEF BrowserSpec

-----------------------------------------------------------------------------
(* The first and the last of some positions.                               *)
LEMMA FirstOf ==
  ASSUME NEW S \in SUBSET Nat, S # {}
  PROVE  Min(S) \in S /\ \A y \in S : Min(S) <= y
<1>1. PICK x \in S : \A y \in S : <<y, x>> \notin OpToRel(<, Nat)
  BY WFMin, NatLessThanWellFounded, Zenon
<1>2. \A y \in S : ~(y < x)
  BY <1>1, Zenon DEF OpToRel
<1>3. \A y \in S : x <= y
  BY <1>2
<1> QED
  BY <1>3 DEF Min

LEMMA EmptyIsOther ==
  Empty \notin {"j", "private-join", "tenant", "plain", "raw", "escaped", "twice", "meet.example.com"} \cup TelemostHosts
BY Zenon DEF Empty, TelemostHosts

LEMMA LastOf ==
  ASSUME NEW n \in Nat, NEW S \in SUBSET (1 .. n), S # {}
  PROVE  Max(S) \in S /\ \A y \in S : Max(S) >= y
<1> DEFINE T == {n - x : x \in S}
<1>1. T \in SUBSET Nat /\ T # {}
  <2>1. \A x \in S : n - x \in Nat
    OBVIOUS
  <2>2. PICK x \in S : TRUE
    OBVIOUS
  <2> QED
    BY <2>1, <2>2
<1>2. Min(T) \in T /\ \A y \in T : Min(T) <= y
  BY <1>1, FirstOf
<1>3. PICK x \in S : Min(T) = n - x
  BY <1>2
<1>4. ASSUME NEW y \in S
      PROVE  x >= y
  <2>1. n - y \in T
    OBVIOUS
  <2>2. n - x <= n - y
    BY <1>2, <1>3, <2>1
  <2> QED
    BY <2>2
<1> QED
  BY <1>4 DEF Max

(* A named segment is one, and not empty.                                  *)
LEMMA NamedPositions ==
  ASSUME NEW path \in Seq(Segments)
  PROVE  /\ Named(path) \in SUBSET (1 .. Len(path)) /\ Named(path) \in SUBSET Nat
         /\ IsFiniteSet(Named(path)) /\ Len(path) \in Nat
         /\ \A i \in Named(path) : path[i] \in Segments \ {Empty}
<1>1. Named(path) \in SUBSET (1 .. Len(path)) /\ Len(path) \in Nat
  BY DEF Named
<1>2. IsFiniteSet(1 .. Len(path))
  BY <1>1, FS_Interval
<1>3. \A i \in Named(path) : path[i] \in Segments \ {Empty}
  BY DEF Named
<1> QED
  BY <1>1, <1>2, <1>3, FS_Subset

LEMMA PairSize ==
  ASSUME NEW S, NEW x, IsFiniteSet(S), Cardinality(S) = 1, x \notin S
  PROVE  Cardinality(S \cup {x}) = 2
<1>1. IsFiniteSet(S) /\ x \notin S
  OBVIOUS
<1>2. Cardinality(S \cup {x}) = IF x \in S THEN Cardinality(S) ELSE Cardinality(S) + 1
  BY <1>1, FS_AddElement
<1>3. Cardinality(S \cup {x}) = Cardinality(S) + 1
  BY <1>1, <1>2
<1> QED
  BY <1>3

(* Two named segments that are the whole of a path are its first and       *)
(* second.                                                                 *)
LEMMA TwoNamed ==
  ASSUME NEW path \in Seq(Segments), Len(path) = 2, path[1] # Empty, path[2] # Empty
  PROVE  /\ Cardinality(Named(path)) >= 2
         /\ FirstNamed(path) = path[1] /\ SecondNamed(path) = path[2]
<1>1. Named(path) = 1 .. 2
  BY DEF Named
<1>2. Cardinality(1 .. 2) = 2
  <2> DEFINE one == {1}
  <2>1. 1 .. 2 = one \cup {2} /\ 2 \notin one
    OBVIOUS
  <2>2. IsFiniteSet(one) /\ Cardinality(one) = 1
    BY FS_Singleton, Zenon
  <2> HIDE DEF one
  <2>3. Cardinality(one \cup {2}) = 2
    BY <2>1, <2>2, PairSize
  <2> QED
    BY <2>1, <2>3
<1>3. Min(1 .. 2) = 1
  <2> DEFINE S == 1 .. 2
  <2>1. S \in SUBSET Nat /\ S # {} /\ 1 \in S /\ \A x \in S : x \in Nat /\ (x <= 1 => x = 1)
    OBVIOUS
  <2> HIDE DEF S
  <2>2. Min(S) \in S /\ Min(S) <= 1
    BY <2>1, FirstOf
  <2> QED
    BY <2>1, <2>2 DEF S
<1>4. Min({2}) = 2
  BY FirstOf, {2} \in SUBSET Nat
<1>5. (1 .. 2) \ {1} = {2}
  OBVIOUS
<1>6. SecondNamed(path) = path[2]
  BY <1>1, <1>3, <1>4, <1>5, Zenon DEF SecondNamed
<1> QED
  BY <1>1, <1>2, <1>3, <1>6 DEF FirstNamed

(* Two segments that are not empty leave a second one.                     *)
LEMMA SecondIsNamed ==
  ASSUME NEW path \in Seq(Segments), Cardinality(Named(path)) >= 2
  PROVE  SecondNamed(path) \in Segments \ {Empty}
<1> DEFINE named == Named(path)
           first == Min(named)
<1>1. IsFiniteSet(named) /\ named \in SUBSET Nat
  BY NamedPositions
<1> HIDE DEF first
<1>2. named \ {first} # {}
  <2>1. Cardinality(named) \in Nat /\ Cardinality(named) >= 2
    BY <1>1, FS_CardinalityType
  <2> HIDE DEF named
  <2>2. Cardinality(named \ {first}) = IF first \in named THEN Cardinality(named) - 1 ELSE Cardinality(named)
    BY <1>1, FS_RemoveElement
  <2>3. Cardinality(named \ {first}) # 0
    BY <2>1, <2>2
  <2> QED
    BY <2>3, FS_EmptySet
<1>3. Min(named \ {first}) \in named
  <2>1. named \ {first} \in SUBSET Nat
    BY <1>1
  <2> HIDE DEF named
  <2> QED
    BY <1>2, <2>1, FirstOf
<1>4. path[Min(named \ {first})] \in Segments \ {Empty}
  BY <1>3, NamedPositions
<1> QED
  BY <1>4, Zenon DEF SecondNamed, first

(* And one that is not empty leaves a last one.                            *)
LEMMA LastIsNamed ==
  ASSUME NEW path \in Seq(Segments), Named(path) # {}
  PROVE  LastNamed(path) \in Segments \ {Empty}
<1>1. Max(Named(path)) \in Named(path)
  BY NamedPositions, LastOf
<1> QED
  BY <1>1, NamedPositions DEF LastNamed

(* A path that ends with a segment has that one for its last.              *)
LEMMA NamedLast ==
  ASSUME NEW path \in Seq(Segments), path # <<>>, Last(path) # Empty
  PROVE  Named(path) # {} /\ LastNamed(path) = Last(path)
<1>1. Len(path) \in Nat /\ Len(path) > 0
  OBVIOUS
<1>2. Len(path) \in Named(path)
  BY <1>1 DEF Named, Last
<1>3. Max(Named(path)) \in 1 .. Len(path) /\ Max(Named(path)) >= Len(path)
  BY <1>2, NamedPositions, LastOf
<1>4. Max(Named(path)) = Len(path)
  BY <1>1, <1>3
<1> QED
  BY <1>2, <1>4 DEF LastNamed, Last

(* What urlparse finds, for every number of segments.                      *)
LEMMA UrlIsTyped ==
  ASSUME NEW u \in Urls
  PROVE  /\ u = [scheme |-> u.scheme, host |-> u.host, port |-> u.port, path |-> u.path]
         /\ u.path \in Seq(Segments)
<1>1. u.path \in SeqOf(Segments, MaxSegments)
  BY DEF Urls
<1>2. PICK m \in 0 .. MaxSegments : u.path \in [1 .. m -> Segments]
  BY <1>1 DEF SeqOf
<1>3. u.path \in Seq(Segments)
  BY <1>2, UrlAssumption
<1> QED
  BY <1>3 DEF Urls

(* quote() undone by the browser is the room that the client sent, but for *)
(* one that was sent escaped.                                              *)
LEMMA QuotedRoom ==
  ASSUME NEW s \in Segments \ {Empty}
  PROVE  /\ Quote(s) # Empty /\ Unquote(s) # Empty /\ Unquote(Quote(s)) # Empty
         /\ s # "escaped" => Unquote(Quote(s)) = Unquote(s)
<1>1. s \in {"j", "private-join", "tenant", "plain", "raw", "escaped"}
  BY DEF Segments
<1>2. CASE s \in {"j", "private-join", "tenant", "plain"}
  <2>1. s # "raw" /\ s # "escaped" /\ s # "twice"
    BY <1>2
  <2>2. Quote(s) = s /\ Unquote(s) = s
    BY <2>1, Zenon DEF Quote, Unquote
  <2> QED
    BY <1>2, <2>2, EmptyIsOther
<1>3. CASE s = "raw"
  <2>1. Quote(s) = "escaped"
    BY <1>3, Zenon DEF Quote
  <2>2. Unquote(s) = "raw" /\ Unquote("escaped") = "raw"
    BY <1>3, Zenon DEF Unquote
  <2> QED
    BY <2>1, <2>2, EmptyIsOther
<1>4. CASE s = "escaped"
  <2>1. Quote(s) = "twice"
    BY <1>4, Zenon DEF Quote
  <2>2. Unquote(s) = "raw" /\ Unquote("twice") = "escaped"
    BY <1>4, Zenon DEF Unquote
  <2> QED
    BY <1>4, <2>1, <2>2, EmptyIsOther
<1> QED
  BY <1>1, <1>2, <1>3, <1>4

(* What the row keeps of an accepted Jitsi address is enough to open it.   *)
LEMMA JitsiOpens ==
  ASSUME NEW u \in Urls, ValidJitsi(u)
  PROVE  /\ OpensMeetingPage("jitsi", u)
         /\ Meeting("jitsi", Opened("jitsi", u)) =
              [server |-> <<u.host, Empty>>, room |-> Unquote(Quote(LastNamed(u.path)))]
<1> DEFINE room == LastNamed(u.path)
           page == [scheme |-> "https", host |-> u.host, port |-> Empty, path |-> <<Quote(room)>>]
<1>1. room \in Segments \ {Empty}
  BY UrlIsTyped, LastIsNamed DEF ValidJitsi
<1>2. Row("jitsi", u).host = u.host /\ Row("jitsi", u).room = room
  BY DEF Row, JitsiRoom
<1>3. GuestUrl("jitsi", Row("jitsi", u)) = page /\ Opened("jitsi", u) = page
  BY <1>2 DEF GuestUrl, MeetingAddress, Opened, NavigateUrl
<1> HIDE DEF room
<1>4. Meeting("jitsi", page) = [server |-> <<u.host, Empty>>, room |-> Unquote(Quote(room))]
  BY DEF Meeting, Last
<1>5. Valid("jitsi", page)
  <2>1. 1 \in Named(page.path)
    BY <1>1, QuotedRoom DEF Named
  <2> QED
    BY <2>1 DEF Valid, ValidJitsi, IsHttp
<1>6. Meeting("jitsi", page).room # Empty
  BY <1>1, <1>4, QuotedRoom
<1>7. OpensMeetingPage("jitsi", u)
  BY <1>3, <1>5, <1>6 DEF OpensMeetingPage
<1> QED
  BY <1>3, <1>4, <1>7 DEF room

(* The Telemost id survives two parsers and two builders.                  *)
LEMMA TelemostOpens ==
  ASSUME NEW u \in Urls, ValidTelemost(u)
  PROVE  /\ OpensMeetingPage("telemost", u)
         /\ Meeting("telemost", Opened("telemost", u)) =
              [server |-> "telemost", room |-> Unquote(SecondNamed(u.path))]
<1> DEFINE room == SecondNamed(u.path)
           guest == [scheme |-> "https", host |-> u.host, port |-> Empty, path |-> <<"j", room>>]
           page == [scheme |-> "https", host |-> "telemost.yandex.ru", port |-> Empty,
                    path |-> <<"private-join", room>>]
<1>1. room \in Segments \ {Empty}
  BY UrlIsTyped, SecondIsNamed DEF ValidTelemost
<1>2. Row("telemost", u).host = u.host /\ Row("telemost", u).room = room
  BY DEF Row, TelemostId
<1>3. GuestUrl("telemost", Row("telemost", u)) = guest
  BY <1>2 DEF GuestUrl
<1> HIDE DEF room
<1>4. "j" \in Segments /\ "j" # Empty
  BY EmptyIsOther DEF Segments
<1>5. /\ Cardinality(Named(guest.path)) >= 2
      /\ FirstNamed(guest.path) = "j" /\ SecondNamed(guest.path) = room
  <2> DEFINE path == <<"j", room>>
  <2>1. path \in Seq(Segments) /\ Len(path) = 2 /\ path[1] = "j" /\ path[2] = room
    BY <1>1, <1>4
  <2> HIDE DEF path
  <2>2. /\ Cardinality(Named(path)) >= 2
        /\ FirstNamed(path) = "j" /\ SecondNamed(path) = room
    BY <1>1, <1>4, <2>1, TwoNamed
  <2> QED
    BY <2>2 DEF path
<1>6. Valid("telemost", guest)
  BY <1>5 DEF Valid, ValidTelemost, IsHttp
<1>7. Opened("telemost", u) = page
  BY <1>3, <1>5 DEF Opened, NavigateUrl, PrivateJoinUrl, TelemostId
<1>8. Meeting("telemost", page) = [server |-> "telemost", room |-> Unquote(room)]
  BY DEF Meeting
<1>9. Meeting("telemost", page).room # Empty /\ page.host \in TelemostHosts
  BY <1>1, <1>8, QuotedRoom DEF TelemostHosts
<1>10. OpensMeetingPage("telemost", u)
  BY <1>3, <1>6, <1>7, <1>9 DEF OpensMeetingPage
<1> QED
  BY <1>7, <1>8, <1>10 DEF room

LEMMA UrlsAreRead ==
  ASSUME NEW u \in Urls, NEW c \in Connectors
  PROVE  ReachesMeeting(c, u) /\ OpensMeetingPage(c, u)
<1>1. CASE c = "jitsi"
  <2>1. Valid(c, u) <=> ValidJitsi(u)
    BY <1>1 DEF Valid
  <2>2. OpensMeetingPage(c, u)
    BY <1>1, <2>1, JitsiOpens DEF OpensMeetingPage
  <2>3. ASSUME Documented(c, u)
        PROVE  ValidJitsi(u) /\ Meeting(c, Opened(c, u)) = Meeting(c, u)
    <3> DEFINE room == Last(u.path)
    <3>1. /\ u.scheme = "https" /\ u.host # Empty /\ u.port = Empty /\ u.path # <<>>
          /\ room # Empty /\ room # "escaped"
      BY <1>1, <2>3 DEF Documented
    <3>2. Named(u.path) # {} /\ LastNamed(u.path) = room
      BY <3>1, UrlIsTyped, NamedLast
    <3>3. room \in Segments \ {Empty}
      BY <3>2, UrlIsTyped, LastIsNamed
    <3>4. ValidJitsi(u)
      BY <3>1, <3>2 DEF ValidJitsi, IsHttp
    <3>5. Meeting(c, u) = [server |-> <<u.host, Empty>>, room |-> Unquote(room)]
      BY <1>1, <3>1 DEF Meeting
    <3> HIDE DEF room
    <3> QED
      BY <1>1, <3>1, <3>2, <3>3, <3>4, <3>5, JitsiOpens, QuotedRoom
  <2> QED
    BY <2>1, <2>2, <2>3 DEF ReachesMeeting
<1>2. CASE c = "telemost"
  <2>1. Valid(c, u) <=> ValidTelemost(u)
    BY <1>2 DEF Valid
  <2>2. OpensMeetingPage(c, u)
    BY <1>2, <2>1, TelemostOpens DEF OpensMeetingPage
  <2>3. ASSUME Documented(c, u)
        PROVE  ValidTelemost(u) /\ Meeting(c, Opened(c, u)) = Meeting(c, u)
    <3>1. /\ u.scheme = "https" /\ u.host = "telemost.yandex.ru"
          /\ Len(u.path) = 2 /\ u.path[1] \in {"j", "private-join"} /\ u.path[2] # Empty
      BY <1>2, <2>3 DEF Documented
    <3>2. u.path[1] # Empty
      BY <3>1, EmptyIsOther
    <3>3. /\ Cardinality(Named(u.path)) >= 2
          /\ FirstNamed(u.path) = u.path[1] /\ SecondNamed(u.path) = u.path[2]
      BY <3>1, <3>2, UrlIsTyped, TwoNamed
    <3>4. ValidTelemost(u)
      BY <3>1, <3>3 DEF ValidTelemost, IsHttp, TelemostHosts
    <3>5. Meeting(c, u) = [server |-> "telemost", room |-> Unquote(u.path[2])]
      BY <1>2 DEF Meeting
    <3> QED
      BY <1>2, <3>3, <3>4, <3>5, TelemostOpens
  <2> QED
    BY <2>1, <2>2, <2>3 DEF ReachesMeeting
<1> QED
  BY <1>1, <1>2 DEF Connectors

(* The address that the browser opens is that of the meeting the client    *)
(* asked for, and every address that parse_capture_url accepts leaves a    *)
(* row that _navigate_url (browser.py) can open, for every number of       *)
(* segments in its path.                                                   *)
THEOREM UrlsAreOpened == BrowserSpec => []UrlsReachTheirMeeting
<1>1. BrowserTypeOK => UrlsReachTheirMeeting
  BY UrlsAreRead DEF BrowserTypeOK, UrlsReachTheirMeeting
<1> QED
  BY <1>1, BrowserTypeCorrect, PTL
===============================================================================
