------------------------------- MODULE PcmSpool -------------------------------
(***************************************************************************)
(* The way of the recorded audio from the page to the MP3, chunk by chunk: *)
(* the buffer of browser_init.js in each frame of the page, _drain_pcm,    *)
(* the spool loop and finalize_to_mp3 of src/app/capture/browser.py, and   *)
(* append_pcm_samples of src/app/artifacts.py.  CaptureManager.tla knows   *)
(* only whether a task has audio.                                          *)
(*                                                                         *)
(* A chunk is a number, in the order of recording.  An evaluate call that  *)
(* has been sent is carried out by the page even when its awaiter was      *)
(* cancelled or timed out, and an append goes on in its thread: both empty *)
(* or fill a buffer on nobody's behalf.                                    *)
(***************************************************************************)
EXTENDS Integers, Sequences, FiniteSets

CONSTANTS NFrames,      \* the frames of the page, in the order of page.frames
          MaxChunks     \* bound: chunks recorded in a session

ASSUME SpoolAssumption == NFrames \in Nat \ {0} /\ MaxChunks \in Nat

Frames == 1 .. NFrames
Chunks == 1 .. MaxChunks

VARIABLES recorded,   \* recorded[n] is the frame that recorded chunk n
          buffer,     \* chunks of each frame's script
          spool,      \* the spool loop: "off", "sleep", "drain", "append", "stopped"
          final,      \* finalize_to_mp3: "off", "drain", "append", "convert",
                      \* "unlink", "saved" or "failed"
          drain,      \* the _drain_pcm of either: the frame it asks (0: none), what it has
          orphans,    \* frames with a call that nobody awaits any more
          appends,    \* appends in their threads, and for whom
          file,       \* <id>.pcm, <<>> also when it does not exist
          mp3,        \* what ffmpeg read
          stopAt,     \* history: chunks recorded when the capture was stopped
          adrift      \* history: chunks that a cancellation, a timeout, a failed
                      \* append or a reload took out of the coroutines' hands

pageBufferVars == <<recorded, buffer>>
fileVars == <<file, mp3>>
historyVars == <<stopAt, adrift>>
spoolVars == <<pageBufferVars, spool, final, drain, orphans, appends, fileVars, historyVars>>

NoDrain == [frame |-> 0, got |-> <<>>]
Elements(s) == {s[i] : i \in 1 .. Len(s)}
Buffered(fs) == UNION {Elements(buffer[f]) : f \in fs}

SpoolTypeOK ==
  /\ recorded \in Seq(Frames) /\ Len(recorded) <= MaxChunks
  /\ buffer \in [Frames -> Seq(Chunks)]
  /\ spool \in {"off", "sleep", "drain", "append", "stopped"}
  /\ final \in {"off", "drain", "append", "convert", "unlink", "saved", "failed"}
  /\ drain.frame \in 0 .. NFrames /\ drain.got \in Seq(Chunks)
  /\ drain.frame # 0 <=> "drain" \in {spool, final}
  /\ orphans \subseteq Frames
  /\ \A a \in appends : a.by \in {"spool", "final"} /\ a.chunks \in Seq(Chunks)
  /\ file \in Seq(Chunks) /\ mp3 \in Seq(Chunks)
  /\ stopAt \in 0 .. MaxChunks
  /\ adrift \subseteq Chunks

SpoolInit ==
  /\ recorded = <<>> /\ buffer = [f \in Frames |-> <<>>]
  /\ spool = "off" /\ final = "off" /\ drain = NoDrain
  /\ orphans = {} /\ appends = {}
  /\ file = <<>> /\ mp3 = <<>>
  /\ stopAt = 0 /\ adrift = {}

Over == final \in {"saved", "failed"}

-----------------------------------------------------------------------------
(***************************************************************************)
(* The page.                                                               *)
(***************************************************************************)

(* Mutant: the newest chunk is put before the others.                      *)
RecordFirst(f) ==
  /\ ~Over /\ Len(recorded) < MaxChunks
  /\ recorded' = Append(recorded, f)
  /\ buffer' = [buffer EXCEPT ![f] = <<Len(recorded) + 1>> \o @]
  /\ UNCHANGED <<spool, final, drain, orphans, appends, fileVars, historyVars>>

(* onaudioprocess.                                                         *)
Record(f) ==
  /\ ~Over /\ Len(recorded) < MaxChunks
  /\ recorded' = Append(recorded, f)
  /\ buffer' = [buffer EXCEPT ![f] = Append(@, Len(recorded) + 1)]
  /\ UNCHANGED <<spool, final, drain, orphans, appends, fileVars, historyVars>>

(* Mutant: chunks.length is not reset.                                     *)
FlushedKeeps(f) == buffer

(* flushInt16Pcm returns the buffer and clears it.                         *)
Flushed(f) == [buffer EXCEPT ![f] = <<>>]

-----------------------------------------------------------------------------
(***************************************************************************)
(* _drain_pcm, on behalf of the spool loop or of finalize_to_mp3: the      *)
(* spool loop is cancelled before the other begins.                        *)
(***************************************************************************)
Begins == drain' = [frame |-> 1, got |-> <<>>]

ConvertOrFail == IF file = <<>> THEN "failed" ELSE "convert"

Appending(who, chunks) == appends' = appends \cup {[by |-> who, chunks |-> chunks]}

(* Every frame was asked, or there is no time left.                        *)
Ends(got) ==
  /\ drain' = NoDrain
  /\ \/ /\ got # <<>> /\ spool = "drain"
        /\ spool' = "append" /\ final' = final
        /\ Appending("spool", got)
     \/ /\ got # <<>> /\ final = "drain"
        /\ final' = "append" /\ spool' = spool
        /\ Appending("final", got)
     \/ /\ got = <<>> /\ spool = "drain"
        /\ spool' = "sleep" /\ UNCHANGED <<final, appends>>
     \/ /\ got = <<>> /\ final = "drain"
        /\ final' = ConvertOrFail /\ UNCHANGED <<spool, appends>>

(* The answer of the frame asked, <<>> if the call raised.                 *)
Continues(answer) ==
  LET got == drain.got \o answer IN
  IF drain.frame < NFrames
  THEN /\ drain' = [frame |-> drain.frame + 1, got |-> got]
       /\ UNCHANGED <<spool, final, appends>>
  ELSE Ends(got)

(* A frame answers its calls in the order in which they were sent.         *)
Answer ==
  LET f == drain.frame IN
  /\ f # 0 /\ f \notin orphans
  /\ buffer' = Flushed(f)
  /\ Continues(buffer[f])
  /\ UNCHANGED <<recorded, orphans, fileVars, historyVars>>

OrphanAnswers(f) ==
  /\ f \in orphans
  /\ orphans' = orphans \ {f}
  /\ buffer' = Flushed(f)
  /\ adrift' = adrift \cup Buffered({f})
  /\ UNCHANGED <<recorded, spool, final, drain, appends, fileVars, stopAt>>

(* The page was loaded again: its scripts start anew, and the call that is *)
(* awaited raises.                                                         *)
Reload ==
  /\ ~Over
  /\ buffer' = [f \in Frames |-> <<>>]
  /\ adrift' = adrift \cup Buffered(Frames)
  /\ orphans' = {}
  /\ IF drain.frame = 0 THEN UNCHANGED <<spool, final, drain, appends>> ELSE Continues(<<>>)
  /\ UNCHANGED <<recorded, fileVars, stopAt>>

-----------------------------------------------------------------------------
(***************************************************************************)
(* The spool loop.                                                         *)
(***************************************************************************)
SpoolBegins ==
  /\ spool = "off"
  /\ spool' = "sleep"
  /\ UNCHANGED <<pageBufferVars, final, drain, orphans, appends, fileVars, historyVars>>

SpoolWakes ==
  /\ spool = "sleep"
  /\ spool' = "drain" /\ Begins
  /\ UNCHANGED <<pageBufferVars, final, orphans, appends, fileVars, historyVars>>

(* Mutant: a drain that ran out of time returns nothing.                   *)
SpoolDrainTimesOutEmpty ==
  /\ spool = "drain"
  /\ orphans' = orphans \cup {drain.frame}
  /\ Ends(<<>>)
  /\ UNCHANGED <<pageBufferVars, fileVars, historyVars>>

(* The frame asked does not answer before the deadline, which leaves no    *)
(* time for the frames after it.  What was drained is appended.            *)
SpoolDrainTimesOut ==
  /\ spool = "drain"
  /\ orphans' = orphans \cup {drain.frame}
  /\ Ends(drain.got)
  /\ UNCHANGED <<pageBufferVars, fileVars, historyVars>>

-----------------------------------------------------------------------------
(***************************************************************************)
(* Appends.                                                                *)
(***************************************************************************)
(* The append has returned to the coroutine that awaits it, if any does.   *)
Resumes(who, converting) ==
  /\ spool' = IF who = "spool" /\ spool = "append" THEN "sleep" ELSE spool
  /\ final' = IF who = "final" /\ final = "append" THEN converting ELSE final

AppendLands ==
  \E a \in appends :
    /\ appends' = appends \ {a}
    /\ file' = file \o a.chunks
    /\ Resumes(a.by, "convert")
    /\ UNCHANGED <<pageBufferVars, drain, orphans, mp3, historyVars>>

(* An OSError: the loop logs it and goes on; engine.stop raises, and what  *)
(* is in the file is recovered (_recover_after_finalize_failure).          *)
AppendFails ==
  \E a \in appends :
    /\ appends' = appends \ {a}
    /\ adrift' = adrift \cup Elements(a.chunks)
    /\ Resumes(a.by, ConvertOrFail)
    /\ UNCHANGED <<pageBufferVars, drain, orphans, fileVars, stopAt>>

-----------------------------------------------------------------------------
(***************************************************************************)
(* finalize_to_mp3.                                                        *)
(***************************************************************************)
InHand == Elements(drain.got) \cup UNION {Elements(a.chunks) : a \in appends}
CallOf(state) == IF state = "drain" THEN {drain.frame} ELSE {}

(* engine.stop: the spool loop is cancelled at whatever await it stands,   *)
(* and nothing waits for it.                                               *)
Stop ==
  /\ spool \in {"sleep", "drain", "append"} /\ final = "off"
  /\ spool' = "stopped" /\ final' = "drain" /\ Begins
  /\ orphans' = orphans \cup CallOf(spool)
  /\ stopAt' = Len(recorded)
  /\ adrift' = adrift \cup InHand
  /\ UNCHANGED <<pageBufferVars, appends, fileVars>>

(* Mutant: the final drain has no timeout.                                 *)
FinalDrainWaits == FALSE /\ UNCHANGED spoolVars

(* The timeout of the whole drain is never later than that of the frame    *)
(* asked: what the frames before it gave is dropped.                       *)
FinalDrainTimesOut ==
  /\ final = "drain"
  /\ final' = ConvertOrFail /\ drain' = NoDrain
  /\ adrift' = adrift \cup Elements(drain.got) \cup Buffered(drain.frame .. NFrames)
  /\ UNCHANGED <<pageBufferVars, spool, orphans, appends, fileVars, stopAt>>

(* wait_for(engine.stop, CAPTURE_FINALIZE_TIMEOUT_SEC): what is in the     *)
(* file is recovered.  A timeout during the conversion is in               *)
(* CaptureManager.tla.                                                     *)
StopTimesOut ==
  /\ final \in {"drain", "append"}
  /\ final' = ConvertOrFail /\ drain' = NoDrain
  /\ adrift' = adrift \cup InHand \cup Buffered(CallOf(final)) \cup
                 (IF final = "drain" THEN Buffered(drain.frame .. NFrames) ELSE {})
  /\ UNCHANGED <<pageBufferVars, spool, orphans, appends, fileVars, stopAt>>

(* ffmpeg reads the file to its end.                                       *)
Convert ==
  /\ final = "convert"
  /\ mp3' = file
  /\ final' = "unlink"
  /\ UNCHANGED <<pageBufferVars, spool, drain, orphans, appends, file, historyVars>>

(* The file is unlinked, and the session closed.                           *)
Unlink ==
  /\ final = "unlink"
  /\ file' = <<>>
  /\ final' = "saved"
  /\ UNCHANGED <<pageBufferVars, spool, drain, orphans, appends, mp3, historyVars>>

-----------------------------------------------------------------------------
Once(s) == \A i, j \in 1 .. Len(s) : s[i] = s[j] => i = j

(* No audio is heard twice: a chunk that was flushed is in one place only, *)
(* whoever was cancelled while it was on its way ("returns int16 and       *)
(* clears the buffer", docs/en/connectors.md).                             *)
NoChunkTwice ==
  LET underway == {a.chunks : a \in appends} \cup {drain.got} IN
  /\ Once(file) /\ Once(mp3)
  /\ \A s \in underway : Once(s) /\ Elements(s) \cap Elements(file) = {}
  /\ \A s, u \in underway : Elements(s) \cap Elements(u) = {} \/ s = u
  /\ Buffered(Frames) \cap (Elements(file) \cup UNION {Elements(s) : s \in underway}) = {}

(* What was recorded before the stop is in the MP3: only chunks in the     *)
(* hands of a call that was cancelled, ran out of time or failed can be    *)
(* missing, never one that had been appended, and never one that waited in *)
(* a page that answered.                                                   *)
SavedIsComplete ==
  final = "saved" => 1 .. stopAt \subseteq Elements(mp3) \cup adrift

(* The audio of a frame is in order, but for a chunk whose append was      *)
(* overtaken by the final one.                                             *)
AudioInOrder ==
  \A i, j \in 1 .. Len(mp3) :
    i < j /\ recorded[mp3[i]] = recorded[mp3[j]] =>
      mp3[i] < mp3[j] \/ mp3[j] \in adrift

(* A capture that is stopped comes to an end, although the page may never  *)
(* answer and a thread may be slow.                                        *)
StopEnds == final = "drain" ~> Over
===============================================================================
