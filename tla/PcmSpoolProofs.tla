---------------------------- MODULE PcmSpoolProofs ----------------------------
(***************************************************************************)
(* No audio is heard twice and none is lost unnoticed, for every number of *)
(* frames and chunks: the way of the chunks in PcmSpool.tla, driven by a   *)
(* session of BrowserSession.tla.                                          *)
(***************************************************************************)
EXTENDS BrowserSession, TLAPS

(***************************************************************************)
(* Sequences of chunks.                                                    *)
(***************************************************************************)
LEMMA NoChunks == <<>> \in Seq(Nat) /\ Once(<<>>) /\ Elements(<<>>) = {}
BY DEF Once, Elements

LEMMA OneMore ==
  ASSUME NEW s \in Seq(Nat), NEW n \in Nat, Once(s), n \notin Elements(s)
  PROVE  /\ Append(s, n) \in Seq(Nat) /\ Once(Append(s, n))
         /\ Elements(Append(s, n)) = Elements(s) \cup {n}
<1>1. /\ Len(s) \in Nat /\ Len(Append(s, n)) = Len(s) + 1
      /\ \A i \in 1 .. Len(s) : Append(s, n)[i] = s[i]
      /\ Append(s, n)[Len(s) + 1] = n
      /\ Append(s, n) \in Seq(Nat)
  OBVIOUS
<1>2. \A i \in 1 .. Len(s) : s[i] # n
  BY DEF Elements
<1>3. Once(Append(s, n))
  BY <1>1, <1>2 DEF Once
<1>4. \A m : m \in Elements(Append(s, n)) <=> m \in Elements(s) \/ m = n
  BY <1>1 DEF Elements
<1> QED
  BY <1>1, <1>3, <1>4

LEMMA Together ==
  ASSUME NEW s \in Seq(Nat), NEW u \in Seq(Nat), Once(s), Once(u),
         Elements(s) \cap Elements(u) = {}
  PROVE  /\ s \o u \in Seq(Nat) /\ Once(s \o u)
         /\ Elements(s \o u) = Elements(s) \cup Elements(u)
<1>1. /\ Len(s) \in Nat /\ Len(u) \in Nat /\ Len(s \o u) = Len(s) + Len(u)
      /\ \A i \in 1 .. Len(s) + Len(u) :
           (s \o u)[i] = IF i <= Len(s) THEN s[i] ELSE u[i - Len(s)]
      /\ s \o u \in Seq(Nat)
  OBVIOUS
<1>2. \A i \in 1 .. Len(s), j \in 1 .. Len(u) : s[i] # u[j]
  BY DEF Elements
<1>3. Once(s \o u)
  <2> SUFFICES ASSUME NEW i \in 1 .. Len(s) + Len(u), NEW j \in 1 .. Len(s) + Len(u),
                      (s \o u)[i] = (s \o u)[j]
               PROVE  i = j
    BY <1>1 DEF Once
  <2>1. CASE i <= Len(s) /\ j <= Len(s)
    BY <1>1, <2>1 DEF Once
  <2>2. CASE i <= Len(s) /\ j > Len(s)
    <3>1. j - Len(s) \in 1 .. Len(u) /\ i \in 1 .. Len(s)
      BY <1>1, <2>2
    <3> QED
      BY <1>1, <1>2, <2>2, <3>1
  <2>3. CASE i > Len(s) /\ j <= Len(s)
    <3>1. i - Len(s) \in 1 .. Len(u) /\ j \in 1 .. Len(s)
      BY <1>1, <2>3
    <3> QED
      BY <1>1, <1>2, <2>3, <3>1
  <2>4. CASE i > Len(s) /\ j > Len(s)
    <3>1. i - Len(s) \in 1 .. Len(u) /\ j - Len(s) \in 1 .. Len(u)
      BY <1>1, <2>4
    <3>2. u[i - Len(s)] = u[j - Len(s)]
      BY <1>1, <2>4
    <3>3. i - Len(s) = j - Len(s)
      BY <3>1, <3>2 DEF Once
    <3> QED
      BY <1>1, <3>3
  <2> QED
    BY <1>1, <2>1, <2>2, <2>3, <2>4
<1>4. ASSUME NEW n
      PROVE  n \in Elements(s \o u) <=> n \in Elements(s) \/ n \in Elements(u)
  <2>1. CASE n \in Elements(s \o u)
    <3>1. PICK i \in 1 .. Len(s) + Len(u) : (s \o u)[i] = n
      BY <1>1, <2>1 DEF Elements
    <3>2. CASE i <= Len(s)
      BY <1>1, <3>1, <3>2 DEF Elements
    <3>3. CASE i > Len(s)
      <4>1. i - Len(s) \in 1 .. Len(u) /\ u[i - Len(s)] = n
        BY <1>1, <3>1, <3>3
      <4> QED
        BY <4>1 DEF Elements
    <3> QED
      BY <1>1, <3>2, <3>3
  <2>2. CASE n \in Elements(s)
    <3>1. PICK i \in 1 .. Len(s) : s[i] = n
      BY <2>2 DEF Elements
    <3>2. i \in 1 .. Len(s) + Len(u) /\ (s \o u)[i] = n
      BY <1>1, <3>1
    <3> QED
      BY <1>1, <2>2, <3>2 DEF Elements
  <2>3. CASE n \in Elements(u)
    <3>1. PICK i \in 1 .. Len(u) : u[i] = n
      BY <2>3 DEF Elements
    <3>2. i + Len(s) \in 1 .. Len(s) + Len(u) /\ (s \o u)[i + Len(s)] = n
      BY <1>1, <3>1
    <3> QED
      BY <1>1, <2>3, <3>2 DEF Elements
  <2> QED
    BY <2>1, <2>2, <2>3
<1> QED
  BY <1>1, <1>3, <1>4

-----------------------------------------------------------------------------
(***************************************************************************)
(* The inductive invariant: every place has each of its chunks once, no    *)
(* two places share one, and all of them have been recorded.               *)
(***************************************************************************)
AppendRecord == [by : {"spool", "final"}, chunks : Seq(Nat)]

ChunkTypes ==
  /\ recorded \in Seq(Frames)
  /\ buffer \in [Frames -> Seq(Nat)]
  /\ drain \in [frame : 0 .. NFrames, got : Seq(Nat)]
  /\ appends \subseteq AppendRecord
  /\ file \in Seq(Nat) /\ mp3 \in Seq(Nat)

ChunksOnce ==
  /\ \A f \in Frames : Once(buffer[f])
  /\ Once(drain.got)
  /\ \A a \in appends : Once(a.chunks)
  /\ Once(file) /\ Once(mp3)

(* What the chunks s of one place must be free of.                         *)
InBuffers(s) == \E f \in Frames : Elements(s) \cap Elements(buffer[f]) # {}
InAppends(s) == \E a \in appends : Elements(s) \cap Elements(a.chunks) # {}
InFile(s) == Elements(s) \cap Elements(file) # {}

ChunksApart ==
  /\ \A f, g \in Frames : f # g => Elements(buffer[f]) \cap Elements(buffer[g]) = {}
  /\ \A f \in Frames : ~InAppends(buffer[f]) /\ ~InFile(buffer[f])
  /\ ~InBuffers(drain.got) /\ ~InAppends(drain.got) /\ ~InFile(drain.got)
  /\ \A a, b \in appends : a # b => Elements(a.chunks) \cap Elements(b.chunks) = {}
  /\ \A a \in appends : ~InFile(a.chunks)

Recorded(s) == Elements(s) \subseteq 1 .. Len(recorded)

ChunksRecorded ==
  /\ \A f \in Frames : Recorded(buffer[f])
  /\ Recorded(drain.got) /\ Recorded(file) /\ Recorded(mp3)
  /\ \A a \in appends : Recorded(a.chunks)

ChunkInv == ChunkTypes /\ ChunksOnce /\ ChunksApart /\ ChunksRecorded

LEMMA ChunkInvSuffices == ChunkInv => NoChunkTwice
<1> SUFFICES ASSUME ChunkInv PROVE NoChunkTwice
  OBVIOUS
<1> DEFINE underway == {a.chunks : a \in appends} \cup {drain.got}
<1>1. \A s \in underway : Once(s) /\ Elements(s) \cap Elements(file) = {}
  BY DEF ChunkInv, ChunksOnce, ChunksApart, InFile
<1>2. \A s, u \in underway : Elements(s) \cap Elements(u) = {} \/ s = u
  BY DEF ChunkInv, ChunksApart, InAppends
<1>3. \A f \in Frames, s \in underway : Elements(buffer[f]) \cap Elements(s) = {}
  BY DEF ChunkInv, ChunksApart, InAppends, InBuffers
<1>4. \A f \in Frames : Elements(buffer[f]) \cap Elements(file) = {}
  BY DEF ChunkInv, ChunksApart, InFile
<1>5. Buffered(Frames) \cap (Elements(file) \cup UNION {Elements(s) : s \in underway}) = {}
  BY <1>3, <1>4 DEF Buffered
<1>6. Once(file) /\ Once(mp3)
  BY DEF ChunkInv, ChunksOnce
<1> HIDE DEF underway
<1> QED
  BY <1>1, <1>2, <1>5, <1>6 DEF NoChunkTwice, underway

LEMMA InitChunks == BrowserInit => ChunkInv
<1> SUFFICES ASSUME SpoolInit PROVE ChunkInv
  BY DEF BrowserInit
<1>1. NFrames \in Nat /\ <<>> \in Seq(Nat) /\ <<>> \in Seq(Frames)
  BY SpoolAssumption
<1>2. ChunkTypes
  BY <1>1 DEF SpoolInit, ChunkTypes, NoDrain
<1>3. ChunksOnce /\ ChunksRecorded
  BY NoChunks DEF SpoolInit, ChunksOnce, ChunksRecorded, Recorded, NoDrain
<1>4. ChunksApart
  BY NoChunks DEF SpoolInit, ChunksApart, InBuffers, InAppends, InFile, NoDrain
<1> QED
  BY <1>2, <1>3, <1>4 DEF ChunkInv

-----------------------------------------------------------------------------
(***************************************************************************)
(* Where chunks go.  Nothing but Record makes one, so a step keeps the     *)
(* invariant if what each place has afterwards it had before, or has taken *)
(* from a place that is empty now.                                         *)
(***************************************************************************)

(* Every place keeps what it had or has nothing.                           *)
LEMMA ChunksAreDropped ==
  ASSUME ChunkInv, recorded' = recorded,
         buffer' \in [Frames -> Seq(Nat)],
         \A f \in Frames : buffer'[f] = buffer[f] \/ buffer'[f] = <<>>,
         drain' \in [frame : 0 .. NFrames, got : Seq(Nat)],
         drain'.got = drain.got \/ drain'.got = <<>>,
         appends' \subseteq appends,
         file' = file \/ file' = <<>>,
         mp3' = mp3 \/ mp3' = file
  PROVE  ChunkInv'
<1> USE NoChunks DEF ChunkInv
<1>1. ChunkTypes'
  BY DEF ChunkTypes
<1>2. ChunksOnce'
  BY DEF ChunksOnce
<1>3. ChunksRecorded'
  BY DEF ChunksRecorded, Recorded
<1>4. ChunksApart'
  <2>1. \A f \in Frames : Elements(buffer'[f]) \subseteq Elements(buffer[f])
    OBVIOUS
  <2>2. Elements(drain'.got) \subseteq Elements(drain.got) /\ Elements(file') \subseteq Elements(file)
    OBVIOUS
  <2> QED
    BY <2>1, <2>2 DEF ChunksApart, InBuffers, InAppends, InFile
<1> QED
  BY <1>1, <1>2, <1>3, <1>4

(* Chunks that no place has any more are drained or handed to an append.   *)
LEMMA ChunksMove ==
  ASSUME ChunkInv, NEW s \in Seq(Nat), Once(s), Recorded(s),
         buffer' \in [Frames -> Seq(Nat)],
         \A f \in Frames : buffer'[f] = buffer[f] \/ buffer'[f] = <<>>,
         \A f \in Frames : Elements(s) \cap Elements(buffer'[f]) = {},
         ~InAppends(s), ~InFile(s),
         UNCHANGED <<recorded, file, mp3>>,
         drain' \in [frame : 0 .. NFrames, got : Seq(Nat)],
         \/ drain'.got = s /\ appends' = appends
         \/ drain'.got = <<>> /\ appends' = appends
         \/ /\ drain'.got = <<>>
            /\ \E who \in {"spool", "final"} :
                 appends' = appends \cup {[by |-> who, chunks |-> s]}
  PROVE  ChunkInv'
<1> USE NoChunks DEF ChunkInv
<1>1. \A f \in Frames : Elements(buffer'[f]) \subseteq Elements(buffer[f])
  OBVIOUS
<1>2. CASE drain'.got \in {s, <<>>} /\ appends' = appends
  <2>1. ChunkTypes'
    BY <1>2 DEF ChunkTypes
  <2>2. ChunksOnce'
    BY <1>2 DEF ChunksOnce
  <2>3. ChunksRecorded'
    BY <1>2 DEF ChunksRecorded, Recorded
  <2>4. ChunksApart'
    <3>1. Elements(drain'.got) \subseteq Elements(s)
      BY <1>2
    <3>2. (~InBuffers(drain.got) /\ ~InAppends(drain.got) /\ ~InFile(drain.got))'
      BY <1>2, <3>1 DEF InBuffers, InAppends, InFile
    <3>3. \A f, g \in Frames : f # g => Elements(buffer'[f]) \cap Elements(buffer'[g]) = {}
      BY <1>1 DEF ChunksApart
    <3>4. \A f \in Frames : (~InAppends(buffer[f]) /\ ~InFile(buffer[f]))'
      BY <1>1, <1>2 DEF ChunksApart, InAppends, InFile
    <3>5. (\A a \in appends : ~InFile(a.chunks))'
      BY <1>2 DEF ChunksApart, InFile
    <3> QED
      BY <1>2, <3>2, <3>3, <3>4, <3>5 DEF ChunksApart
  <2> QED
    BY <2>1, <2>2, <2>3, <2>4
<1>3. ASSUME NEW who \in {"spool", "final"}, drain'.got = <<>>,
             appends' = appends \cup {[by |-> who, chunks |-> s]}
      PROVE  ChunkInv'
  <2> DEFINE new == [by |-> who, chunks |-> s]
  <2>1. new \in AppendRecord /\ new.chunks = s
    BY DEF AppendRecord
  <2>2. ChunkTypes'
    BY <1>3, <2>1 DEF ChunkTypes
  <2> HIDE DEF new
  <2>3. appends' = appends \cup {new}
    BY <1>3 DEF new
  <2>4. ChunksOnce'
    BY <1>3, <2>1, <2>3 DEF ChunksOnce
  <2>5. ChunksRecorded'
    BY <1>3, <2>1, <2>3 DEF ChunksRecorded, Recorded
  <2>6. ChunksApart'
    <3>1. \A f, g \in Frames : f # g => Elements(buffer'[f]) \cap Elements(buffer'[g]) = {}
      BY <1>1 DEF ChunksApart
    <3>2. \A f \in Frames : (~InAppends(buffer[f]) /\ ~InFile(buffer[f]))'
      BY <1>1, <2>1, <2>3 DEF ChunksApart, InAppends, InFile
    <3>3. (~InBuffers(drain.got) /\ ~InAppends(drain.got) /\ ~InFile(drain.got))'
      BY <1>3 DEF InBuffers, InAppends, InFile
    <3>4. \A a \in appends : Elements(s) \cap Elements(a.chunks) = {}
      BY DEF InAppends
    <3>5. (\A a, b \in appends : a # b => Elements(a.chunks) \cap Elements(b.chunks) = {})'
      BY <2>1, <2>3, <3>4 DEF ChunksApart
    <3>6. (\A a \in appends : ~InFile(a.chunks))'
      BY <2>1, <2>3 DEF ChunksApart, InFile
    <3> QED
      BY <3>1, <3>2, <3>3, <3>5, <3>6 DEF ChunksApart
  <2> QED
    BY <2>2, <2>4, <2>5, <2>6
<1> QED
  BY <1>2, <1>3

(* The new chunk has a number that no place has.                           *)
LEMMA ChunkIsRecorded ==
  ASSUME ChunkInv, NEW f \in Frames, Record(f) PROVE ChunkInv'
<1> DEFINE n == Len(recorded) + 1
<1>1. /\ n \in Nat /\ recorded \in Seq(Frames) /\ recorded' \in Seq(Frames)
      /\ Len(recorded') = n /\ 1 .. n = 1 .. Len(recorded) \cup {n}
      /\ n \notin 1 .. Len(recorded)
  BY DEF ChunkInv, ChunkTypes, Record
<1>2. /\ buffer \in [Frames -> Seq(Nat)]
      /\ buffer' = [buffer EXCEPT ![f] = Append(buffer[f], n)]
      /\ UNCHANGED <<drain, appends, file, mp3>>
  BY DEF ChunkInv, ChunkTypes, Record, fileVars
<1> HIDE DEF n
<1>3. /\ buffer[f] \in Seq(Nat) /\ Once(buffer[f]) /\ n \notin Elements(buffer[f])
  BY <1>1, <1>2 DEF ChunkInv, ChunksOnce, ChunksRecorded, Recorded, n
<1>4. /\ Append(buffer[f], n) \in Seq(Nat) /\ Once(Append(buffer[f], n))
      /\ Elements(Append(buffer[f], n)) = Elements(buffer[f]) \cup {n}
  BY <1>1, <1>3, OneMore
<1>5. /\ buffer' \in [Frames -> Seq(Nat)]
      /\ Once(buffer'[f]) /\ Elements(buffer'[f]) = Elements(buffer[f]) \cup {n}
      /\ \A g \in Frames : g # f => buffer'[g] = buffer[g]
  BY <1>2, <1>4
<1>6. ChunkTypes'
  BY <1>1, <1>2, <1>5 DEF ChunkInv, ChunkTypes
<1>7. ChunksOnce'
  BY <1>2, <1>5 DEF ChunkInv, ChunksOnce
<1>8. ChunksRecorded'
  BY <1>1, <1>2, <1>5 DEF ChunkInv, ChunksRecorded, Recorded, n
<1>9. ChunksApart'
  <2>1. /\ \A g \in Frames : n \notin Elements(buffer[g])
        /\ n \notin Elements(drain.got) /\ n \notin Elements(file)
        /\ \A a \in appends : n \notin Elements(a.chunks)
    BY <1>1 DEF ChunkInv, ChunksRecorded, Recorded, n
  <2>2. \A g \in Frames : Elements(buffer'[g]) \subseteq Elements(buffer[g]) \cup {n}
    BY <1>5
  <2>3. \A g \in Frames : g # f => Elements(buffer'[g]) = Elements(buffer[g])
    BY <1>5
  <2>4. ASSUME NEW g \in Frames, NEW h \in Frames, g # h
        PROVE  Elements(buffer'[g]) \cap Elements(buffer'[h]) = {}
    <3>1. Elements(buffer[g]) \cap Elements(buffer[h]) = {}
      BY <2>4 DEF ChunkInv, ChunksApart
    <3>2. g # f \/ h # f
      BY <2>4
    <3> QED
      BY <2>1, <2>2, <2>3, <3>1, <3>2
  <2>5. ASSUME NEW g \in Frames
        PROVE  /\ ~InAppends(buffer[g])' /\ ~InFile(buffer[g])'
               /\ Elements(drain'.got) \cap Elements(buffer'[g]) = {}
    <3>1. /\ ~InAppends(buffer[g]) /\ ~InFile(buffer[g])
          /\ Elements(drain.got) \cap Elements(buffer[g]) = {}
      BY DEF ChunkInv, ChunksApart, InBuffers
    <3> QED
      BY <1>2, <2>1, <2>2, <3>1 DEF InAppends, InFile
  <2>6. ~InAppends(drain.got)' /\ ~InFile(drain.got)'
    BY <1>2 DEF ChunkInv, ChunksApart, InAppends, InFile
  <2>7. /\ \A a, b \in appends' : a # b => Elements(a.chunks) \cap Elements(b.chunks) = {}
        /\ \A a \in appends' : ~InFile(a.chunks)'
    BY <1>2 DEF ChunkInv, ChunksApart, InFile
  <2> QED
    BY <2>4, <2>5, <2>6, <2>7 DEF ChunksApart, InBuffers
<1> QED
  BY <1>6, <1>7, <1>8, <1>9 DEF ChunkInv

(* What the drain has when it ends is drained no more.                     *)
LEMMA DrainEnds ==
  ASSUME NEW got, Ends(got)
  PROVE  /\ drain' = NoDrain
         /\ \/ appends' = appends
            \/ \E who \in {"spool", "final"} :
                 appends' = appends \cup {[by |-> who, chunks |-> got]}
BY DEF Ends, Appending

LEMMA DrainContinues ==
  ASSUME ChunkTypes, drain.frame # 0, NEW answer \in Seq(Nat), Continues(answer)
  PROVE  /\ drain' \in [frame : 0 .. NFrames, got : Seq(Nat)]
         /\ LET s == drain.got \o answer IN
              \/ drain'.got = s /\ appends' = appends
              \/ drain'.got = <<>> /\ appends' = appends
              \/ /\ drain'.got = <<>>
                 /\ \E who \in {"spool", "final"} :
                      appends' = appends \cup {[by |-> who, chunks |-> s]}
<1> DEFINE s == drain.got \o answer
<1>1. /\ drain.frame \in 0 .. NFrames /\ NFrames \in Nat
      /\ drain.got \in Seq(Nat)
  BY SpoolAssumption DEF ChunkTypes
<1>2. s \in Seq(Nat)
  BY <1>1
<1> HIDE DEF s
<1>3. CASE drain.frame < NFrames
  <2>1. drain' = [frame |-> drain.frame + 1, got |-> s] /\ appends' = appends
    BY <1>3 DEF Continues, s
  <2>2. drain.frame + 1 \in 0 .. NFrames
    BY <1>1, <1>3
  <2>3. drain' \in [frame : 0 .. NFrames, got : Seq(Nat)] /\ drain'.got = s
    BY <1>2, <2>1, <2>2
  <2> QED
    BY <2>1, <2>3 DEF s
<1>4. CASE ~(drain.frame < NFrames)
  <2>1. Ends(s)
    BY <1>4 DEF Continues, s
  <2>2. /\ drain' = NoDrain
        /\ \/ appends' = appends
           \/ \E who \in {"spool", "final"} :
                appends' = appends \cup {[by |-> who, chunks |-> s]}
    BY <2>1, DrainEnds
  <2>3. drain'.got = <<>> /\ drain' \in [frame : 0 .. NFrames, got : Seq(Nat)]
    BY <1>1, <2>2, NoChunks DEF NoDrain
  <2> QED
    BY <2>2, <2>3 DEF s
<1> QED
  BY <1>3, <1>4

LEMMA AnswerKeepsChunks == ASSUME ChunkInv, Answer PROVE ChunkInv'
<1> DEFINE f == drain.frame
           s == drain.got \o buffer[f]
<1>1. /\ f \in Frames /\ drain.got \in Seq(Nat) /\ buffer \in [Frames -> Seq(Nat)]
      /\ buffer[f] \in Seq(Nat)
  BY SpoolAssumption DEF ChunkInv, ChunkTypes, Answer, Frames
<1>2. /\ Once(drain.got) /\ Once(buffer[f]) /\ Elements(drain.got) \cap Elements(buffer[f]) = {}
  BY <1>1 DEF ChunkInv, ChunksOnce, ChunksApart, InBuffers
<1>3. /\ s \in Seq(Nat) /\ Once(s)
      /\ Elements(s) = Elements(drain.got) \cup Elements(buffer[f])
  BY <1>1, <1>2, Together
<1>4. /\ buffer' \in [Frames -> Seq(Nat)] /\ buffer'[f] = <<>>
      /\ \A g \in Frames : g # f => buffer'[g] = buffer[g]
      /\ UNCHANGED <<recorded, file, mp3>>
  BY <1>1, NoChunks DEF Answer, Flushed, fileVars
<1>5. /\ drain' \in [frame : 0 .. NFrames, got : Seq(Nat)]
      /\ \/ drain'.got = s /\ appends' = appends
         \/ drain'.got = <<>> /\ appends' = appends
         \/ /\ drain'.got = <<>>
            /\ \E who \in {"spool", "final"} :
                 appends' = appends \cup {[by |-> who, chunks |-> s]}
  BY <1>1, DrainContinues DEF ChunkInv, Answer
<1> HIDE DEF s, f
<1>6. Recorded(s) /\ ~InAppends(s) /\ ~InFile(s)
  BY <1>1, <1>3 DEF ChunkInv, ChunksRecorded, Recorded, ChunksApart, InAppends, InFile
<1>7. \A g \in Frames : Elements(s) \cap Elements(buffer'[g]) = {}
  BY <1>1, <1>3, <1>4, NoChunks DEF ChunkInv, ChunksApart, InBuffers
<1>8. \A g \in Frames : buffer'[g] = buffer[g] \/ buffer'[g] = <<>>
  BY <1>4
<1> QED
  BY <1>3, <1>4, <1>5, <1>6, <1>7, <1>8, ChunksMove

(* What is drained already goes on with the call that raised, or is what   *)
(* the loop appends after a timeout.                                       *)
LEMMA DrainedIsMovable ==
  ASSUME ChunkInv
  PROVE  /\ drain.got \in Seq(Nat) /\ drain.got \o <<>> = drain.got
         /\ Once(drain.got) /\ Recorded(drain.got)
         /\ \A f \in Frames : Elements(drain.got) \cap Elements(buffer[f]) = {}
         /\ ~InAppends(drain.got) /\ ~InFile(drain.got)
BY DEF ChunkInv, ChunkTypes, ChunksOnce, ChunksRecorded, ChunksApart, InBuffers

LEMMA ReloadKeepsChunks == ASSUME ChunkInv, Reload PROVE ChunkInv'
<1>1. /\ buffer' \in [Frames -> Seq(Nat)] /\ \A f \in Frames : buffer'[f] = <<>>
      /\ UNCHANGED <<recorded, file, mp3>>
  BY NoChunks DEF Reload, fileVars
<1>2. CASE drain.frame = 0
  <2>1. UNCHANGED <<drain, appends>>
    BY <1>2 DEF Reload
  <2> QED
    BY <1>1, <2>1, ChunksAreDropped DEF ChunkInv, ChunkTypes
<1>3. CASE drain.frame # 0
  <2> DEFINE s == drain.got
  <2>1. /\ drain' \in [frame : 0 .. NFrames, got : Seq(Nat)]
        /\ \/ drain'.got = s /\ appends' = appends
           \/ drain'.got = <<>> /\ appends' = appends
           \/ /\ drain'.got = <<>>
              /\ \E who \in {"spool", "final"} :
                   appends' = appends \cup {[by |-> who, chunks |-> s]}
    BY <1>3, DrainContinues, DrainedIsMovable, NoChunks DEF ChunkInv, Reload
  <2>2. \A f \in Frames : Elements(s) \cap Elements(buffer'[f]) = {}
    BY <1>1, NoChunks
  <2> QED
    BY <1>1, <2>1, <2>2, DrainedIsMovable, ChunksMove
<1> QED
  BY <1>2, <1>3

LEMMA SpoolTimeoutKeepsChunks == ASSUME ChunkInv, SpoolDrainTimesOut PROVE ChunkInv'
<1>1. /\ UNCHANGED <<recorded, buffer, file, mp3>> /\ Ends(drain.got)
  BY DEF SpoolDrainTimesOut, pageBufferVars, fileVars
<1>2. /\ drain' = NoDrain
      /\ \/ appends' = appends
         \/ \E who \in {"spool", "final"} :
              appends' = appends \cup {[by |-> who, chunks |-> drain.got]}
  BY <1>1, DrainEnds
<1>3. drain'.got = <<>> /\ drain' \in [frame : 0 .. NFrames, got : Seq(Nat)]
  BY <1>2, NoChunks, SpoolAssumption DEF NoDrain
<1>4. buffer' \in [Frames -> Seq(Nat)]
  BY <1>1 DEF ChunkInv, ChunkTypes
<1> QED
  BY <1>1, <1>2, <1>3, <1>4, DrainedIsMovable, ChunksMove

(* The append writes after the others, whoever awaits it.                  *)
LEMMA LandingKeepsChunks == ASSUME ChunkInv, AppendLands PROVE ChunkInv'
<1>1. PICK a \in appends :
        /\ appends' = appends \ {a} /\ file' = file \o a.chunks
        /\ UNCHANGED <<recorded, buffer, drain, mp3>>
  BY DEF AppendLands, pageBufferVars
<1>2. /\ file \in Seq(Nat) /\ a.chunks \in Seq(Nat) /\ Once(file) /\ Once(a.chunks)
      /\ Elements(file) \cap Elements(a.chunks) = {}
  BY DEF ChunkInv, ChunkTypes, AppendRecord, ChunksOnce, ChunksApart, InFile
<1>3. /\ file' \in Seq(Nat) /\ Once(file')
      /\ Elements(file') = Elements(file) \cup Elements(a.chunks)
  BY <1>1, <1>2, Together
<1>4. ChunkTypes'
  BY <1>1, <1>3 DEF ChunkInv, ChunkTypes
<1>5. ChunksOnce'
  BY <1>1, <1>3 DEF ChunkInv, ChunksOnce
<1>6. ChunksRecorded'
  BY <1>1, <1>3 DEF ChunkInv, ChunksRecorded, Recorded
<1>7. ChunksApart'
  BY <1>1, <1>3 DEF ChunkInv, ChunksApart, InBuffers, InAppends, InFile
<1> QED
  BY <1>4, <1>5, <1>6, <1>7 DEF ChunkInv

(* The steps after which each place has what it had, or nothing.           *)
LEMMA DroppingKeepsChunks ==
  ASSUME ChunkInv,
         \/ SpoolBegins \/ SpoolWakes \/ AppendFails \/ Stop \/ FinalDrainTimesOut
         \/ StopTimesOut \/ Convert \/ Unlink \/ UNCHANGED spoolVars
         \/ \E f \in Frames : OrphanAnswers(f)
  PROVE  ChunkInv'
<1> DEFINE DrainRecord == [frame : 0 .. NFrames, got : Seq(Nat)]
<1>1. /\ buffer \in [Frames -> Seq(Nat)] /\ drain \in DrainRecord
      /\ NoDrain \in DrainRecord /\ [frame |-> 1, got |-> <<>>] \in DrainRecord
      /\ NoDrain.got = <<>> /\ [frame |-> 1, got |-> <<>>].got = <<>>
  BY NoChunks, SpoolAssumption DEF ChunkInv, ChunkTypes, NoDrain
<1>2. /\ recorded' = recorded
      /\ buffer' = buffer \/ \E f \in Frames : buffer' = [buffer EXCEPT ![f] = <<>>]
      /\ drain' \in {drain, NoDrain, [frame |-> 1, got |-> <<>>]}
      /\ appends' \subseteq appends
      /\ file' = file \/ file' = <<>>
      /\ mp3' = mp3 \/ mp3' = file
  BY DEF SpoolBegins, SpoolWakes, AppendFails, Stop, FinalDrainTimesOut, StopTimesOut,
         Convert, Unlink, OrphanAnswers, Flushed, Begins, spoolVars, pageBufferVars,
         fileVars, historyVars
<1>3. /\ drain' \in DrainRecord
      /\ drain'.got = drain.got \/ drain'.got = <<>>
  BY <1>1, <1>2
<1>4. /\ buffer' \in [Frames -> Seq(Nat)]
      /\ \A f \in Frames : buffer'[f] = buffer[f] \/ buffer'[f] = <<>>
  BY <1>1, <1>2, NoChunks
<1> QED
  BY <1>2, <1>3, <1>4, ChunksAreDropped

LEMMA BrowserKeepsChunks == ChunkInv /\ [BrowserNext]_browserVars => ChunkInv'
<1> SUFFICES ASSUME ChunkInv, [BrowserNext]_browserVars PROVE ChunkInv'
  OBVIOUS
<1>1. CASE Joins
  BY <1>1, DroppingKeepsChunks DEF Joins
<1>2. CASE PageReloads
  BY <1>2, ReloadKeepsChunks DEF PageReloads
<1>3. CASE StopSession
  BY <1>3, DroppingKeepsChunks DEF StopSession
<1>4. CASE SpoolSteps
  BY <1>4, ChunkIsRecorded, AnswerKeepsChunks, ReloadKeepsChunks, SpoolTimeoutKeepsChunks,
     LandingKeepsChunks, DroppingKeepsChunks DEF SpoolSteps, Records, RecordsOn
<1>5. CASE UNCHANGED spoolVars
  BY <1>5, DroppingKeepsChunks
<1>6. (OpensPage \/ Watches \/ PageTicks \/ PageSteps \/ UNCHANGED browserVars)
        => UNCHANGED spoolVars
  BY DEF OpensPage, Watches, PageTicks, PageSteps, browserVars
<1> QED
  BY <1>1, <1>2, <1>3, <1>4, <1>5, <1>6 DEF BrowserNext

(* A chunk that a page recorded is heard at most once, for every number of *)
(* frames and chunks: a flush empties the buffer, so what was flushed is   *)
(* in one place only, and what a cancelled or timed out call had is        *)
(* dropped, never kept beside a place that has it too.                     *)
THEOREM ChunksAreHeardOnce == BrowserSpec => []NoChunkTwice
<1>1. BrowserSpec => []ChunkInv
  BY InitChunks, BrowserKeepsChunks, PTL DEF BrowserSpec
<1> QED
  BY <1>1, ChunkInvSuffices, PTL

-----------------------------------------------------------------------------
(***************************************************************************)
(* Nothing is lost: where each chunk is to be found, stage by stage.       *)
(***************************************************************************)
Stages ==
  /\ spool \in {"off", "sleep", "drain", "append", "stopped"}
  /\ final \in {"off", "drain", "append", "convert", "unlink", "saved", "failed"}
  /\ final # "off" => spool = "stopped"
  /\ drain.frame # 0 <=> "drain" \in {spool, final}
  /\ drain.frame = 0 => drain.got = <<>>
  /\ stopAt \in Nat

OneFinalAppend ==
  /\ \A a, b \in appends : a.by = "final" /\ b.by = "final" => a = b
  /\ final \in {"off", "drain"} => \A a \in appends : a.by = "spool"

Waiting(n, fs) == \E f \in fs : n \in Elements(buffer[f])
Underway(n, whose) == \E a \in appends : a.by \in whose /\ n \in Elements(a.chunks)
Kept(n) == n \in Elements(file) \/ n \in adrift

Traced(n) ==
  /\ final = "off" /\ n \in 1 .. Len(recorded) =>
       Waiting(n, Frames) \/ n \in Elements(drain.got) \/ Underway(n, {"spool"}) \/ Kept(n)
  /\ n \in 1 .. stopAt =>
       /\ final = "drain" =>
            Waiting(n, drain.frame .. NFrames) \/ n \in Elements(drain.got) \/ Kept(n)
       /\ final = "append" => Underway(n, {"final"}) \/ Kept(n)
       /\ final = "convert" => Kept(n)
       /\ final \in {"unlink", "saved"} => n \in Elements(mp3) \/ n \in adrift

TracedInv == ChunkInv /\ Stages /\ OneFinalAppend /\ \A n \in Nat : Traced(n)

LEMMA TracedInvSuffices == TracedInv => SavedIsComplete
<1> SUFFICES ASSUME TracedInv, final = "saved", NEW n \in 1 .. stopAt
             PROVE  n \in Elements(mp3) \cup adrift
  BY DEF SavedIsComplete
<1>1. n \in Nat /\ Traced(n)
  BY DEF TracedInv, Stages
<1> QED
  BY <1>1 DEF Traced

LEMMA InitFound == BrowserInit => TracedInv
<1> SUFFICES ASSUME SpoolInit, ChunkInv PROVE TracedInv
  BY InitChunks DEF BrowserInit
<1>1. Stages /\ OneFinalAppend
  BY DEF SpoolInit, Stages, OneFinalAppend, NoDrain
<1>2. \A n \in Nat : Traced(n)
  BY DEF SpoolInit, Traced
<1> QED
  BY <1>1, <1>2 DEF TracedInv

(* Both unions of the model, element by element.                           *)
LEMMA BufferedIsWaiting == \A n, fs : n \in Buffered(fs) <=> Waiting(n, fs)
BY DEF Buffered, Waiting

LEMMA InHandIsUnderway ==
  ASSUME ChunkInv
  PROVE  \A n : n \in InHand <=> n \in Elements(drain.got) \/ Underway(n, {"spool", "final"})
BY DEF ChunkInv, ChunkTypes, AppendRecord, InHand, Underway

LEMMA AppendIsUnderway ==
  ASSUME NEW who, NEW s, NEW n \in Elements(s),
         appends' = appends \cup {[by |-> who, chunks |-> s]}
  PROVE  Underway(n, {who})'
<1> DEFINE new == [by |-> who, chunks |-> s]
<1>1. new \in appends' /\ new.by \in {who} /\ new.chunks = s
  OBVIOUS
<1> HIDE DEF new
<1>2. n \in Elements(new.chunks)
  BY <1>1
<1> QED
  BY <1>1, <1>2 DEF Underway

LEMMA RecordFinds == ASSUME TracedInv, ChunkInv', NEW f \in Frames, Record(f) PROVE TracedInv'
<1>1. /\ UNCHANGED <<spool, final, drain, appends, file, mp3, stopAt, adrift>>
      /\ recorded \in Seq(Frames) /\ buffer \in [Frames -> Seq(Nat)]
      /\ buffer' = [buffer EXCEPT ![f] = Append(buffer[f], Len(recorded) + 1)]
      /\ recorded' = Append(recorded, f)
  BY DEF TracedInv, ChunkInv, ChunkTypes, Record, fileVars, historyVars
<1>2. Stages' /\ OneFinalAppend'
  BY <1>1 DEF TracedInv, Stages, OneFinalAppend
<1>3. /\ Len(recorded) \in Nat /\ Len(recorded') = Len(recorded) + 1
      /\ 1 .. Len(recorded') = 1 .. Len(recorded) \cup {Len(recorded) + 1}
  BY <1>1
<1>4. /\ Elements(buffer'[f]) = Elements(buffer[f]) \cup {Len(recorded) + 1}
      /\ \A g \in Frames : g # f => buffer'[g] = buffer[g]
  <2>1. /\ buffer[f] \in Seq(Nat) /\ Once(buffer[f])
        /\ Len(recorded) + 1 \notin Elements(buffer[f])
    BY <1>1, <1>3 DEF TracedInv, ChunkInv, ChunksOnce, ChunksRecorded, Recorded
  <2> QED
    BY <1>1, <1>3, <2>1, OneMore
<1>5. ASSUME NEW n \in Nat PROVE Traced(n)'
  <2>1. Waiting(n, Frames) \/ n = Len(recorded) + 1 => Waiting(n, Frames)'
    BY <1>4 DEF Waiting
  <2>2. final = "drain" => drain.frame .. NFrames \subseteq Frames
    <3>1. drain.frame \in 0 .. NFrames /\ NFrames \in Nat
      BY SpoolAssumption DEF TracedInv, ChunkInv, ChunkTypes
    <3>2. final = "drain" => drain.frame # 0
      BY DEF TracedInv, Stages
    <3> QED
      BY <3>1, <3>2 DEF Frames
  <2>3. final = "drain" /\ Waiting(n, drain.frame .. NFrames) =>
          Waiting(n, drain.frame .. NFrames)'
    BY <1>1, <1>4, <2>2 DEF Waiting
  <2>4. Traced(n) /\ (Underway(n, {"spool"})' <=> Underway(n, {"spool"}))
        /\ (Underway(n, {"final"})' <=> Underway(n, {"final"})) /\ (Kept(n)' <=> Kept(n))
    BY <1>1 DEF TracedInv, Underway, Kept
  <2> QED
    BY <1>1, <1>3, <2>1, <2>3, <2>4 DEF Traced
<1> QED
  BY <1>2, <1>5 DEF TracedInv

(* The drain goes on, or ends and hands on what it has.                    *)
LEMMA DrainStages ==
  ASSUME TracedInv, NEW got, Ends(got)
  PROVE  /\ drain' = NoDrain
         /\ \/ /\ spool = "drain" /\ final' = final
               /\ spool' \in {"append", "sleep"}
               /\ \/ appends' = appends \cup {[by |-> "spool", chunks |-> got]}
                  \/ got = <<>> /\ appends' = appends
            \/ /\ final = "drain" /\ spool' = spool
               /\ \/ /\ final' = "append"
                     /\ appends' = appends \cup {[by |-> "final", chunks |-> got]}
                  \/ /\ final' \in {"failed", "convert"}
                     /\ got = <<>> /\ appends' = appends
BY DEF TracedInv, Stages, Ends, Appending, ConvertOrFail

(* Of the buffers, that of the frame asked goes into the answer or is      *)
(* noted as adrift; the others stay or are noted.                          *)
LEMMA DrainFinds ==
  ASSUME TracedInv, ChunkInv', drain.frame # 0,
         NEW answer \in Seq(Nat), Continues(answer),
         Elements(drain.got \o answer) = Elements(drain.got) \cup Elements(answer),
         adrift \subseteq adrift',
         UNCHANGED <<recorded, file, mp3, stopAt>>,
         \A n \in Elements(buffer[drain.frame]) : n \in Elements(answer) \/ n \in adrift',
         \A f \in Frames : f # drain.frame =>
           \A n \in Elements(buffer[f]) : n \in Elements(buffer'[f]) \/ n \in adrift'
  PROVE  TracedInv'
<1> DEFINE s == drain.got \o answer
<1>1. /\ drain.frame \in 1 .. NFrames /\ drain.frame \in Frames /\ NFrames \in Nat
      /\ "drain" \in {spool, final} /\ Stages /\ OneFinalAppend
  BY SpoolAssumption DEF TracedInv, ChunkInv, ChunkTypes, Stages, Frames
<1>2. Elements(s) = Elements(drain.got) \cup Elements(answer)
  OBVIOUS
<1> HIDE DEF s
<1>3. ASSUME NEW n \in Nat PROVE Traced(n)
  BY DEF TracedInv
<1>4. ASSUME NEW n PROVE Kept(n) => Kept(n)'
  BY DEF Kept
<1>5. CASE drain.frame < NFrames
  <2>1. /\ drain' = [frame |-> drain.frame + 1, got |-> s]
        /\ UNCHANGED <<spool, final, appends>>
    BY <1>5 DEF Continues, s
  <2>2. Stages' /\ OneFinalAppend'
    BY <1>1, <1>5, <2>1 DEF Stages, OneFinalAppend
  <2>3. ASSUME NEW n \in Nat PROVE Traced(n)'
    <3>1. Waiting(n, Frames) => Waiting(n, Frames)' \/ n \in Elements(s) \/ n \in adrift'
      BY <1>1, <1>2 DEF Waiting
    <3>2. Waiting(n, drain.frame .. NFrames) =>
            Waiting(n, drain.frame .. NFrames)' \/ n \in Elements(s) \/ n \in adrift'
      <4>1. drain.frame .. NFrames = {drain.frame} \cup ((drain.frame + 1) .. NFrames)
            /\ (drain.frame + 1) .. NFrames \subseteq Frames \ {drain.frame}
        BY <1>1, <1>5 DEF Frames
      <4>2. drain'.frame = drain.frame + 1
        BY <2>1
      <4> QED
        BY <1>1, <1>2, <4>1, <4>2 DEF Waiting
    <3>4. Underway(n, {"spool"})' <=> Underway(n, {"spool"})
      BY <2>1 DEF Underway
    <3>5. final # "append" /\ n \in adrift' => Kept(n)'
      BY DEF Kept
    <3>6. final \in {"off", "drain"} /\ drain'.got = s
      BY <1>1, <2>1 DEF Stages
    <3> QED
      BY <1>2, <1>3, <1>4, <2>1, <3>1, <3>2, <3>4, <3>5, <3>6 DEF Traced
  <2> QED
    BY <2>2, <2>3 DEF TracedInv
<1>6. CASE ~(drain.frame < NFrames)
  <2>1. Ends(s) /\ drain.frame .. NFrames = {drain.frame}
    BY <1>1, <1>6 DEF Continues, s
  <2>2. /\ drain' = NoDrain
        /\ \/ /\ spool = "drain" /\ final' = final
              /\ spool' \in {"append", "sleep"}
              /\ \/ appends' = appends \cup {[by |-> "spool", chunks |-> s]}
                 \/ s = <<>> /\ appends' = appends
           \/ /\ final = "drain" /\ spool' = spool
              /\ \/ /\ final' = "append"
                    /\ appends' = appends \cup {[by |-> "final", chunks |-> s]}
                 \/ /\ final' \in {"failed", "convert"}
                    /\ s = <<>> /\ appends' = appends
    BY <2>1, DrainStages
  <2>3. drain'.frame = 0 /\ drain'.got = <<>>
    BY <2>2 DEF NoDrain
  <2>4. ASSUME NEW n \in Nat, Waiting(n, Frames)
        PROVE  Waiting(n, Frames)' \/ n \in Elements(s) \/ n \in adrift'
    BY <1>1, <1>2, <2>4 DEF Waiting
  <2>5. ASSUME NEW n \in Nat, Waiting(n, drain.frame .. NFrames)
        PROVE  n \in Elements(s) \/ n \in adrift'
    BY <1>2, <2>1, <2>5 DEF Waiting
  <2>6. CASE spool = "drain"
    <3>1. final = "off"
      BY <1>1, <2>6 DEF Stages
    <3>2. /\ final' = "off" /\ spool' \in {"append", "sleep"}
          /\ \/ appends' = appends \cup {[by |-> "spool", chunks |-> s]}
             \/ s = <<>> /\ appends' = appends
      BY <2>2, <3>1
    <3>3. Stages' /\ OneFinalAppend'
      BY <1>1, <2>3, <3>1, <3>2 DEF Stages, OneFinalAppend
    <3>4. ASSUME NEW n \in Nat
          PROVE  n \in Elements(s) \/ Underway(n, {"spool"}) => Underway(n, {"spool"})'
      <4>1. CASE appends' = appends \cup {[by |-> "spool", chunks |-> s]}
        <5>1. n \in Elements(s) => Underway(n, {"spool"})'
          BY <4>1, AppendIsUnderway
        <5>2. Underway(n, {"spool"}) => Underway(n, {"spool"})'
          BY <4>1 DEF Underway
        <5> QED
          BY <5>1, <5>2
      <4>2. CASE s = <<>> /\ appends' = appends
        BY <4>2, NoChunks DEF Underway
      <4> QED
        BY <3>2, <4>1, <4>2
    <3>5. ASSUME NEW n \in Nat PROVE Traced(n)'
      BY <1>2, <1>3, <1>4, <2>4, <3>1, <3>2, <3>4 DEF Traced, Kept
    <3> QED
      BY <3>3, <3>5 DEF TracedInv
  <2>7. CASE final = "drain"
    <3>1. spool = "stopped"
      BY <1>1, <2>7 DEF Stages
    <3>2. /\ spool' = "stopped"
          /\ \/ /\ final' = "append"
                /\ appends' = appends \cup {[by |-> "final", chunks |-> s]}
             \/ /\ final' \in {"failed", "convert"}
                /\ s = <<>> /\ appends' = appends
      BY <2>2, <3>1
    <3>3. Stages' /\ OneFinalAppend'
      BY <1>1, <2>3, <2>7, <3>2 DEF Stages, OneFinalAppend
    <3>4. ASSUME NEW n \in Nat, n \in 1 .. stopAt
          PROVE  n \in Elements(s) \/ Kept(n)'
      BY <1>2, <1>3, <1>4, <2>5, <2>7, <3>4 DEF Traced, Kept
    <3>5. ASSUME NEW n \in Nat, n \in Elements(s), final' = "append"
          PROVE  Underway(n, {"final"})'
      BY <3>2, <3>5 DEF Underway
    <3>6. ASSUME NEW n \in Nat PROVE Traced(n)'
      BY <3>2, <3>4, <3>5, NoChunks DEF Traced
    <3> QED
      BY <3>3, <3>6 DEF TracedInv
  <2> QED
    BY <1>1, <2>6, <2>7
<1> QED
  BY <1>5, <1>6

LEMMA AnswerFinds == ASSUME TracedInv, ChunkInv', Answer PROVE TracedInv'
<1> DEFINE f == drain.frame
<1>1. /\ f \in Frames /\ drain.got \in Seq(Nat) /\ buffer \in [Frames -> Seq(Nat)]
      /\ buffer[f] \in Seq(Nat)
  BY SpoolAssumption DEF TracedInv, ChunkInv, ChunkTypes, Answer, Frames
<1>2. /\ Once(drain.got) /\ Once(buffer[f])
      /\ Elements(drain.got) \cap Elements(buffer[f]) = {}
  BY <1>1 DEF TracedInv, ChunkInv, ChunksOnce, ChunksApart, InBuffers
<1>3. Elements(drain.got \o buffer[f]) = Elements(drain.got) \cup Elements(buffer[f])
  BY <1>1, <1>2, Together
<1>4. /\ Continues(buffer[f]) /\ f # 0
      /\ UNCHANGED <<recorded, file, mp3, stopAt, adrift>>
      /\ \A g \in Frames : g # f => buffer'[g] = buffer[g]
  BY <1>1 DEF Answer, Flushed, fileVars, historyVars
<1> QED
  BY <1>1, <1>3, <1>4, DrainFinds

(* What the places have afterwards they had before, or it is adrift, and   *)
(* the coroutines stand where they stood.                                  *)
LEMMA DroppedIsFound ==
  ASSUME TracedInv, ChunkInv', Stages',
         final' = final, drain'.got = drain.got \/ drain.got = <<>>,
         drain'.frame = drain.frame \/ final # "drain",
         appends' = appends, UNCHANGED <<recorded, file, mp3, stopAt>>,
         adrift \subseteq adrift',
         \A f \in Frames : \A n \in Elements(buffer[f]) :
           n \in Elements(buffer'[f]) \/ n \in adrift'
  PROVE  TracedInv'
<1>1. OneFinalAppend'
  BY DEF TracedInv, OneFinalAppend
<1>2. final = "drain" => drain.frame .. NFrames \subseteq Frames
  <2>1. drain.frame \in 0 .. NFrames /\ NFrames \in Nat
    BY SpoolAssumption DEF TracedInv, ChunkInv, ChunkTypes
  <2>2. final = "drain" => drain.frame # 0
    BY DEF TracedInv, Stages
  <2> QED
    BY <2>1, <2>2 DEF Frames
<1>3. ASSUME NEW n \in Nat PROVE Traced(n)'
  <2>1. Waiting(n, Frames) => Waiting(n, Frames)' \/ n \in adrift'
    BY DEF Waiting
  <2>2. final = "drain" /\ Waiting(n, drain.frame .. NFrames) =>
          Waiting(n, drain.frame .. NFrames)' \/ n \in adrift'
    BY <1>2 DEF Waiting
  <2>3. /\ Underway(n, {"spool"}) => Underway(n, {"spool"})'
        /\ Underway(n, {"final"}) => Underway(n, {"final"})'
    BY DEF Underway
  <2>4. /\ Kept(n) \/ n \in adrift' => Kept(n)'
        /\ n \in Elements(drain.got) => n \in Elements(drain'.got)
    BY NoChunks DEF Kept
  <2>5. Traced(n)
    BY DEF TracedInv
  <2> QED
    BY <2>1, <2>2, <2>3, <2>4, <2>5 DEF Traced
<1> QED
  BY <1>1, <1>3 DEF TracedInv

LEMMA SpoolFinds ==
  ASSUME TracedInv, ChunkInv', SpoolBegins \/ SpoolWakes \/ UNCHANGED spoolVars
  PROVE  TracedInv'
<1>1. /\ UNCHANGED <<final, appends, recorded, buffer, file, mp3, stopAt, adrift>>
      /\ drain' = drain \/ spool = "sleep"
  BY DEF SpoolBegins, SpoolWakes, Begins, spoolVars, pageBufferVars, fileVars, historyVars
<1>2. Stages'
  BY DEF TracedInv, Stages, SpoolBegins, SpoolWakes, Begins, spoolVars, pageBufferVars,
         fileVars, historyVars
<1>3. spool = "sleep" => final = "off" /\ drain.got = <<>>
  BY DEF TracedInv, Stages
<1> QED
  BY <1>1, <1>2, <1>3, DroppedIsFound

LEMMA OrphanFinds ==
  ASSUME TracedInv, ChunkInv', NEW f \in Frames, OrphanAnswers(f) PROVE TracedInv'
<1>1. /\ UNCHANGED <<spool, final, drain, appends, recorded, file, mp3, stopAt>>
      /\ buffer' = [buffer EXCEPT ![f] = <<>>] /\ buffer \in [Frames -> Seq(Nat)]
      /\ adrift' = adrift \cup Buffered({f})
  BY DEF OrphanAnswers, Flushed, fileVars, TracedInv, ChunkInv, ChunkTypes
<1>2. Stages'
  BY <1>1 DEF TracedInv, Stages
<1>3. \A n \in Elements(buffer[f]) : n \in adrift'
  BY <1>1, BufferedIsWaiting DEF Waiting
<1>4. \A g \in Frames : g # f => buffer'[g] = buffer[g]
  BY <1>1
<1>5. \A g \in Frames : \A n \in Elements(buffer[g]) :
        n \in Elements(buffer'[g]) \/ n \in adrift'
  BY <1>3, <1>4
<1> QED
  BY <1>1, <1>2, <1>5, DroppedIsFound

LEMMA ReloadFinds == ASSUME TracedInv, ChunkInv', Reload PROVE TracedInv'
<1>1. /\ UNCHANGED <<recorded, file, mp3, stopAt>>
      /\ adrift' = adrift \cup Buffered(Frames)
  BY DEF Reload, fileVars
<1>2. \A f \in Frames : \A n \in Elements(buffer[f]) : n \in adrift'
  BY <1>1, BufferedIsWaiting DEF Waiting
<1>3. CASE drain.frame = 0
  <2>1. UNCHANGED <<spool, final, drain, appends>>
    BY <1>3 DEF Reload
  <2>2. Stages'
    BY <1>1, <2>1 DEF TracedInv, Stages
  <2> QED
    BY <1>1, <1>2, <2>1, <2>2, DroppedIsFound
<1>4. CASE drain.frame # 0
  <2>1. Continues(<<>>)
    BY <1>4 DEF Reload
  <2>2. drain.frame \in Frames
    BY <1>4, SpoolAssumption DEF TracedInv, ChunkInv, ChunkTypes, Frames
  <2>3. Elements(drain.got \o <<>>) = Elements(drain.got) \cup Elements(<<>>)
    BY DrainedIsMovable, NoChunks DEF TracedInv
  <2> QED
    BY <1>1, <1>2, <1>4, <2>1, <2>2, <2>3, NoChunks, DrainFinds
<1> QED
  BY <1>3, <1>4

LEMMA SpoolTimeoutFinds == ASSUME TracedInv, ChunkInv', SpoolDrainTimesOut PROVE TracedInv'
<1> DEFINE s == drain.got
<1>1. /\ UNCHANGED <<recorded, buffer, file, mp3, stopAt, adrift>>
      /\ Ends(s) /\ spool = "drain" /\ final = "off"
  BY DEF SpoolDrainTimesOut, pageBufferVars, fileVars, historyVars, TracedInv, Stages
<1>2. /\ drain' = NoDrain /\ final' = "off"
      /\ spool' \in {"append", "sleep"}
      /\ \/ appends' = appends \cup {[by |-> "spool", chunks |-> s]}
         \/ s = <<>> /\ appends' = appends
  BY <1>1, DrainStages
<1>3. Stages' /\ OneFinalAppend'
  BY <1>1, <1>2 DEF TracedInv, Stages, OneFinalAppend, NoDrain
<1> HIDE DEF s
<1>4. ASSUME NEW n \in Nat
      PROVE  n \in Elements(s) \/ Underway(n, {"spool"}) => Underway(n, {"spool"})'
  <2>1. CASE appends' = appends \cup {[by |-> "spool", chunks |-> s]}
    <3>1. n \in Elements(s) => Underway(n, {"spool"})'
      BY <2>1, AppendIsUnderway
    <3>2. Underway(n, {"spool"}) => Underway(n, {"spool"})'
      BY <2>1 DEF Underway
    <3> QED
      BY <3>1, <3>2
  <2>2. CASE s = <<>> /\ appends' = appends
    BY <2>2, NoChunks DEF Underway
  <2> QED
    BY <1>2, <2>1, <2>2
<1>5. ASSUME NEW n \in Nat PROVE Traced(n)'
  <2>1. (Waiting(n, Frames)' <=> Waiting(n, Frames)) /\ (Kept(n)' <=> Kept(n)) /\ Traced(n)
    BY <1>1 DEF Waiting, Kept, TracedInv
  <2> QED
    BY <1>1, <1>2, <1>4, <2>1 DEF Traced, s
<1> QED
  BY <1>3, <1>5 DEF TracedInv

(* An append that returns writes to the file, or its chunks are adrift.    *)
LEMMA AppendFinds ==
  ASSUME TracedInv, ChunkInv', NEW a \in appends, appends' = appends \ {a},
         UNCHANGED <<recorded, buffer, drain, mp3, stopAt>>,
         NEW converting \in {"convert", "failed"}, Resumes(a.by, converting),
         Elements(file) \subseteq Elements(file'), adrift \subseteq adrift',
         Elements(a.chunks) \subseteq Elements(file') \cup adrift'
  PROVE  TracedInv'
<1>1. /\ final' = final \/ (final = "append" /\ a.by = "final" /\ final' = converting)
      /\ a.by = "final" /\ final = "append" => final' = converting
      /\ spool' = spool \/ (spool = "append" /\ spool' = "sleep")
  BY DEF Resumes
<1>2. Stages' /\ OneFinalAppend'
  BY <1>1 DEF TracedInv, Stages, OneFinalAppend
<1>3. ASSUME NEW n \in Nat PROVE Traced(n)'
  <2>1. (Kept(n) \/ n \in Elements(a.chunks) => Kept(n)') /\ Traced(n)
    BY DEF Kept, TracedInv
  <2>2. \A w \in {"spool", "final"} : Underway(n, {w}) => Underway(n, {w})' \/ Kept(n)'
    BY <2>1 DEF Underway
  <2>3. final = "append" /\ a.by = "final" /\ Underway(n, {"final"}) => Kept(n)'
    BY <2>1 DEF Underway, TracedInv, OneFinalAppend
  <2>4. /\ Waiting(n, Frames)' <=> Waiting(n, Frames)
        /\ Waiting(n, drain.frame .. NFrames)' <=> Waiting(n, drain.frame .. NFrames)
    BY DEF Waiting
  <2>5. final' = "off" => final = "off"
    BY <1>1
  <2>6. final' \in {"unlink", "saved", "drain"} => final' = final
    BY <1>1
  <2> QED
    BY <1>1, <2>1, <2>2, <2>3, <2>4, <2>5, <2>6 DEF Traced
<1> QED
  BY <1>2, <1>3 DEF TracedInv

LEMMA LandingFinds == ASSUME TracedInv, ChunkInv', AppendLands PROVE TracedInv'
<1>1. PICK a \in appends :
        /\ appends' = appends \ {a} /\ file' = file \o a.chunks
        /\ Resumes(a.by, "convert")
        /\ UNCHANGED <<recorded, buffer, drain, mp3, stopAt, adrift>>
  BY DEF AppendLands, pageBufferVars, historyVars
<1>2. /\ file \in Seq(Nat) /\ a.chunks \in Seq(Nat) /\ Once(file) /\ Once(a.chunks)
      /\ Elements(file) \cap Elements(a.chunks) = {}
  BY DEF TracedInv, ChunkInv, ChunkTypes, AppendRecord, ChunksOnce, ChunksApart, InFile
<1>3. Elements(file') = Elements(file) \cup Elements(a.chunks)
  BY <1>1, <1>2, Together
<1> QED
  BY <1>1, <1>3, AppendFinds

LEMMA FailureFinds == ASSUME TracedInv, ChunkInv', AppendFails PROVE TracedInv'
<1>1. PICK a \in appends :
        /\ appends' = appends \ {a} /\ adrift' = adrift \cup Elements(a.chunks)
        /\ Resumes(a.by, ConvertOrFail)
        /\ UNCHANGED <<recorded, buffer, drain, file, mp3, stopAt>>
  BY DEF AppendFails, pageBufferVars, fileVars
<1>2. ConvertOrFail \in {"convert", "failed"}
  BY DEF ConvertOrFail
<1> QED
  BY <1>1, <1>2, AppendFinds

(* What was recorded is now in a buffer, in the file or adrift.            *)
LEMMA StopFinds == ASSUME TracedInv, ChunkInv', Stop PROVE TracedInv'
<1>1. /\ UNCHANGED <<recorded, buffer, appends, file, mp3>>
      /\ spool' = "stopped" /\ final = "off" /\ final' = "drain"
      /\ drain' = [frame |-> 1, got |-> <<>>]
      /\ stopAt' = Len(recorded) /\ adrift' = adrift \cup InHand
  BY DEF Stop, Begins, pageBufferVars, fileVars
<1>2. Stages' /\ OneFinalAppend'
  <2>1. Len(recorded) \in Nat
    BY DEF TracedInv, ChunkInv, ChunkTypes
  <2> QED
    BY <1>1, <2>1 DEF TracedInv, Stages, OneFinalAppend
<1>3. ASSUME NEW n \in Nat PROVE Traced(n)'
  <2>1. SUFFICES ASSUME n \in 1 .. Len(recorded)
                 PROVE  Waiting(n, drain.frame .. NFrames)' \/ Kept(n)'
    BY <1>1 DEF Traced
  <2>2. Waiting(n, Frames) \/ n \in Elements(drain.got) \/ Underway(n, {"spool"}) \/ Kept(n)
    BY <1>1, <2>1 DEF TracedInv, Traced
  <2>3. Underway(n, {"spool"}) => Underway(n, {"spool", "final"})
    BY DEF Underway
  <2>4. n \in Elements(drain.got) \/ Underway(n, {"spool"}) => n \in adrift'
    BY <1>1, <2>3, InHandIsUnderway DEF TracedInv
  <2>5. Waiting(n, Frames) => Waiting(n, drain.frame .. NFrames)'
    BY <1>1 DEF Waiting, Frames
  <2>6. Kept(n) \/ n \in adrift' => Kept(n)'
    BY <1>1 DEF Kept
  <2> QED
    BY <2>2, <2>4, <2>5, <2>6
<1> QED
  BY <1>2, <1>3 DEF TracedInv

(* What the drain or the append had, and what was not asked for, is adrift.*)
LEMMA GivingUpFinds ==
  ASSUME TracedInv, ChunkInv', FinalDrainTimesOut \/ StopTimesOut PROVE TracedInv'
<1>1. /\ UNCHANGED <<recorded, buffer, spool, appends, file, mp3, stopAt>>
      /\ final \in {"drain", "append"} /\ final' = ConvertOrFail /\ drain' = NoDrain
      /\ adrift \subseteq adrift'
      /\ final = "drain" => Elements(drain.got) \cup Buffered(drain.frame .. NFrames) \subseteq adrift'
      /\ final = "append" => InHand \subseteq adrift'
  BY DEF FinalDrainTimesOut, StopTimesOut, InHand, pageBufferVars, fileVars
<1>2. final' \in {"convert", "failed"}
  BY <1>1 DEF ConvertOrFail
<1>3. Stages' /\ OneFinalAppend'
  BY <1>1, <1>2 DEF TracedInv, Stages, OneFinalAppend, NoDrain
<1>4. ASSUME NEW n \in Nat PROVE Traced(n)'
  <2>1. SUFFICES ASSUME n \in 1 .. stopAt PROVE Kept(n)'
    BY <1>1, <1>2 DEF Traced
  <2>2. Traced(n) /\ (Kept(n) \/ n \in adrift' => Kept(n)')
    BY <1>1 DEF TracedInv, Kept
  <2>3. CASE final = "drain"
    BY <1>1, <2>1, <2>2, <2>3, BufferedIsWaiting DEF Traced
  <2>4. CASE final = "append"
    <3>1. Underway(n, {"final"}) => n \in InHand
      BY InHandIsUnderway DEF TracedInv, Underway
    <3> QED
      BY <1>1, <2>1, <2>2, <2>4, <3>1 DEF Traced
  <2> QED
    BY <1>1, <2>3, <2>4
<1> QED
  BY <1>3, <1>4 DEF TracedInv

LEMMA SavingFinds == ASSUME TracedInv, ChunkInv', Convert \/ Unlink PROVE TracedInv'
<1>1. /\ UNCHANGED <<recorded, buffer, spool, drain, appends, stopAt, adrift>>
      /\ \/ final = "convert" /\ final' = "unlink" /\ mp3' = file
         \/ final = "unlink" /\ final' = "saved" /\ mp3' = mp3
  BY DEF Convert, Unlink, pageBufferVars, historyVars
<1>2. Stages' /\ OneFinalAppend'
  BY <1>1 DEF TracedInv, Stages, OneFinalAppend
<1>3. ASSUME NEW n \in Nat PROVE Traced(n)'
  BY <1>1 DEF TracedInv, Traced, Kept
<1> QED
  BY <1>2, <1>3 DEF TracedInv

LEMMA BrowserFinds == TracedInv /\ [BrowserNext]_browserVars => TracedInv'
<1> SUFFICES ASSUME TracedInv, [BrowserNext]_browserVars PROVE TracedInv'
  OBVIOUS
<1>0. ChunkInv'
  BY BrowserKeepsChunks DEF TracedInv
<1>1. CASE Joins
  BY <1>0, <1>1, SpoolFinds DEF Joins
<1>2. CASE PageReloads
  BY <1>0, <1>2, ReloadFinds DEF PageReloads
<1>3. CASE StopSession
  BY <1>0, <1>3, StopFinds DEF StopSession
<1>4. CASE SpoolSteps
  BY <1>0, <1>4, RecordFinds, OrphanFinds, AnswerFinds, SpoolFinds, SpoolTimeoutFinds,
     LandingFinds, FailureFinds, GivingUpFinds, SavingFinds, ReloadFinds
     DEF SpoolSteps, Records, RecordsOn
<1>5. CASE UNCHANGED spoolVars
  BY <1>0, <1>5, SpoolFinds
<1>6. (OpensPage \/ Watches \/ PageTicks \/ PageSteps \/ UNCHANGED browserVars)
        => UNCHANGED spoolVars
  BY DEF OpensPage, Watches, PageTicks, PageSteps, browserVars
<1> QED
  BY <1>1, <1>2, <1>3, <1>4, <1>5, <1>6 DEF BrowserNext

(* What was recorded before the stop is in the MP3 that was saved, except  *)
(* what a cancelled, timed out or failed call had in its hands: at each    *)
(* stage of finalize_to_mp3 a chunk is in a buffer still to be asked for,  *)
(* in the hands of the stage, in the file, or adrift.                      *)
THEOREM NothingElseIsLost == BrowserSpec => []SavedIsComplete
<1>1. BrowserSpec => []TracedInv
  BY InitFound, BrowserFinds, PTL DEF BrowserSpec
<1> QED
  BY <1>1, TracedInvSuffices, PTL

-----------------------------------------------------------------------------
(***************************************************************************)
(* The order: on every way from the page to the MP3 the chunks of a frame  *)
(* keep the order in which it recorded them.                               *)
(***************************************************************************)
(* Chunk n may be heard after chunk m.                                     *)
Follows(m, n) == recorded[m] = recorded[n] => m < n \/ n \in adrift

Sorted(s) == \A i, j \in 1 .. Len(s) : i < j => Follows(s[i], s[j])
Precedes(s, u) == \A m \in Elements(s), n \in Elements(u) : Follows(m, n)
BuffersFollow(s) == \A f \in Frames : Precedes(s, buffer[f])

ChunksSorted ==
  /\ \A f \in Frames : Sorted(buffer[f]) /\ \A n \in Elements(buffer[f]) : recorded[n] = f
  /\ Sorted(drain.got) /\ Sorted(file) /\ Sorted(mp3)
  /\ \A a \in appends : Sorted(a.chunks)

(* The file is before the appends, these before what the drain has, and    *)
(* that before the buffers.  Two appends may land in either order.         *)
PlacesOrdered ==
  /\ BuffersFollow(file) /\ BuffersFollow(drain.got)
  /\ Precedes(file, drain.got)
  /\ \A a \in appends :
       Precedes(file, a.chunks) /\ Precedes(a.chunks, drain.got) /\ BuffersFollow(a.chunks)
  /\ \A a, b \in appends : a # b => Precedes(a.chunks, b.chunks)

(* The loop awaits its append before it drains again; one that it can no   *)
(* longer await because it was cancelled is adrift.                        *)
OneSpoolAppend ==
  /\ final = "off" => \A a \in appends : a.by = "spool"
  /\ spool \in {"off", "sleep", "drain"} => appends = {}
  /\ spool = "append" => \A a, b \in appends : a = b
  /\ final # "off" => \A a \in appends : a.by = "spool" => Elements(a.chunks) \subseteq adrift
  /\ final = "drain" => \A a \in appends : a.by = "spool"

OrderInv == TracedInv /\ OneSpoolAppend /\ ChunksSorted /\ PlacesOrdered

LEMMA OrderInvSuffices == OrderInv => AudioInOrder
BY DEF OrderInv, ChunksSorted, Sorted, Follows, AudioInOrder

LEMMA InitOrdered == BrowserInit => OrderInv
<1> SUFFICES ASSUME SpoolInit, TracedInv PROVE OrderInv
  BY InitFound DEF BrowserInit
<1>1. Sorted(<<>>) /\ \A s : Precedes(<<>>, s)
  BY NoChunks DEF Sorted, Precedes
<1>2. ChunksSorted /\ PlacesOrdered
  BY <1>1, NoChunks DEF SpoolInit, ChunksSorted, PlacesOrdered, BuffersFollow, NoDrain
<1>3. OneSpoolAppend
  BY DEF SpoolInit, OneSpoolAppend
<1> QED
  BY <1>2, <1>3 DEF OrderInv

(* A sequence is in order if both of its parts are, and the one is before  *)
(* the other.                                                              *)
LEMMA SortedTogether ==
  ASSUME NEW s \in Seq(Nat), NEW u \in Seq(Nat), Sorted(s), Sorted(u), Precedes(s, u)
  PROVE  Sorted(s \o u)
<1>1. /\ Len(s) \in Nat /\ Len(u) \in Nat /\ Len(s \o u) = Len(s) + Len(u)
      /\ \A i \in 1 .. Len(s) + Len(u) :
           (s \o u)[i] = IF i <= Len(s) THEN s[i] ELSE u[i - Len(s)]
  OBVIOUS
<1> SUFFICES ASSUME NEW i \in 1 .. Len(s) + Len(u), NEW j \in 1 .. Len(s) + Len(u), i < j
             PROVE  Follows((s \o u)[i], (s \o u)[j])
  BY <1>1 DEF Sorted
<1>2. CASE j <= Len(s)
  <2>1. i \in 1 .. Len(s) /\ j \in 1 .. Len(s) /\ (s \o u)[i] = s[i] /\ (s \o u)[j] = s[j]
    BY <1>1, <1>2
  <2> QED
    BY <2>1 DEF Sorted
<1>3. CASE i <= Len(s) /\ j > Len(s)
  <2>1. /\ i \in 1 .. Len(s) /\ j - Len(s) \in 1 .. Len(u)
        /\ (s \o u)[i] = s[i] /\ (s \o u)[j] = u[j - Len(s)]
    BY <1>1, <1>3
  <2>2. s[i] \in Elements(s) /\ u[j - Len(s)] \in Elements(u)
    BY <2>1 DEF Elements
  <2> QED
    BY <2>1, <2>2 DEF Precedes
<1>4. CASE i > Len(s)
  <2>1. /\ i - Len(s) \in 1 .. Len(u) /\ j - Len(s) \in 1 .. Len(u)
        /\ i - Len(s) < j - Len(s)
        /\ (s \o u)[i] = u[i - Len(s)] /\ (s \o u)[j] = u[j - Len(s)]
    BY <1>1, <1>4
  <2> QED
    BY <2>1 DEF Sorted
<1> QED
  BY <1>1, <1>2, <1>3, <1>4

(* What is in order stays so: chunks keep their frames, and what is adrift *)
(* stays adrift.                                                           *)
LEMMA FollowsOn ==
  ASSUME recorded' = recorded, adrift \subseteq adrift'
  PROVE  \A m, n : Follows(m, n) => Follows(m, n)'
BY DEF Follows

(* Every place keeps what it had or has nothing.                           *)
LEMMA DroppedIsOrdered ==
  ASSUME ChunksSorted, PlacesOrdered, recorded' = recorded, adrift \subseteq adrift',
         \A f \in Frames : buffer'[f] = buffer[f] \/ buffer'[f] = <<>>,
         drain'.got = drain.got \/ drain'.got = <<>>,
         appends' \subseteq appends,
         file' = file \/ file' = <<>>,
         mp3' = mp3 \/ mp3' = file
  PROVE  ChunksSorted' /\ PlacesOrdered'
<1>1. \A m, n : Follows(m, n) => Follows(m, n)'
  BY FollowsOn
<1>2. ChunksSorted'
  <2>1. \A s : Sorted(s) => Sorted(s)'
    BY <1>1 DEF Sorted
  <2>2. Sorted(<<>>)'
    BY DEF Sorted
  <2> QED
    BY <2>1, <2>2, NoChunks DEF ChunksSorted
<1>3. PlacesOrdered'
  <2>1. \A s, u : Precedes(s, u) => Precedes(s, u)'
    BY <1>1 DEF Precedes
  <2>2. \A s : Precedes(<<>>, s)' /\ Precedes(s, <<>>)'
    BY NoChunks DEF Precedes
  <2> QED
    BY <2>1, <2>2 DEF PlacesOrdered, BuffersFollow
<1> QED
  BY <1>2, <1>3

(* A drain that ends makes one append, for the one that drained.           *)
LEMMA EndIsOneAppend ==
  ASSUME OrderInv, NEW got, Ends(got), adrift \subseteq adrift'
  PROVE  OneSpoolAppend'
<1>1. Stages /\ OneSpoolAppend /\ TracedInv
  BY DEF OrderInv, TracedInv
<1>2. CASE spool = "drain"
  <2>1. final = "off" /\ appends = {}
    BY <1>1, <1>2 DEF Stages, OneSpoolAppend
  <2>2. /\ final' = "off" /\ spool' \in {"append", "sleep"}
        /\ \/ appends' = {[by |-> "spool", chunks |-> got]} /\ spool' = "append"
           \/ appends' = {}
    BY <1>2, <2>1 DEF Ends, Appending
  <2> QED
    BY <2>2 DEF OneSpoolAppend
<1>3. CASE final = "drain"
  <2>1. spool = "stopped" /\ \A a \in appends : a.by = "spool" /\ Elements(a.chunks) \subseteq adrift
    BY <1>1, <1>3 DEF Stages, OneSpoolAppend
  <2>2. /\ spool' = "stopped" /\ final' \in {"append", "failed", "convert"}
        /\ appends' \subseteq appends \cup {[by |-> "final", chunks |-> got]}
    BY <1>1, <1>3, <2>1, DrainStages
  <2> QED
    BY <2>1, <2>2 DEF OneSpoolAppend
<1> QED
  BY <1>2, <1>3 DEF Ends

(* Chunks s that no place has any more are drained or handed to an append: *)
(* they are after the file and the appends, and before the buffers.        *)
LEMMA MovedIsOrdered ==
  ASSUME ChunksSorted, PlacesOrdered, UNCHANGED <<recorded, file, mp3>>,
         adrift \subseteq adrift',
         NEW s, Sorted(s), Precedes(file, s),
         \A a \in appends : Precedes(a.chunks, s) /\ Precedes(s, a.chunks),
         \A f \in Frames :
           buffer'[f] = <<>> \/ (buffer'[f] = buffer[f] /\ Precedes(s, buffer[f])),
         \/ drain'.got = s /\ appends' = appends
         \/ drain'.got = <<>> /\ appends' = appends
         \/ /\ drain'.got = <<>>
            /\ \E who \in {"spool", "final"} :
                 appends' = appends \cup {[by |-> who, chunks |-> s]}
  PROVE  ChunksSorted' /\ PlacesOrdered'
<1>1. /\ \A u : Sorted(u) => Sorted(u)'
      /\ \A u, v : Precedes(u, v) => Precedes(u, v)'
  BY FollowsOn DEF Sorted, Precedes
<1>2. Sorted(<<>>)' /\ \A u : Precedes(<<>>, u)' /\ Precedes(u, <<>>)'
  BY NoChunks DEF Sorted, Precedes
<1>3. drain'.got \in {s, <<>>}
  OBVIOUS
<1>4. \A a \in appends' : a \in appends \/ (a.chunks = s /\ drain'.got = <<>>)
  OBVIOUS
<1>5. \A a, b \in appends' : a # b => a \in appends \/ b \in appends
  OBVIOUS
<1>6. ChunksSorted'
  <2>1. \A f \in Frames : Sorted(buffer[f])' /\ \A n \in Elements(buffer'[f]) : recorded'[n] = f
    BY <1>1, <1>2, NoChunks DEF ChunksSorted
  <2>2. Sorted(drain.got)' /\ Sorted(file)' /\ Sorted(mp3)'
    BY <1>1, <1>2, <1>3 DEF ChunksSorted
  <2>3. \A a \in appends' : Sorted(a.chunks)'
    BY <1>1, <1>4 DEF ChunksSorted
  <2> QED
    BY <2>1, <2>2, <2>3 DEF ChunksSorted
<1>7. PlacesOrdered'
  <2>1. BuffersFollow(file)' /\ BuffersFollow(drain.got)'
    BY <1>1, <1>2, <1>3 DEF PlacesOrdered, BuffersFollow
  <2>2. Precedes(file, drain.got)'
    BY <1>1, <1>2, <1>3
  <2>3. ASSUME NEW a \in appends'
        PROVE  Precedes(file, a.chunks)' /\ Precedes(a.chunks, drain.got)' /\ BuffersFollow(a.chunks)'
    <3>1. CASE a \in appends
      BY <1>1, <1>2, <1>3, <3>1 DEF PlacesOrdered, BuffersFollow
    <3>2. CASE a.chunks = s /\ drain'.got = <<>>
      BY <1>1, <1>2, <3>2 DEF BuffersFollow
    <3> QED
      BY <1>4, <3>1, <3>2
  <2>4. ASSUME NEW a \in appends', NEW b \in appends', a # b
        PROVE  Precedes(a.chunks, b.chunks)'
    <3>1. Precedes(a.chunks, b.chunks)
      BY <1>4, <1>5, <2>4 DEF PlacesOrdered
    <3> QED
      BY <1>1, <3>1
  <2> QED
    BY <2>1, <2>2, <2>3, <2>4 DEF PlacesOrdered
<1> QED
  BY <1>6, <1>7

(* While a drain is under way an append can only be one that was cancelled.*)
LEMMA DrainIsLast ==
  ASSUME OrderInv, drain.frame # 0
  PROVE  \A s : \A a \in appends : Precedes(s, a.chunks)
BY DEF OrderInv, TracedInv, Stages, OneSpoolAppend, Precedes, Follows

(* What the drain has, with the answer, goes to the next frame or is       *)
(* appended.                                                               *)
LEMMA DrainIsOrdered ==
  ASSUME OrderInv, TracedInv', drain.frame # 0,
         NEW answer \in Seq(Nat), Continues(answer),
         Elements(drain.got \o answer) = Elements(drain.got) \cup Elements(answer),
         UNCHANGED <<recorded, file, mp3>>, adrift \subseteq adrift',
         Sorted(answer), Precedes(drain.got, answer), Precedes(file, answer),
         \A a \in appends : Precedes(a.chunks, answer),
         \A f \in Frames :
           buffer'[f] = <<>> \/ (buffer'[f] = buffer[f] /\ Precedes(answer, buffer[f]))
  PROVE  OrderInv'
<1> DEFINE s == drain.got \o answer
<1>1. drain.got \in Seq(Nat) /\ Elements(s) = Elements(drain.got) \cup Elements(answer)
  BY DEF OrderInv, TracedInv, ChunkInv, ChunkTypes
<1>2. Sorted(s)
  BY <1>1, SortedTogether DEF OrderInv, ChunksSorted
<1>3. /\ Precedes(file, s) /\ \A a \in appends : Precedes(a.chunks, s)
      /\ \A f \in Frames : buffer'[f] = <<>> \/ (buffer'[f] = buffer[f] /\ Precedes(s, buffer[f]))
  <2> HIDE DEF s
  <2> QED
    BY <1>1 DEF OrderInv, PlacesOrdered, BuffersFollow, Precedes
<1>4. \A a \in appends : Precedes(s, a.chunks)
  BY DrainIsLast
<1>5. /\ \/ drain'.got = s /\ appends' = appends
         \/ drain'.got = <<>> /\ appends' = appends
         \/ /\ drain'.got = <<>>
            /\ \E who \in {"spool", "final"} :
                 appends' = appends \cup {[by |-> who, chunks |-> s]}
  BY DrainContinues DEF OrderInv, TracedInv, ChunkInv
<1>6. OneSpoolAppend'
  <2>1. CASE drain.frame < NFrames
    <3>1. UNCHANGED <<spool, final, appends>>
      BY <2>1 DEF Continues
    <3> QED
      BY <3>1 DEF OrderInv, OneSpoolAppend
  <2>2. CASE ~(drain.frame < NFrames)
    <3>1. Ends(s)
      BY <2>2 DEF Continues
    <3> HIDE DEF s
    <3> QED
      BY <3>1, EndIsOneAppend
  <2> QED
    BY <2>1, <2>2
<1> HIDE DEF s
<1>7. ChunksSorted' /\ PlacesOrdered'
  BY <1>2, <1>3, <1>4, <1>5, MovedIsOrdered DEF OrderInv
<1> QED
  BY <1>6, <1>7 DEF OrderInv

LEMMA AnswerIsOrdered == ASSUME OrderInv, TracedInv', Answer PROVE OrderInv'
<1> DEFINE f == drain.frame
<1>1. /\ f \in Frames /\ f # 0 /\ buffer \in [Frames -> Seq(Nat)] /\ buffer[f] \in Seq(Nat)
      /\ drain.got \in Seq(Nat)
  BY SpoolAssumption DEF OrderInv, TracedInv, ChunkInv, ChunkTypes, Answer, Frames
<1>2. Elements(drain.got \o buffer[f]) = Elements(drain.got) \cup Elements(buffer[f])
  BY <1>1, Together DEF OrderInv, TracedInv, ChunkInv, ChunksOnce, ChunksApart, InBuffers
<1>3. /\ Continues(buffer[f]) /\ UNCHANGED <<recorded, file, mp3, adrift>>
      /\ buffer'[f] = <<>> /\ \A g \in Frames : g # f => buffer'[g] = buffer[g]
  BY <1>1 DEF Answer, Flushed, fileVars, historyVars
<1>4. /\ Sorted(buffer[f]) /\ Precedes(drain.got, buffer[f]) /\ Precedes(file, buffer[f])
      /\ \A a \in appends : Precedes(a.chunks, buffer[f])
  BY <1>1 DEF OrderInv, ChunksSorted, PlacesOrdered, BuffersFollow
<1>5. \A g \in Frames : g # f => Precedes(buffer[f], buffer[g])
  BY <1>1 DEF OrderInv, ChunksSorted, Precedes, Follows
<1> HIDE DEF f
<1>6. \A g \in Frames :
        buffer'[g] = <<>> \/ (buffer'[g] = buffer[g] /\ Precedes(buffer[f], buffer[g]))
  BY <1>3, <1>5
<1> QED
  BY <1>1, <1>2, <1>3, <1>4, <1>6, DrainIsOrdered DEF f

LEMMA ReloadIsOrdered == ASSUME OrderInv, TracedInv', Reload PROVE OrderInv'
<1>1. /\ UNCHANGED <<recorded, file, mp3>> /\ adrift \subseteq adrift'
      /\ \A f \in Frames : buffer'[f] = <<>>
  BY DEF Reload, fileVars
<1>2. CASE drain.frame = 0
  <2>1. UNCHANGED <<spool, final, drain, appends>>
    BY <1>2 DEF Reload
  <2>2. ChunksSorted' /\ PlacesOrdered'
    BY <1>1, <2>1, DroppedIsOrdered DEF OrderInv
  <2>3. OneSpoolAppend'
    BY <1>1, <2>1 DEF OrderInv, OneSpoolAppend
  <2> QED
    BY <2>2, <2>3 DEF OrderInv
<1>3. CASE drain.frame # 0
  <2>1. Continues(<<>>)
    BY <1>3 DEF Reload
  <2>2. Elements(drain.got \o <<>>) = Elements(drain.got) \cup Elements(<<>>)
    BY DrainedIsMovable, NoChunks DEF OrderInv, TracedInv
  <2>3. Sorted(<<>>) /\ \A s : Precedes(s, <<>>)
    BY NoChunks DEF Sorted, Precedes
  <2> QED
    BY <1>1, <1>3, <2>1, <2>2, <2>3, NoChunks, DrainIsOrdered
<1> QED
  BY <1>2, <1>3

LEMMA SpoolTimeoutIsOrdered ==
  ASSUME OrderInv, TracedInv', SpoolDrainTimesOut PROVE OrderInv'
<1> DEFINE s == drain.got
<1>1. /\ UNCHANGED <<recorded, buffer, file, mp3, adrift>> /\ Ends(s) /\ drain.frame # 0
  BY DEF SpoolDrainTimesOut, pageBufferVars, fileVars, historyVars, OrderInv, TracedInv, Stages
<1>2. OneSpoolAppend'
  BY <1>1, EndIsOneAppend
<1>3. /\ drain' = NoDrain
      /\ \/ appends' = appends
         \/ \E who \in {"spool", "final"} : appends' = appends \cup {[by |-> who, chunks |-> s]}
  BY <1>1, DrainEnds
<1>4. /\ Sorted(s) /\ Precedes(file, s) /\ \A f \in Frames : Precedes(s, buffer[f])
      /\ \A a \in appends : Precedes(a.chunks, s) /\ Precedes(s, a.chunks)
  BY <1>1, DrainIsLast DEF OrderInv, ChunksSorted, PlacesOrdered, BuffersFollow
<1>5. drain'.got = <<>>
  BY <1>3 DEF NoDrain
<1> HIDE DEF s
<1>6. ChunksSorted' /\ PlacesOrdered'
  BY <1>1, <1>3, <1>4, <1>5, MovedIsOrdered DEF OrderInv
<1> QED
  BY <1>2, <1>6 DEF OrderInv

(* An append that returns leaves the spool loop with none.                 *)
LEMMA ReturnIsOneAppend ==
  ASSUME OrderInv, NEW a \in appends, appends' = appends \ {a},
         NEW converting \in {"convert", "failed"}, Resumes(a.by, converting),
         adrift \subseteq adrift'
  PROVE  OneSpoolAppend'
<1>1. Stages /\ OneSpoolAppend
  BY DEF OrderInv, TracedInv
<1>2. /\ final' = "off" <=> final = "off"
      /\ final' = "drain" => final = "drain"
      /\ spool' = spool \/ (spool = "append" /\ spool' = "sleep")
  BY DEF Resumes
<1>3. spool = "append" => appends' = {}
  BY <1>1 DEF OneSpoolAppend
<1> QED
  BY <1>1, <1>2, <1>3 DEF OneSpoolAppend

(* What lands is after the file, and whatever else is under way is after   *)
(* it.                                                                     *)
LEMMA LandingIsOrdered == ASSUME OrderInv, TracedInv', AppendLands PROVE OrderInv'
<1>1. PICK a \in appends :
        /\ appends' = appends \ {a} /\ file' = file \o a.chunks
        /\ Resumes(a.by, "convert")
        /\ UNCHANGED <<recorded, buffer, drain, mp3, adrift>>
  BY DEF AppendLands, pageBufferVars, historyVars
<1>2. /\ file \in Seq(Nat) /\ a.chunks \in Seq(Nat) /\ Once(file) /\ Once(a.chunks)
      /\ Elements(file) \cap Elements(a.chunks) = {}
  BY DEF OrderInv, TracedInv, ChunkInv, ChunkTypes, AppendRecord, ChunksOnce, ChunksApart, InFile
<1>3. Elements(file') = Elements(file) \cup Elements(a.chunks)
  BY <1>1, <1>2, Together
<1>4. Sorted(file \o a.chunks)
  BY <1>2, SortedTogether DEF OrderInv, ChunksSorted, PlacesOrdered
<1>5. /\ \A u : Sorted(u) => Sorted(u)'
      /\ \A u, v : Precedes(u, v) => Precedes(u, v)'
      /\ \A u : Precedes(file, u) /\ Precedes(a.chunks, u) => Precedes(file, u)'
  <2>1. \A m, n : Follows(m, n) => Follows(m, n)'
    BY <1>1, FollowsOn
  <2>2. \A u : Sorted(u) => Sorted(u)'
    BY <2>1 DEF Sorted
  <2>3. \A u, v : Precedes(u, v) => Precedes(u, v)'
    BY <2>1 DEF Precedes
  <2>4. \A u : Precedes(file, u) /\ Precedes(a.chunks, u) => Precedes(file, u)'
    BY <1>3, <2>1 DEF Precedes
  <2> QED
    BY <2>2, <2>3, <2>4
<1>6. ChunksSorted'
  <2>1. Sorted(file)'
    BY <1>1, <1>4, <1>5
  <2> QED
    BY <1>1, <1>5, <2>1 DEF OrderInv, ChunksSorted
<1>7. PlacesOrdered'
  <2>1. BuffersFollow(file)' /\ Precedes(file, drain.got)'
    BY <1>1, <1>5 DEF OrderInv, PlacesOrdered, BuffersFollow
  <2>2. BuffersFollow(drain.got)'
    BY <1>1, <1>5 DEF OrderInv, PlacesOrdered, BuffersFollow
  <2>3. ASSUME NEW b \in appends'
        PROVE  Precedes(file, b.chunks)' /\ Precedes(b.chunks, drain.got)' /\ BuffersFollow(b.chunks)'
    BY <1>1, <1>5 DEF OrderInv, PlacesOrdered, BuffersFollow
  <2>4. \A b, c \in appends' : b # c => Precedes(b.chunks, c.chunks)'
    BY <1>1, <1>5 DEF OrderInv, PlacesOrdered
  <2> QED
    BY <2>1, <2>2, <2>3, <2>4 DEF PlacesOrdered
<1>8. OneSpoolAppend'
  BY <1>1, ReturnIsOneAppend
<1> QED
  BY <1>6, <1>7, <1>8 DEF OrderInv

(* A stop sets adrift what the loop had in its hands.                      *)
LEMMA StopIsOneAppend == ASSUME OrderInv, Stop PROVE OneSpoolAppend'
<1>1. /\ appends' = appends /\ adrift' = adrift \cup InHand
      /\ final = "off" /\ final' = "drain" /\ spool' = "stopped"
  BY DEF Stop, pageBufferVars
<1>2. \A a \in appends : a.by = "spool"
  BY <1>1 DEF OrderInv, OneSpoolAppend
<1>3. \A a \in appends : Elements(a.chunks) \subseteq adrift'
  BY <1>1, <1>2, InHandIsUnderway DEF OrderInv, TracedInv, Underway
<1> QED
  BY <1>1, <1>2, <1>3 DEF OneSpoolAppend

(* The steps after which each place has what it had, or nothing.           *)
LEMMA DroppingKeepsOrder ==
  ASSUME OrderInv, TracedInv',
         \/ SpoolBegins \/ SpoolWakes \/ AppendFails \/ Stop \/ FinalDrainTimesOut
         \/ StopTimesOut \/ Convert \/ Unlink \/ UNCHANGED spoolVars
         \/ \E f \in Frames : OrphanAnswers(f)
  PROVE  OrderInv'
<1>1. buffer \in [Frames -> Seq(Nat)] /\ NoDrain.got = <<>> /\ [frame |-> 1, got |-> <<>>].got = <<>>
  BY DEF OrderInv, TracedInv, ChunkInv, ChunkTypes, NoDrain
<1>2. /\ recorded' = recorded /\ adrift \subseteq adrift'
      /\ buffer' = buffer \/ \E f \in Frames : buffer' = [buffer EXCEPT ![f] = <<>>]
      /\ drain' \in {drain, NoDrain, [frame |-> 1, got |-> <<>>]}
      /\ appends' \subseteq appends
      /\ file' = file \/ file' = <<>>
      /\ mp3' = mp3 \/ mp3' = file
  BY DEF SpoolBegins, SpoolWakes, AppendFails, Stop, FinalDrainTimesOut, StopTimesOut,
         Convert, Unlink, OrphanAnswers, Flushed, Begins, spoolVars, pageBufferVars,
         fileVars, historyVars
<1>3. drain'.got = drain.got \/ drain'.got = <<>>
  BY <1>1, <1>2
<1>4. \A f \in Frames : buffer'[f] = buffer[f] \/ buffer'[f] = <<>>
  BY <1>1, <1>2
<1>5. ChunksSorted' /\ PlacesOrdered'
  BY <1>2, <1>3, <1>4, DroppedIsOrdered DEF OrderInv
<1>6. OneSpoolAppend'
  <2>1. CASE AppendFails
    <3>1. PICK a \in appends : appends' = appends \ {a} /\ Resumes(a.by, ConvertOrFail)
      BY <2>1 DEF AppendFails
    <3>2. ConvertOrFail \in {"convert", "failed"}
      BY DEF ConvertOrFail
    <3> QED
      BY <1>2, <3>1, <3>2, ReturnIsOneAppend
  <2>2. CASE Stop
    BY <2>2, StopIsOneAppend
  <2>3. CASE ~AppendFails /\ ~Stop
    <3>1. /\ appends' = appends
          /\ \/ spool' = spool
             \/ spool \in {"off", "sleep"} /\ spool' \in {"sleep", "drain"}
          /\ \/ final' = final
             \/ final # "off" /\ final' \notin {"off", "drain"}
      BY <2>3 DEF SpoolBegins, SpoolWakes, FinalDrainTimesOut, StopTimesOut, Convert, Unlink,
         ConvertOrFail, OrphanAnswers, spoolVars, pageBufferVars, fileVars, historyVars
    <3> QED
      BY <1>2, <3>1 DEF OrderInv, OneSpoolAppend
  <2> QED
    BY <2>1, <2>2, <2>3
<1> QED
  BY <1>5, <1>6 DEF OrderInv

(* The newest chunk has the greatest number, and is put last.              *)
LEMMA RecordIsOrdered ==
  ASSUME OrderInv, TracedInv', NEW f \in Frames, Record(f) PROVE OrderInv'
<1>0. PICK n \in Nat : n = Len(recorded) + 1
  <2>1. Len(recorded) + 1 \in Nat
    BY DEF OrderInv, TracedInv, ChunkInv, ChunkTypes
  <2> QED
    BY <2>1
<1>1. /\ recorded \in Seq(Frames) /\ buffer \in [Frames -> Seq(Nat)] /\ buffer[f] \in Seq(Nat)
      /\ recorded' = Append(recorded, f)
      /\ buffer' = [buffer EXCEPT ![f] = Append(buffer[f], n)]
      /\ UNCHANGED <<spool, final, drain, appends, file, mp3, adrift>>
  BY <1>0 DEF OrderInv, TracedInv, ChunkInv, ChunkTypes, Record, fileVars, historyVars
<1>2. /\ n \in Nat /\ recorded'[n] = f
      /\ \A m \in 1 .. Len(recorded) : recorded'[m] = recorded[m] /\ m < n /\ m \in Nat
  BY <1>0, <1>1
<1>3. OneSpoolAppend'
  BY <1>1 DEF OrderInv, OneSpoolAppend
<1>4. /\ \A g \in Frames : Recorded(buffer[g])
      /\ Recorded(drain.got) /\ Recorded(file) /\ Recorded(mp3)
      /\ \A a \in appends : Recorded(a.chunks)
  BY DEF OrderInv, TracedInv, ChunkInv, ChunksRecorded
<1>5. \A m \in 1 .. Len(recorded) :
        /\ Follows(m, n)'
        /\ \A k \in 1 .. Len(recorded) : Follows(k, m) => Follows(k, m)'
  <2>1. adrift' = adrift
    BY <1>1
  <2> QED
    BY <1>2, <2>1 DEF Follows
<1>6. /\ \A s : Recorded(s) /\ Sorted(s) => Sorted(s)'
      /\ \A s, u : Recorded(s) /\ Recorded(u) /\ Precedes(s, u) => Precedes(s, u)'
  BY <1>5 DEF Recorded, Sorted, Precedes, Elements
<1>7. \A g \in Frames : g # f => buffer'[g] = buffer[g]
  BY <1>1
<1>8. buffer'[f] = Append(buffer[f], n)
  BY <1>1
<1>9. Elements(buffer'[f]) = Elements(buffer[f]) \cup {n}
  <2>1. Once(buffer[f]) /\ n \notin Elements(buffer[f])
    BY <1>0, <1>2, <1>4 DEF OrderInv, TracedInv, ChunkInv, ChunksOnce, Recorded
  <2> QED
    BY <1>1, <1>2, <1>8, <2>1, OneMore
<1>10. \A s : Recorded(s) /\ BuffersFollow(s) => BuffersFollow(s)'
  <2> SUFFICES ASSUME NEW s, Recorded(s), BuffersFollow(s), NEW g \in Frames
               PROVE  Precedes(s, buffer[g])'
    BY DEF BuffersFollow
  <2>1. Precedes(s, buffer[g]) /\ Recorded(buffer[g])
    BY <1>4 DEF BuffersFollow
  <2> SUFFICES ASSUME NEW k \in Elements(s), NEW m \in Elements(buffer'[g])
               PROVE  Follows(k, m)'
    BY DEF Precedes
  <2>2. k \in 1 .. Len(recorded)
    BY DEF Recorded
  <2>3. m = n \/ m \in Elements(buffer[g])
    BY <1>7, <1>9
  <2>4. m \in Elements(buffer[g]) => m \in 1 .. Len(recorded) /\ Follows(k, m)
    BY <2>1 DEF Precedes, Recorded
  <2> QED
    BY <1>5, <2>2, <2>3, <2>4
<1>11. ChunksSorted'
  <2>1. Sorted(buffer[f])'
    <3>1. /\ Len(buffer[f]) \in Nat /\ Len(buffer'[f]) = Len(buffer[f]) + 1
          /\ \A i \in 1 .. Len(buffer[f]) : buffer'[f][i] = buffer[f][i]
          /\ buffer'[f][Len(buffer[f]) + 1] = n
      BY <1>1, <1>2, <1>8
    <3>2. \A i \in 1 .. Len(buffer[f]) : buffer[f][i] \in 1 .. Len(recorded)
      BY <1>4 DEF Recorded, Elements
    <3>3. Sorted(buffer[f])
      BY DEF OrderInv, ChunksSorted
    <3> SUFFICES ASSUME NEW i \in 1 .. Len(buffer'[f]), NEW j \in 1 .. Len(buffer'[f]), i < j
                 PROVE  Follows(buffer[f][i], buffer[f][j])'
      BY DEF Sorted
    <3>4. i \in 1 .. Len(buffer[f]) /\ (j \in 1 .. Len(buffer[f]) \/ j = Len(buffer[f]) + 1)
      BY <3>1
    <3>5. j \in 1 .. Len(buffer[f]) => Follows(buffer[f][i], buffer[f][j])
      BY <3>3, <3>4 DEF Sorted
    <3>6. buffer'[f][i] = buffer[f][i] /\ buffer[f][i] \in 1 .. Len(recorded)
      BY <3>1, <3>2, <3>4
    <3>7. CASE j \in 1 .. Len(buffer[f])
      <4>1. buffer'[f][j] = buffer[f][j] /\ buffer[f][j] \in 1 .. Len(recorded)
        BY <3>1, <3>2, <3>7
      <4> QED
        BY <1>5, <3>5, <3>6, <3>7, <4>1
    <3>8. CASE j = Len(buffer[f]) + 1
      <4>1. buffer'[f][j] = n
        BY <3>1, <3>8
      <4> QED
        BY <1>5, <3>6, <4>1
    <3> QED
      BY <3>4, <3>7, <3>8
  <2>2. \A m \in Elements(buffer'[f]) : recorded'[m] = f
    BY <1>2, <1>4, <1>9 DEF OrderInv, ChunksSorted, Recorded
  <2>3. \A g \in Frames : g # f =>
          Sorted(buffer[g])' /\ \A m \in Elements(buffer'[g]) : recorded'[m] = g
    BY <1>2, <1>4, <1>6, <1>7 DEF OrderInv, ChunksSorted, Recorded
  <2>4. Sorted(drain.got)' /\ Sorted(file)' /\ Sorted(mp3)'
    BY <1>1, <1>4, <1>6 DEF OrderInv, ChunksSorted
  <2>5. \A a \in appends' : Sorted(a.chunks)'
    BY <1>1, <1>4, <1>6 DEF OrderInv, ChunksSorted
  <2> QED
    BY <2>1, <2>2, <2>3, <2>4, <2>5 DEF ChunksSorted
<1>12. PlacesOrdered'
  <2>1. BuffersFollow(file)' /\ BuffersFollow(drain.got)'
    BY <1>1, <1>4, <1>10 DEF OrderInv, PlacesOrdered
  <2>2. Precedes(file, drain.got)'
    BY <1>1, <1>4, <1>6 DEF OrderInv, PlacesOrdered
  <2>3. ASSUME NEW a \in appends'
        PROVE  Precedes(file, a.chunks)' /\ Precedes(a.chunks, drain.got)' /\ BuffersFollow(a.chunks)'
    BY <1>1, <1>4, <1>6, <1>10 DEF OrderInv, PlacesOrdered
  <2>4. \A a, b \in appends' : a # b => Precedes(a.chunks, b.chunks)'
    BY <1>1, <1>4, <1>6 DEF OrderInv, PlacesOrdered
  <2> QED
    BY <2>1, <2>2, <2>3, <2>4 DEF PlacesOrdered
<1> QED
  BY <1>3, <1>11, <1>12 DEF OrderInv

LEMMA BrowserKeepsOrder == OrderInv /\ [BrowserNext]_browserVars => OrderInv'
<1> SUFFICES ASSUME OrderInv, [BrowserNext]_browserVars PROVE OrderInv'
  OBVIOUS
<1>0. TracedInv'
  BY BrowserFinds DEF OrderInv
<1>1. CASE Joins
  BY <1>0, <1>1, DroppingKeepsOrder DEF Joins
<1>2. CASE PageReloads
  BY <1>0, <1>2, ReloadIsOrdered DEF PageReloads
<1>3. CASE StopSession
  BY <1>0, <1>3, DroppingKeepsOrder DEF StopSession
<1>4. CASE SpoolSteps
  BY <1>0, <1>4, RecordIsOrdered, AnswerIsOrdered, ReloadIsOrdered, SpoolTimeoutIsOrdered,
     LandingIsOrdered, DroppingKeepsOrder DEF SpoolSteps, Records, RecordsOn
<1>5. CASE UNCHANGED spoolVars
  BY <1>0, <1>5, DroppingKeepsOrder
<1>6. (OpensPage \/ Watches \/ PageTicks \/ PageSteps \/ UNCHANGED browserVars)
        => UNCHANGED spoolVars
  BY DEF OpensPage, Watches, PageTicks, PageSteps, browserVars
<1> QED
  BY <1>1, <1>2, <1>3, <1>4, <1>5, <1>6 DEF BrowserNext

(* The audio of a frame is in the MP3 in the order in which the frame      *)
(* recorded it, although appends go on in threads when their coroutine was *)
(* cancelled: the only chunks that another may pass are those of the       *)
(* append which a stop found under way.                                    *)
THEOREM AudioIsInOrder == BrowserSpec => []AudioInOrder
<1>1. BrowserSpec => []OrderInv
  BY InitOrdered, BrowserKeepsOrder, PTL DEF BrowserSpec
<1> QED
  BY <1>1, OrderInvSuffices, PTL
===============================================================================
