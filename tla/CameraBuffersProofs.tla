------------------------- MODULE CameraBuffersProofs -------------------------
(***************************************************************************)
(* The capture buffers, for any number of them: none is lost while frame() *)
(* loops, none is read while the camera may write to it, and what the      *)
(* clean-up takes twice.                                                   *)
(***************************************************************************)
EXTENDS CameraBuffers, FiniteSetTheorems, SequenceTheorems, TLAPS

\* The initialisation, up to and from the mapping, and the states in which the driver has
\* been given every buffer.
BeforeMap == {"open", "probe", "request"}
Early == BeforeMap \cup {"map", "enqueue", "allocate", "stream"}
Given == {"allocate", "stream", "refocus", "loop", "dequeue", "read"}
Up == Given \cup {"enqueue"}
PCs == Early \cup Up \cup {"returned", "cleanup", "teardown", "end", "aborted"}

TypeInv ==
    /\ build \in {"sequencer", "standalone"}
    /\ pc \in PCs /\ step \in Nat /\ running \in BOOLEAN
    /\ num_buffers \in {0, NumBuf}
    /\ start \in [Buffers -> {"null", "failed", "set"}]
    /\ region \in [Buffers -> {"nobody", "camera", "other"}]
    /\ enqueue_count \in Nat
    /\ current \in Buffers \cup {NoBuffer} /\ last \in Buffers \cup {NoBuffer}
    /\ granted \in Nat
    /\ incoming \in Seq(Buffers) /\ done \in Seq(Buffers)
    /\ streaming \in BOOLEAN /\ stolen \in BOOLEAN
    /\ pc = "read" => current \in Buffers
    /\ pc \in {"map", "enqueue"} => step \in Buffers
    /\ pc = "refocus" => step \in 1 .. 5

\* Memory is mapped one buffer after the other, and stays mapped while the camera streams.
MapInv ==
    /\ pc \in BeforeMap => num_buffers = 0
    /\ pc \in {"map"} \cup Up => num_buffers = NumBuf /\ granted = NumBuf /\ fd = "open"
    /\ pc \in BeforeMap => \A b \in Buffers : start[b] = "null"
    /\ pc = "map" =>
          /\ \A b \in 1 .. step - 1 : region[b] = "camera"
          /\ \A b \in step .. NumBuf : start[b] = "null"
    /\ pc \in Up => \A b \in Buffers : region[b] = "camera"
    /\ pc \in Early \cup Up => failed = {}
    /\ pc = "open" => fd = "none"
    /\ pc \in {"probe", "request"} => fd = "open"
    /\ fd = "none" => pc \in {"open", "end"}

\* A clean-up finds what it unmaps still mapped by the camera, unless mmap failed before.
CleanInv ==
    /\ pc = "cleanup" => failed # {}
    /\ pc = "cleanup" /\ step >= 2 /\ "mmap" \notin failed =>
          \A b \in 1 .. num_buffers : start[b] = "set" => region[b] = "camera"

Distinct(s) == \A i, j \in 1 .. Len(s) : s[i] = s[j] => i = j

\* Each buffer is in one place; the one given back last is at the end of its queue.
Complete ==
    /\ QueueOf(incoming) \cup QueueOf(done) \cup Held = Buffers
    /\ Len(incoming) + Len(done) + (IF pc = "read" THEN 1 ELSE 0) = NumBuf
    /\ enqueue_count = Len(incoming) + Len(done)
    /\ Distinct(incoming) /\ Distinct(done)
    /\ QueueOf(incoming) \cap QueueOf(done) = {}
    /\ pc = "read" => current \notin QueueOf(incoming) \cup QueueOf(done)
    /\ \A i \in 1 .. Len(incoming) : incoming[i] = last => i = Len(incoming)

QueueInv ==
    /\ pc \in Early => ~streaming /\ done = <<>> /\ last = NoBuffer
    /\ pc \in BeforeMap \cup {"map"} => incoming = <<>> /\ enqueue_count = 0
    /\ pc = "enqueue" =>
          /\ enqueue_count = step - 1 /\ Len(incoming) = step - 1
          /\ \A i \in 1 .. step - 1 : incoming[i] = i
    /\ pc \in Given => Complete

FocusInv ==
    /\ pc = "refocus" => streaming /\ (step = 5 => focus = "off")
    /\ InLoop => streaming /\ focus = "off"

IInv == TypeInv /\ MapInv /\ CleanInv /\ QueueInv /\ FocusInv /\ StolenNeedsMapFailure

-----------------------------------------------------------------------------
(* Sequences of buffers.                                                   *)

LEMMA AppendQueue ==
    ASSUME NEW s \in Seq(Buffers), NEW b \in Buffers
    PROVE  /\ Append(s, b) \in Seq(Buffers) /\ Len(Append(s, b)) = Len(s) + 1
           /\ QueueOf(Append(s, b)) = QueueOf(s) \cup {b}
           /\ Distinct(s) /\ b \notin QueueOf(s) => Distinct(Append(s, b))
<1>. DEFINE a == Append(s, b)
<1>1. /\ a \in Seq(Buffers) /\ Len(a) = Len(s) + 1
      /\ \A i \in 1 .. Len(s) : a[i] = s[i]
      /\ a[Len(s) + 1] = b
  BY AppendProperties
<1>2. Len(s) \in Nat OBVIOUS
<1>. HIDE DEF a
<1>3. 1 .. Len(a) = 1 .. Len(s) \cup {Len(s) + 1} BY <1>1, <1>2
<1>4. QueueOf(a) = QueueOf(s) \cup {b} BY <1>1, <1>3 DEF QueueOf
<1>5. ASSUME Distinct(s), b \notin QueueOf(s) PROVE Distinct(a)
  <2>1. \A i \in 1 .. Len(s) : s[i] # b BY <1>5 DEF QueueOf
  <2>. QED BY <1>1, <1>3, <1>5, <2>1 DEF Distinct
<1>. QED BY <1>1, <1>4, <1>5 DEF a

LEMMA TailQueue ==
    ASSUME NEW s \in Seq(Buffers), s # <<>>
    PROVE  /\ Head(s) \in Buffers /\ Tail(s) \in Seq(Buffers)
           /\ Len(s) \in Nat \ {0} /\ Len(Tail(s)) = Len(s) - 1
           /\ \A i \in 1 .. Len(Tail(s)) : i + 1 \in 1 .. Len(s) /\ Tail(s)[i] = s[i + 1]
           /\ QueueOf(s) = QueueOf(Tail(s)) \cup {Head(s)}
           /\ Distinct(s) => Distinct(Tail(s)) /\ Head(s) \notin QueueOf(Tail(s))
<1>. DEFINE u == Tail(s)
<1>1. /\ Head(s) \in Buffers /\ u \in Seq(Buffers) /\ Len(u) = Len(s) - 1
      /\ \A i \in 1 .. Len(u) : u[i] = s[i + 1]
  BY HeadTailProperties
<1>2. Len(s) \in Nat \ {0} /\ Head(s) = s[1] BY EmptySeq
<1>. HIDE DEF u
<1>3. \A i \in 1 .. Len(u) : i + 1 \in 1 .. Len(s) BY <1>1, <1>2
<1>4. \A j \in 1 .. Len(s) : j = 1 \/ (j - 1 \in 1 .. Len(u) /\ u[j - 1] = s[j])
  BY <1>1, <1>2
<1>5. QueueOf(s) = QueueOf(u) \cup {Head(s)}
  <2>1. QueueOf(s) \subseteq QueueOf(u) \cup {Head(s)} BY <1>2, <1>4 DEF QueueOf
  <2>2. QueueOf(u) \subseteq QueueOf(s) BY <1>1, <1>3 DEF QueueOf
  <2>3. Head(s) \in QueueOf(s) BY <1>2 DEF QueueOf
  <2>. QED BY <2>1, <2>2, <2>3
<1>6. ASSUME Distinct(s) PROVE Distinct(u) /\ Head(s) \notin QueueOf(u)
  <2>1. ASSUME NEW i \in 1 .. Len(u), NEW j \in 1 .. Len(u), u[i] = u[j] PROVE i = j
    <3>1. s[i + 1] = s[j + 1] BY <1>1, <2>1
    <3>2. i + 1 = j + 1 BY <1>3, <1>6, <3>1 DEF Distinct
    <3>. QED BY <3>2
  <2>2. ASSUME NEW i \in 1 .. Len(u) PROVE u[i] # Head(s)
    <3>1. i + 1 # 1 /\ 1 \in 1 .. Len(s) BY <1>2
    <3>. QED BY <1>1, <1>2, <1>3, <1>6, <3>1 DEF Distinct
  <2>. QED BY <2>1, <2>2 DEF Distinct, QueueOf
<1>. QED BY <1>1, <1>2, <1>3, <1>5, <1>6 DEF u

-----------------------------------------------------------------------------
LEMMA BufferFacts ==
    /\ NumBuf \in Nat /\ NumBuf >= 2 /\ NumBuf # 0
    /\ Buffers = 1 .. NumBuf /\ 1 \in Buffers /\ NoBuffer \notin Buffers
BY NumBufAssumption DEF Buffers, NoBuffer

LEMMA InitIInv == Init => IInv
<1>. SUFFICES ASSUME Init PROVE IInv
  OBVIOUS
<1>1. TypeInv
  <2>1. <<>> \in Seq(Buffers) BY EmptySeq
  <2>2. start \in [Buffers -> {"null", "failed", "set"}] BY DEF Init
  <2>3. region \in [Buffers -> {"nobody", "camera", "other"}] BY DEF Init
  <2>. QED BY <2>1, <2>2, <2>3 DEF Init, TypeInv, PCs, Early, BeforeMap
<1>2. MapInv BY DEF Init, MapInv, Up, Given
<1>3. CleanInv BY DEF Init, CleanInv
<1>4. QueueInv BY DEF Init, QueueInv, Early, BeforeMap, Given
<1>5. FocusInv /\ StolenNeedsMapFailure BY DEF Init, FocusInv, InLoop, StolenNeedsMapFailure
<1>. QED BY <1>1, <1>2, <1>3, <1>4, <1>5 DEF IInv

LEMMA StutterIInv ==
    ASSUME IInv, UNCHANGED <<build, pc, step, appVars, driverVars, history>>, running' \in BOOLEAN
    PROVE  IInv'
<1>1. /\ UNCHANGED <<build, pc, step, num_buffers, start, region, enqueue_count, current, last, fd, focus>>
      /\ UNCHANGED <<granted, incoming, done, streaming, stolen, failed>>
  BY DEF appVars, driverVars, history
<1>2. TypeInv' BY <1>1 DEF IInv, TypeInv
<1>3. MapInv' BY <1>1 DEF IInv, MapInv
<1>4. CleanInv' BY <1>1 DEF IInv, CleanInv
<1>5. Complete' <=> Complete BY <1>1 DEF Complete, Distinct, QueueOf, Held
<1>6. QueueInv' BY <1>1, <1>5 DEF IInv, QueueInv
<1>7. FocusInv' /\ StolenNeedsMapFailure' BY <1>1 DEF IInv, FocusInv, InLoop, StolenNeedsMapFailure
<1>. QED BY <1>2, <1>3, <1>4, <1>6, <1>7 DEF IInv

\* Before there is a buffer: the camera is opened and probed.
LEMMA OpenIInv == ASSUME IInv, OpenCamera PROVE IInv'
<1>. USE DEF IInv
<1>1. /\ pc = "open" /\ UNCHANGED <<build, running, num_buffers, start, region, enqueue_count, current, last,
                                  focus, driverVars, history>>
      /\ \/ fd' = "open" /\ pc' = "probe" /\ step' = 1
         \/ fd' = fd /\ pc' = "end" /\ step' = 1
  BY DEF OpenCamera, Goto
<1>2. TypeInv' BY <1>1 DEF TypeInv, PCs, Early, BeforeMap, driverVars, history
<1>3. MapInv' BY <1>1 DEF MapInv, Up, Given, Early, BeforeMap, driverVars, history
<1>4. CleanInv' BY <1>1 DEF MapInv, CleanInv, history
<1>5. QueueInv' BY <1>1 DEF QueueInv, Early, BeforeMap, Given, driverVars
<1>6. FocusInv' /\ StolenNeedsMapFailure' BY <1>1 DEF FocusInv, InLoop, StolenNeedsMapFailure, history
<1>. QED BY <1>2, <1>3, <1>4, <1>5, <1>6

\* The driver keeps what it has, or forgets all of it.
LEMMA Released ==
    ASSUME TypeInv, Release \/ UNCHANGED driverVars
    PROVE  granted' \in Nat /\ incoming' \in Seq(Buffers) /\ done' \in Seq(Buffers) /\ streaming' \in BOOLEAN
<1>1. <<>> \in Seq(Buffers) BY EmptySeq
<1>2. CASE Release BY <1>1, <1>2 DEF Release
<1>3. CASE UNCHANGED driverVars BY <1>3 DEF TypeInv, driverVars
<1>. QED BY <1>2, <1>3

LEMMA CheckIInv == ASSUME IInv, NEW call, NEW ok \in BOOLEAN, Check(call, ok) PROVE IInv'
<1>1. /\ pc = "probe"
      /\ UNCHANGED <<build, running, num_buffers, start, region, enqueue_count, current, last, focus, stolen>>
  BY DEF Check, Goto, FailAt, history
<1>2. CASE ok
  <2>1. /\ UNCHANGED <<fd, granted, incoming, done, streaming, failed>>
        /\ \/ pc' = "request" /\ step' = 1
           \/ pc' = "probe" /\ step' = step + 1
    BY <1>2 DEF Check, Goto, driverVars, history
  <2>2. TypeInv' BY <1>1, <2>1 DEF IInv, TypeInv, PCs, Early, BeforeMap
  <2>3. MapInv' BY <1>1, <2>1 DEF IInv, MapInv, Up, Given, Early, BeforeMap
  <2>4. CleanInv' BY <1>1, <2>1 DEF IInv, CleanInv
  <2>5. QueueInv' BY <1>1, <2>1 DEF IInv, QueueInv, Early, BeforeMap, Given
  <2>6. FocusInv' /\ StolenNeedsMapFailure'
    BY <1>1, <2>1 DEF IInv, FocusInv, InLoop, StolenNeedsMapFailure
  <2>. QED BY <2>2, <2>3, <2>4, <2>5, <2>6 DEF IInv
<1>3. CASE ~ok
  <2>1. /\ failed' = failed \cup {"probe"} /\ pc' = "cleanup" /\ step' = 0
        /\ fd' = (IF fd = "open" THEN "closed" ELSE "closed twice")
        /\ Release \/ UNCHANGED driverVars
    BY <1>3 DEF Check, FailAt, Goto, Close
  <2>2. TypeInv' BY <1>1, <2>1, Released DEF IInv, TypeInv, PCs
  <2>3. MapInv' BY <1>1, <2>1 DEF IInv, MapInv, Up, Given, Early, BeforeMap
  <2>4. CleanInv'
    <3>1. "probe" \in failed' BY <2>1
    <3>2. step' = 0 BY <2>1
    <3>. QED BY <3>1, <3>2 DEF CleanInv
  <2>5. QueueInv' BY <1>1, <2>1 DEF QueueInv, Early, BeforeMap, Given
  <2>6. FocusInv' /\ StolenNeedsMapFailure'
    BY <1>1, <2>1 DEF IInv, FocusInv, InLoop, StolenNeedsMapFailure
  <2>. QED BY <2>2, <2>3, <2>4, <2>5, <2>6 DEF IInv
<1>. QED BY <1>2, <1>3

LEMMA RequestIInv == ASSUME IInv, RequestBuffers PROVE IInv'
<1>1. PICK n \in 0 .. NumBuf :
          /\ granted' = n
          /\ IF n = NumBuf
             THEN num_buffers' = n /\ Goto("map", 1) /\ UNCHANGED history
             ELSE UNCHANGED num_buffers /\ FailAt("request", 2)
  BY DEF RequestBuffers
<1>2. /\ pc = "request"
      /\ UNCHANGED <<build, running, start, region, enqueue_count, current, last, fd, focus, incoming, done,
                     streaming, stolen>>
  BY <1>1 DEF RequestBuffers, Goto, FailAt, history
<1>3. CASE n = NumBuf
  <2>1. num_buffers' = NumBuf /\ granted' = NumBuf /\ pc' = "map" /\ step' = 1 /\ failed' = failed
    BY <1>1, <1>3 DEF Goto, history
  <2>2. TypeInv' BY <1>2, <2>1, BufferFacts DEF IInv, TypeInv, PCs, Early
  <2>3. MapInv'
    <3>1. \A b \in 1 .. NumBuf : start'[b] = "null" BY <1>2, BufferFacts DEF IInv, MapInv, BeforeMap
    <3>2. fd' = "open" BY <1>2, <2>1 DEF IInv, MapInv
    <3>. QED BY <1>2, <2>1, <3>1, <3>2 DEF IInv, MapInv, Up, Given, Early, BeforeMap
  <2>4. CleanInv' BY <1>2, <2>1 DEF IInv, CleanInv
  <2>5. QueueInv' BY <1>2, <2>1 DEF IInv, QueueInv, Early, BeforeMap, Given
  <2>6. FocusInv' /\ StolenNeedsMapFailure'
    BY <1>2, <2>1 DEF IInv, FocusInv, InLoop, StolenNeedsMapFailure
  <2>. QED BY <2>2, <2>3, <2>4, <2>5, <2>6 DEF IInv
<1>4. CASE n # NumBuf
  <2>1. /\ num_buffers' = num_buffers /\ granted' \in Nat /\ pc' = "cleanup" /\ step' = 2
        /\ failed' = failed \cup {"request"}
    BY <1>1, <1>4, BufferFacts DEF FailAt, Goto
  <2>2. num_buffers' = 0 BY <1>2, <2>1 DEF IInv, MapInv, BeforeMap
  <2>3. TypeInv' BY <1>2, <2>1 DEF IInv, TypeInv, PCs
  <2>4. MapInv' BY <1>2, <2>1 DEF IInv, MapInv, Up, Given, Early, BeforeMap
  <2>5. CleanInv' BY <1>2, <2>1, <2>2 DEF CleanInv
  <2>6. QueueInv' BY <1>2, <2>1 DEF QueueInv, Early, BeforeMap, Given
  <2>7. FocusInv' /\ StolenNeedsMapFailure'
    BY <1>2, <2>1 DEF IInv, FocusInv, InLoop, StolenNeedsMapFailure
  <2>. QED BY <2>3, <2>4, <2>5, <2>6, <2>7 DEF IInv
<1>. QED BY <1>3, <1>4

-----------------------------------------------------------------------------
\* One round of mmap_buffers: nothing the camera has mapped is unmapped unless mmap fails.
LEMMA MapIInv == ASSUME IInv, MapBuffer PROVE IInv'
<1>1. /\ pc = "map" /\ step \in Buffers /\ failed = {} /\ num_buffers = NumBuf
      /\ UNCHANGED <<build, running, num_buffers, enqueue_count, current, last, fd, focus>>
  BY DEF MapBuffer, Goto, FailAt, IInv, TypeInv, MapInv, Early
<1>2. /\ \A b \in 1 .. step - 1 : region[b] = "camera"
      /\ \A b \in step .. NumBuf : start[b] = "null"
      /\ granted = NumBuf /\ fd = "open"
  BY <1>1 DEF IInv, MapInv
<1>3. CASE /\ start' = [start EXCEPT ![step] = "set"]
           /\ region' = [region EXCEPT ![step] = "camera"]
           /\ IF step = NumBuf THEN Goto("enqueue", 1) ELSE Goto("map", step + 1)
           /\ UNCHANGED <<driverVars, history>>
  <2>1. /\ UNCHANGED <<granted, incoming, done, streaming, stolen, failed>>
        /\ \/ step = NumBuf /\ pc' = "enqueue" /\ step' = 1
           \/ step # NumBuf /\ pc' = "map" /\ step' = step + 1
    BY <1>3 DEF Goto, driverVars, history
  <2>2. step' \in Buffers BY <1>1, <2>1, BufferFacts
  <2>3. TypeInv' BY <1>1, <1>3, <2>1, <2>2 DEF IInv, TypeInv, PCs, Early, Up
  <2>4. MapInv'
    <3>1. \A b \in 1 .. step : region'[b] = "camera"
      BY <1>1, <1>2, <1>3, BufferFacts DEF IInv, TypeInv
    <3>2. \A b \in step + 1 .. NumBuf : start'[b] = "null"
      BY <1>1, <1>2, <1>3, BufferFacts DEF IInv, TypeInv
    <3>3. CASE step = NumBuf
      BY <1>1, <1>2, <2>1, <3>1, <3>3, BufferFacts DEF IInv, MapInv, Up, Given, BeforeMap
    <3>4. CASE step # NumBuf
      <4>1. step' - 1 = step /\ pc' = "map" BY <1>1, <2>1, <3>4, BufferFacts
      <4>. QED BY <1>1, <1>2, <2>1, <3>1, <3>2, <3>4, <4>1 DEF IInv, MapInv, Up, Given, BeforeMap
    <3>. QED BY <3>3, <3>4
  <2>5. CleanInv' BY <2>1 DEF CleanInv
  <2>6. QueueInv' BY <1>1, <2>1, EmptySeq DEF IInv, QueueInv, Early, BeforeMap, Given
  <2>7. FocusInv' /\ StolenNeedsMapFailure'
    BY <1>1, <2>1 DEF IInv, FocusInv, InLoop, StolenNeedsMapFailure
  <2>. QED BY <2>3, <2>4, <2>5, <2>6, <2>7 DEF IInv
<1>4. CASE /\ FailAt("query", 2)
           /\ FreeBuffers(num_buffers, Mapped)
           /\ UNCHANGED <<start, region>>
  <2>1. /\ pc' = "cleanup" /\ step' = 2 /\ failed' = failed \cup {"query"} /\ UNCHANGED stolen
        /\ Release \/ UNCHANGED driverVars
    BY <1>4 DEF FailAt, Goto, FreeBuffers
  <2>2. TypeInv' BY <1>1, <1>4, <2>1, Released DEF IInv, TypeInv, PCs
  <2>3. MapInv' BY <1>1, <1>2, <2>1 DEF MapInv, Up, Given, Early, BeforeMap
  <2>4. CleanInv'
    <3>1. \A b \in 1 .. num_buffers' : start'[b] = "set" => region'[b] = "camera"
      BY <1>1, <1>2, <1>4, BufferFacts
    <3>2. failed' # {} BY <2>1
    <3>. QED BY <3>1, <3>2 DEF CleanInv
  <2>5. QueueInv' BY <1>1, <2>1 DEF QueueInv, Early, BeforeMap, Given
  <2>6. FocusInv' /\ StolenNeedsMapFailure'
    BY <1>1, <2>1 DEF IInv, FocusInv, InLoop, StolenNeedsMapFailure
  <2>. QED BY <2>2, <2>3, <2>4, <2>5, <2>6 DEF IInv
<1>5. CASE /\ start' = [start EXCEPT ![step] = "failed"]
           /\ Unmap(num_buffers)
           /\ FreeBuffers(num_buffers, FALSE)
           /\ failed' = failed \cup {"mmap"}
           /\ Goto("cleanup", 2)
  <2>1. /\ pc' = "cleanup" /\ step' = 2 /\ "mmap" \in failed'
        /\ Release \/ UNCHANGED driverVars
    BY <1>5 DEF Goto, FreeBuffers
  <2>2. TypeInv'
    <3>1. region' \in [Buffers -> {"nobody", "camera", "other"}] /\ stolen' \in BOOLEAN
      BY <1>5 DEF Unmap, IInv, TypeInv
    <3>2. start' \in [Buffers -> {"null", "failed", "set"}] BY <1>5 DEF IInv, TypeInv
    <3>. QED BY <1>1, <2>1, <3>1, <3>2, Released DEF IInv, TypeInv, PCs
  <2>3. MapInv' BY <1>1, <1>2, <2>1 DEF MapInv, Up, Given, Early, BeforeMap
  <2>4. CleanInv' /\ QueueInv' BY <2>1 DEF CleanInv, QueueInv, Early, BeforeMap, Given
  <2>5. FocusInv' /\ StolenNeedsMapFailure' BY <2>1 DEF FocusInv, InLoop, StolenNeedsMapFailure
  <2>. QED BY <2>2, <2>3, <2>4, <2>5 DEF IInv
<1>. QED BY <1>3, <1>4, <1>5 DEF MapBuffer

-----------------------------------------------------------------------------
(* From the moment every buffer is mapped: how a step can end.             *)

\* A step that fails leaves what is mapped to the clean-up.
LEMMA GiveUp ==
    ASSUME IInv, pc \in Up, NEW name, NEW level \in {2, 3}, FailAt(name, level),
           UNCHANGED <<num_buffers, start, region, current, last, fd>>,
           enqueue_count' \in Nat, granted' \in Nat, incoming' \in Seq(Buffers), done' \in Seq(Buffers),
           streaming' \in BOOLEAN
    PROVE  IInv'
<1>1. /\ pc' = "cleanup" /\ step' = level /\ name \in failed'
      /\ UNCHANGED <<build, running, stolen>> /\ failed = {}
  BY DEF FailAt, Goto, IInv, MapInv
<1>2. TypeInv' BY <1>1 DEF IInv, TypeInv, PCs
<1>3. MapInv' BY <1>1 DEF IInv, MapInv, Up, Given, Early, BeforeMap
<1>4. CleanInv'
  <2>1. \A b \in 1 .. num_buffers : region[b] = "camera" BY BufferFacts DEF IInv, MapInv
  <2>2. \A b \in 1 .. num_buffers' : start'[b] = "set" => region'[b] = "camera" BY <2>1
  <2>. QED BY <1>1, <2>2 DEF CleanInv
<1>5. QueueInv' BY <1>1 DEF QueueInv, Early, BeforeMap, Given
<1>6. FocusInv' BY <1>1 DEF FocusInv, InLoop
<1>7. StolenNeedsMapFailure' BY <1>1 DEF IInv, StolenNeedsMapFailure
<1>. QED BY <1>2, <1>3, <1>4, <1>5, <1>6, <1>7 DEF IInv

\* frame returns from its loop, or is aborted in it, and cleans nothing up.
LEMMA Leave ==
    ASSUME IInv, pc \in Given, pc' \in {"returned", "aborted"}, step' = 1, running' \in BOOLEAN,
           UNCHANGED <<build, num_buffers, start, region, fd, granted, streaming, stolen, failed>>,
           enqueue_count' \in Nat, incoming' \in Seq(Buffers), done' \in Seq(Buffers),
           current' \in Buffers \cup {NoBuffer}, last' \in Buffers \cup {NoBuffer}
    PROVE  IInv'
<1>1. pc \in Up BY DEF Up
<1>2. TypeInv' BY DEF IInv, TypeInv, PCs
<1>3. MapInv' BY <1>1 DEF IInv, MapInv, Up, Given, Early, BeforeMap
<1>4. CleanInv' /\ QueueInv' BY DEF CleanInv, QueueInv, Early, BeforeMap, Given
<1>6. FocusInv' BY DEF FocusInv, InLoop
<1>7. StolenNeedsMapFailure' BY DEF IInv, StolenNeedsMapFailure
<1>. QED BY <1>2, <1>3, <1>4, <1>6, <1>7 DEF IInv

\* A step to the next stage, or round the loop, that keeps each buffer in one place.
LEMMA Proceed ==
    ASSUME IInv, pc \in Up, pc' \in Given, failed' = failed, stolen' = stolen,
           UNCHANGED <<build, num_buffers, start, region, fd, granted>>,
           step' \in Nat, pc' = "refocus" => step' \in 1 .. 5, running' \in BOOLEAN,
           enqueue_count' \in Nat, incoming' \in Seq(Buffers), done' \in Seq(Buffers),
           current' \in Buffers \cup {NoBuffer}, last' \in Buffers \cup {NoBuffer},
           pc' = "read" => current' \in Buffers, streaming' \in BOOLEAN,
           pc' \in Early => ~streaming' /\ done' = <<>> /\ last' = NoBuffer,
           Complete', FocusInv'
    PROVE  IInv'
<1>1. TypeInv' BY DEF IInv, TypeInv, PCs, Up, Given
<1>2. MapInv' BY DEF IInv, MapInv, Up, Given, Early, BeforeMap
<1>3. CleanInv' BY DEF CleanInv, Given
<1>4. QueueInv' BY DEF QueueInv, Given, BeforeMap
<1>5. StolenNeedsMapFailure' BY DEF IInv, StolenNeedsMapFailure
<1>. QED BY <1>1, <1>2, <1>3, <1>4, <1>5 DEF IInv

LEMMA CompleteSame ==
    ASSUME UNCHANGED <<incoming, done, enqueue_count, last>>, pc # "read", pc' # "read"
    PROVE  Complete' <=> Complete
<1>1. Held = {} /\ Held' = {} BY DEF Held
<1>2. /\ QueueOf(incoming)' = QueueOf(incoming) /\ QueueOf(done)' = QueueOf(done)
      /\ (Distinct(incoming)' <=> Distinct(incoming)) /\ (Distinct(done)' <=> Distinct(done))
  BY DEF QueueOf, Distinct
<1>. QED BY <1>1, <1>2 DEF Complete

-----------------------------------------------------------------------------
LEMMA EnqueueAllIInv == ASSUME IInv, EnqueueAll PROVE IInv'
<1>1. PICK ok, flags \in BOOLEAN :
          /\ EnqueueBuf(step, ok)
          /\ IF ok /\ flags
             THEN /\ IF step = NumBuf THEN Goto("allocate", 1) ELSE Goto("enqueue", step + 1)
                  /\ UNCHANGED history
             ELSE FailAt("enqueue", 2)
  BY DEF EnqueueAll
<1>2. /\ pc = "enqueue" /\ step \in Buffers /\ pc \in Up
      /\ UNCHANGED <<num_buffers, start, region, current, last, fd, focus>>
      /\ UNCHANGED <<granted, done, streaming>>
      /\ enqueue_count' = enqueue_count + 1
      /\ incoming' = IF ok THEN Append(incoming, step) ELSE incoming
  BY <1>1 DEF EnqueueAll, EnqueueBuf, IInv, TypeInv, Up
<1>3. incoming' \in Seq(Buffers) /\ enqueue_count' \in Nat
  BY <1>2, AppendQueue DEF IInv, TypeInv
<1>4. CASE ~(ok /\ flags)
  BY <1>1, <1>2, <1>3, <1>4, GiveUp DEF IInv, TypeInv
<1>5. CASE ok /\ flags
  <2>1. /\ UNCHANGED <<build, running, stolen, failed>>
        /\ \/ step = NumBuf /\ pc' = "allocate" /\ step' = 1
           \/ step # NumBuf /\ pc' = "enqueue" /\ step' = step + 1
    BY <1>1, <1>5 DEF Goto, history
  <2>2. /\ ~streaming /\ done = <<>> /\ last = NoBuffer
        /\ enqueue_count = step - 1 /\ Len(incoming) = step - 1
        /\ \A i \in 1 .. step - 1 : incoming[i] = i
    BY <1>2 DEF IInv, QueueInv, Early
  <2>3. incoming' = Append(incoming, step) BY <1>2, <1>5
  <2>4. /\ Len(incoming') = Len(incoming) + 1
        /\ \A i \in 1 .. Len(incoming) : incoming'[i] = incoming[i]
        /\ incoming'[Len(incoming) + 1] = step
    BY <1>2, <2>3, AppendProperties DEF IInv, TypeInv
  <2>5. step \in Nat /\ step >= 1 /\ step <= NumBuf BY <1>2, BufferFacts
  <2>6. Len(incoming') = step /\ enqueue_count' = step
    BY <1>2, <2>2, <2>4, <2>5
  <2>7. \A i \in 1 .. step : incoming'[i] = i
    <3>1. SUFFICES ASSUME NEW i \in 1 .. step PROVE incoming'[i] = i
      OBVIOUS
    <3>2. CASE i = step BY <2>2, <2>4, <2>5, <3>2
    <3>3. CASE i # step
      <4>1. i \in 1 .. step - 1 BY <2>5, <3>3
      <4>. QED BY <2>2, <2>4, <4>1
    <3>. QED BY <3>2, <3>3
  <2>8. CASE step = NumBuf
    <3>1. pc' = "allocate" /\ step' = 1 BY <2>1, <2>8
    <3>2. Len(incoming') = NumBuf /\ \A i \in 1 .. NumBuf : incoming'[i] = i BY <2>6, <2>7, <2>8
    <3>3. QueueOf(incoming)' = Buffers BY <3>2, BufferFacts DEF QueueOf
    <3>4. QueueOf(done)' = {} /\ Len(done') = 0 /\ Held' = {} /\ Distinct(done)'
      BY <1>2, <2>2, <3>1, EmptySeq DEF QueueOf, Held, Distinct
    <3>5. Distinct(incoming)' BY <3>2 DEF Distinct
    <3>6. \A i \in 1 .. Len(incoming') : incoming'[i] # last' BY <1>2, <2>2, <3>2, BufferFacts
    <3>7. Complete' BY <2>6, <2>8, <3>1, <3>2, <3>3, <3>4, <3>5, <3>6, BufferFacts DEF Complete
    <3>8. FocusInv' BY <3>1 DEF FocusInv, InLoop
    <3>. QED BY <1>2, <1>3, <2>1, <2>2, <3>1, <3>7, <3>8, Proceed DEF IInv, TypeInv, Given
  <2>9. CASE step # NumBuf
    <3>1. pc' = "enqueue" /\ step' = step + 1 BY <2>1, <2>9
    <3>2. step' \in Buffers /\ step' - 1 = step BY <2>5, <2>9, <3>1, BufferFacts
    <3>3. TypeInv' BY <1>2, <1>3, <2>1, <3>1, <3>2 DEF IInv, TypeInv, PCs, Up
    <3>4. MapInv' BY <1>2, <2>1, <3>1 DEF IInv, MapInv, Up, Given, Early, BeforeMap
    <3>5. CleanInv' BY <3>1 DEF CleanInv
    <3>6. QueueInv' BY <1>2, <2>2, <2>6, <2>7, <3>1, <3>2 DEF QueueInv, Early, BeforeMap, Given
    <3>7. FocusInv' /\ StolenNeedsMapFailure'
      BY <2>1, <3>1 DEF IInv, FocusInv, InLoop, StolenNeedsMapFailure
    <3>. QED BY <3>3, <3>4, <3>5, <3>6, <3>7 DEF IInv
  <2>. QED BY <2>8, <2>9
<1>. QED BY <1>4, <1>5

LEMMA AllocateIInv == ASSUME IInv, AllocateOther PROVE IInv'
<1>1. /\ pc = "allocate" /\ pc \in Up
      /\ UNCHANGED <<num_buffers, start, region, enqueue_count, current, last, fd, focus>>
      /\ UNCHANGED <<granted, incoming, done, streaming>>
  BY DEF AllocateOther, driverVars, Up, Given
<1>2. CASE wo_buffer' = "held" /\ Goto("stream", 1) /\ UNCHANGED history
  <2>1. pc' = "stream" /\ step' = 1 /\ UNCHANGED <<build, running, stolen, failed>>
    BY <1>2 DEF Goto, history
  <2>2. Complete' BY <1>1, <2>1, CompleteSame DEF IInv, QueueInv, Given
  <2>3. FocusInv' BY <2>1 DEF FocusInv, InLoop
  <2>4. ~streaming /\ done = <<>> /\ last = NoBuffer BY <1>1 DEF IInv, QueueInv, Early
  <2>. QED BY <1>1, <2>1, <2>2, <2>3, <2>4, Proceed DEF IInv, TypeInv, Given
<1>3. CASE FailAt("allocate", 3) BY <1>1, <1>3, GiveUp DEF IInv, TypeInv
<1>. QED BY <1>2, <1>3 DEF AllocateOther

LEMMA StartIInv == ASSUME IInv, StartStreaming PROVE IInv'
<1>1. /\ pc = "stream" /\ pc \in Up
      /\ UNCHANGED <<num_buffers, start, region, enqueue_count, current, last, fd, focus>>
      /\ UNCHANGED <<granted, incoming, done>>
  BY DEF StartStreaming, appVars, Up, Given
<1>2. CASE streaming' = TRUE /\ Goto("refocus", 1) /\ UNCHANGED history
  <2>1. pc' = "refocus" /\ step' = 1 /\ UNCHANGED <<build, running, stolen, failed>>
    BY <1>2 DEF Goto, history
  <2>2. Complete' BY <1>1, <2>1, CompleteSame DEF IInv, QueueInv, Given
  <2>3. FocusInv' BY <1>2, <2>1 DEF FocusInv, InLoop
  <2>4. pc' \notin Early BY <2>1 DEF Early, BeforeMap
  <2>. QED BY <1>1, <1>2, <2>1, <2>2, <2>3, <2>4, Proceed DEF IInv, TypeInv, Given
<1>3. CASE UNCHANGED streaming /\ FailAt("stream", 3) BY <1>1, <1>3, GiveUp DEF IInv, TypeInv
<1>. QED BY <1>2, <1>3 DEF StartStreaming

\* The last control sets the automatic focus off, and the one after it only reads.
LEMMA RefocusIInv == ASSUME IInv, TryRefocus PROVE IInv'
<1>1. /\ pc = "refocus" /\ pc \in Up /\ step \in 1 .. 5 /\ streaming /\ (step = 5 => focus = "off")
      /\ UNCHANGED <<num_buffers, start, region, enqueue_count, current, last, fd>>
      /\ UNCHANGED <<granted, incoming, done, streaming>>
  BY DEF TryRefocus, driverVars, Up, Given, IInv, TypeInv, FocusInv
<1>2. CASE /\ focus' = IF Controls[step] = "read" THEN focus ELSE Controls[step]
           /\ IF step = Len(Controls) THEN Goto("loop", 1) ELSE Goto("refocus", step + 1)
           /\ UNCHANGED history
  <2>1. Len(Controls) = 5 /\ Controls[4] = "off" /\ Controls[5] = "read" BY DEF Controls
  <2>2. /\ UNCHANGED <<build, running, stolen, failed>>
        /\ \/ step = 5 /\ pc' = "loop" /\ step' = 1
           \/ step # 5 /\ pc' = "refocus" /\ step' = step + 1
    BY <1>2, <2>1 DEF Goto, history
  <2>3. pc' # "read" /\ pc' \in Given /\ pc' \notin Early BY <2>2 DEF Given, Early, BeforeMap
  <2>4. Complete' BY <1>1, <2>3, CompleteSame DEF IInv, QueueInv, Given
  <2>5. step' \in Nat /\ (pc' = "refocus" => step' \in 1 .. 5) BY <1>1, <2>2
  <2>6. FocusInv'
    <3>1. step = 5 => focus' = "off" BY <1>1, <1>2, <2>1
    <3>2. step = 4 => focus' = "off" BY <1>2, <2>1
    <3>. QED BY <1>1, <2>2, <3>1, <3>2 DEF FocusInv, InLoop
  <2>. QED BY <1>1, <2>2, <2>3, <2>4, <2>5, <2>6, Proceed DEF IInv, TypeInv
<1>3. CASE UNCHANGED focus /\ FailAt("refocus", 3) BY <1>1, <1>3, GiveUp DEF IInv, TypeInv
<1>. QED BY <1>2, <1>3 DEF TryRefocus

-----------------------------------------------------------------------------
(* The loop of frame, with the camera filling buffers beside it.           *)

LEMMA LoopIInv == ASSUME IInv, Loop PROVE IInv'
<1>1. /\ pc = "loop" /\ pc \in Given /\ pc \in Up
      /\ UNCHANGED <<build, num_buffers, start, region, enqueue_count, current, last, fd, focus>>
      /\ UNCHANGED <<granted, incoming, done, streaming, stolen, failed>>
  BY DEF Loop, Goto, appVars, driverVars, history, Given, Up
<1>2. CASE running /\ Goto("dequeue", 1)
  <2>1. pc' = "dequeue" /\ step' = 1 /\ running' = running BY <1>2 DEF Goto
  <2>2. Complete' BY <1>1, <2>1, CompleteSame DEF IInv, QueueInv
  <2>3. FocusInv' BY <1>1, <2>1 DEF IInv, FocusInv, InLoop
  <2>4. pc' \in Given /\ pc' \notin Early BY <2>1 DEF Given, Early, BeforeMap
  <2>. QED BY <1>1, <2>1, <2>2, <2>3, <2>4, Proceed DEF IInv, TypeInv
<1>3. CASE pc' = "returned" /\ step' = 1 /\ running' \in BOOLEAN
  BY <1>1, <1>3, Leave DEF IInv, TypeInv
<1>4. running \in BOOLEAN BY DEF IInv, TypeInv
<1>. QED BY <1>2, <1>3, <1>4 DEF Loop, Goto

\* The frame dequeued leaves the queue of the filled ones.
LEMMA DequeueIInv == ASSUME IInv, Dequeue PROVE IInv'
<1>1. /\ pc = "dequeue" /\ pc \in Given /\ pc \in Up
      /\ UNCHANGED <<num_buffers, start, region, last, fd, focus>>
      /\ UNCHANGED <<granted, incoming, streaming, stolen, failed>>
  BY DEF Dequeue, history, Given, Up
<1>2. Complete BY <1>1 DEF IInv, QueueInv
<1>3. enqueue_count' = IF enqueue_count = 0 THEN 0 ELSE enqueue_count - 1 BY DEF Dequeue
<1>4. enqueue_count' \in Nat BY <1>3 DEF IInv, TypeInv
<1>5. PICK ok \in BOOLEAN :
          IF ok
          THEN done # <<>> /\ current' = Head(done) /\ done' = Tail(done) /\ Goto("read", 1)
          ELSE /\ UNCHANGED <<current, done, build>>
               /\ pc' = "returned" /\ step' = 1 /\ running' = FALSE
  BY DEF Dequeue
<1>6. CASE ~ok BY <1>1, <1>4, <1>5, <1>6, Leave DEF IInv, TypeInv
<1>7. CASE ok
  <2>1. /\ done # <<>> /\ current' = Head(done) /\ done' = Tail(done)
        /\ pc' = "read" /\ step' = 1 /\ UNCHANGED <<build, running>>
    BY <1>5, <1>7 DEF Goto
  <2>2. done \in Seq(Buffers) /\ incoming \in Seq(Buffers) BY DEF IInv, TypeInv
  <2>3. /\ current' \in Buffers /\ done' \in Seq(Buffers)
        /\ Len(done) \in Nat \ {0} /\ Len(done') = Len(done) - 1
        /\ QueueOf(done) = QueueOf(done') \cup {current'}
        /\ Distinct(done') /\ current' \notin QueueOf(done')
    BY <1>2, <2>1, <2>2, TailQueue DEF Complete
  <2>4. Held = {} /\ Held' = {current'} BY <1>1, <2>1 DEF Held
  <2>5. QueueOf(incoming)' = QueueOf(incoming) /\ QueueOf(done)' = QueueOf(done')
        /\ (Distinct(incoming)' <=> Distinct(incoming)) /\ (Distinct(done)' <=> Distinct(done'))
    BY <1>1 DEF QueueOf, Distinct
  <2>6. Len(incoming) \in Nat BY <2>2
  <2>7. Complete'
    <3>1. QueueOf(incoming)' \cup QueueOf(done)' \cup Held' = Buffers
      BY <1>2, <2>3, <2>4, <2>5 DEF Complete
    <3>2. Len(incoming') + Len(done') + 1 = NumBuf /\ enqueue_count' = Len(incoming') + Len(done')
      <4>1. Len(incoming) + Len(done) = NumBuf /\ enqueue_count = Len(incoming) + Len(done)
        BY <1>1, <1>2, <2>3, <2>6, BufferFacts DEF Complete
      <4>2. enqueue_count' = enqueue_count - 1 BY <1>3, <2>3, <2>6, <4>1
      <4>. QED BY <1>1, <2>3, <2>6, <4>1, <4>2
    <3>3. /\ (Distinct(incoming) /\ Distinct(done))'
          /\ (QueueOf(incoming) \cap QueueOf(done))' = {}
          /\ current' \notin (QueueOf(incoming) \cup QueueOf(done))'
      BY <1>2, <2>3, <2>5 DEF Complete
    <3>4. \A i \in 1 .. Len(incoming') : incoming'[i] = last' => i = Len(incoming')
      BY <1>1, <1>2 DEF Complete
    <3>. QED BY <2>1, <3>1, <3>2, <3>3, <3>4 DEF Complete
  <2>8. FocusInv' BY <1>1, <2>1 DEF IInv, FocusInv, InLoop
  <2>9. pc' \in Given /\ pc' \notin Early BY <2>1 DEF Given, Early, BeforeMap
  <2>. QED BY <1>1, <1>4, <2>1, <2>2, <2>3, <2>7, <2>8, <2>9, Proceed DEF IInv, TypeInv
<1>. QED BY <1>6, <1>7

LEMMA AbortIInv == ASSUME IInv, Abort PROVE IInv'
<1>1. /\ pc \in Given /\ pc' = "aborted" /\ step' = 1 /\ UNCHANGED <<build, running>>
      /\ UNCHANGED <<num_buffers, start, region, enqueue_count, current, last, fd, focus>>
      /\ UNCHANGED <<granted, incoming, done, streaming, stolen, failed>>
  BY DEF Abort, Goto, appVars, driverVars, history, Given
<1>. QED BY <1>1, Leave DEF IInv, TypeInv

\* The buffer given back goes to the end of the queue, and is the last one read.
LEMMA RequeueIInv == ASSUME IInv, Requeue PROVE IInv'
<1>1. PICK ok \in BOOLEAN :
          /\ EnqueueBuf(current, ok)
          /\ IF ok
             THEN Goto("loop", 1)
             ELSE pc' = "returned" /\ step' = 1 /\ running' = FALSE /\ UNCHANGED build
  BY DEF Requeue
<1>2. /\ pc = "read" /\ pc \in Given /\ pc \in Up /\ current \in Buffers
      /\ UNCHANGED <<num_buffers, start, region, current, fd, focus>> /\ last' = current
      /\ UNCHANGED <<granted, done, streaming, stolen, failed>>
      /\ enqueue_count' = enqueue_count + 1
      /\ incoming' = IF ok THEN Append(incoming, current) ELSE incoming
  BY <1>1 DEF Requeue, EnqueueBuf, history, Given, Up, IInv, TypeInv
<1>3. Complete BY <1>2 DEF IInv, QueueInv
<1>4. incoming \in Seq(Buffers) /\ done \in Seq(Buffers) /\ enqueue_count \in Nat BY DEF IInv, TypeInv
<1>5. CASE ~ok
  <2>1. /\ pc' = "returned" /\ step' = 1 /\ running' \in BOOLEAN /\ UNCHANGED build /\ incoming' = incoming
    BY <1>1, <1>2, <1>5
  <2>2. enqueue_count' \in Nat BY <1>2, <1>4
  <2>. QED BY <1>2, <1>4, <2>1, <2>2, Leave
<1>6. CASE ok
  <2>1. /\ pc' = "loop" /\ step' = 1 /\ UNCHANGED <<build, running>>
        /\ incoming' = Append(incoming, current)
    BY <1>1, <1>2, <1>6 DEF Goto
  <2>2. /\ incoming' \in Seq(Buffers) /\ Len(incoming') = Len(incoming) + 1
        /\ QueueOf(incoming') = QueueOf(incoming) \cup {current}
        /\ Distinct(incoming')
    BY <1>2, <1>3, <1>4, <2>1, AppendQueue DEF Complete
  <2>3. Held = {current} /\ Held' = {} BY <1>2, <2>1 DEF Held
  <2>4. /\ QueueOf(incoming)' = QueueOf(incoming') /\ QueueOf(done)' = QueueOf(done)
        /\ (Distinct(incoming)' <=> Distinct(incoming')) /\ (Distinct(done)' <=> Distinct(done))
    BY <1>2 DEF QueueOf, Distinct
  <2>5. Len(incoming) \in Nat /\ Len(done) \in Nat BY <1>4
  <2>6. Complete'
    <3>1. QueueOf(incoming)' \cup QueueOf(done)' \cup Held' = Buffers
      BY <1>3, <2>2, <2>3, <2>4 DEF Complete
    <3>2. Len(incoming') + Len(done') = NumBuf /\ enqueue_count' = Len(incoming') + Len(done')
      BY <1>2, <1>3, <2>2, <2>5, BufferFacts DEF Complete
    <3>3. /\ (Distinct(incoming) /\ Distinct(done))'
          /\ (QueueOf(incoming) \cap QueueOf(done))' = {}
      BY <1>2, <1>3, <2>2, <2>4 DEF Complete
    <3>4. \A i \in 1 .. Len(incoming') : incoming'[i] = last' => i = Len(incoming')
      <4>1. /\ Len(incoming') \in 1 .. Len(incoming')
            /\ incoming'[Len(incoming')] = current
        BY <1>2, <1>4, <2>1, <2>2, <2>5, AppendProperties
      <4>. QED BY <1>2, <2>2, <4>1 DEF Distinct
    <3>5. Len(incoming') + Len(done') + 0 = NumBuf BY <1>2, <2>2, <2>5, <3>2
    <3>. QED BY <2>1, <3>1, <3>2, <3>3, <3>4, <3>5 DEF Complete
  <2>7. FocusInv' BY <1>2, <2>1 DEF IInv, FocusInv, InLoop
  <2>8. pc' \in Given /\ pc' \notin Early BY <2>1 DEF Given, Early, BeforeMap
  <2>. QED BY <1>2, <1>4, <2>1, <2>2, <2>6, <2>7, <2>8, Proceed DEF IInv, TypeInv
<1>. QED BY <1>5, <1>6

\* The camera takes the first of the buffers given to it.
LEMMA FillIInv == ASSUME IInv, Fill PROVE IInv'
<1>1. /\ streaming /\ incoming # <<>>
      /\ done' = Append(done, Head(incoming)) /\ incoming' = Tail(incoming)
      /\ UNCHANGED <<build, pc, step, running>>
      /\ UNCHANGED <<num_buffers, start, region, enqueue_count, current, last, fd, focus>>
      /\ UNCHANGED <<granted, streaming, stolen, failed>>
  BY DEF Fill, control, appVars, history
<1>2. incoming \in Seq(Buffers) /\ done \in Seq(Buffers) BY DEF IInv, TypeInv
<1>3. /\ Head(incoming) \in Buffers /\ incoming' \in Seq(Buffers)
      /\ Len(incoming) \in Nat \ {0} /\ Len(incoming') = Len(incoming) - 1
      /\ \A i \in 1 .. Len(incoming') : i + 1 \in 1 .. Len(incoming) /\ incoming'[i] = incoming[i + 1]
      /\ QueueOf(incoming) = QueueOf(incoming') \cup {Head(incoming)}
      /\ Distinct(incoming) => Distinct(incoming') /\ Head(incoming) \notin QueueOf(incoming')
  BY <1>1, <1>2, TailQueue
<1>4. /\ done' \in Seq(Buffers) /\ Len(done') = Len(done) + 1
      /\ QueueOf(done') = QueueOf(done) \cup {Head(incoming)}
      /\ (Distinct(done) /\ Head(incoming) \notin QueueOf(done)) => Distinct(done')
  BY <1>1, <1>2, <1>3, AppendQueue
<1>5. pc \notin Early BY <1>1 DEF IInv, QueueInv
<1>6. CASE pc \in Given
  <2>1. Complete BY <1>6 DEF IInv, QueueInv
  <2>2. /\ QueueOf(incoming)' = QueueOf(incoming') /\ QueueOf(done)' = QueueOf(done')
        /\ (Distinct(incoming)' <=> Distinct(incoming')) /\ (Distinct(done)' <=> Distinct(done'))
        /\ Held' = Held
    BY <1>1 DEF QueueOf, Distinct, Held
  <2>3. Len(done) \in Nat BY <1>2
  <2>4. Head(incoming) \notin QueueOf(done) BY <1>3, <2>1 DEF Complete
  <2>5. Complete'
    <3>1. QueueOf(incoming)' \cup QueueOf(done)' \cup Held' = Buffers
      BY <1>3, <1>4, <2>1, <2>2 DEF Complete
    <3>2. Len(incoming') + Len(done') = Len(incoming) + Len(done) BY <1>3, <1>4, <2>3
    <3>3. /\ (Distinct(incoming) /\ Distinct(done))'
          /\ (QueueOf(incoming) \cap QueueOf(done))' = {}
      BY <1>3, <1>4, <2>1, <2>2, <2>4 DEF Complete
    <3>4. (pc = "read" => current \notin QueueOf(incoming) \cup QueueOf(done))'
      BY <1>1, <1>3, <1>4, <2>1, <2>2 DEF Complete
    <3>5. \A i \in 1 .. Len(incoming') : incoming'[i] = last' => i = Len(incoming')
      <4>1. SUFFICES ASSUME NEW i \in 1 .. Len(incoming'), incoming'[i] = last' PROVE i = Len(incoming')
        OBVIOUS
      <4>2. i + 1 \in 1 .. Len(incoming) /\ incoming[i + 1] = last BY <1>1, <1>3, <4>1
      <4>3. i + 1 = Len(incoming) BY <2>1, <4>2 DEF Complete
      <4>. QED BY <1>3, <4>3
    <3>. QED BY <1>1, <2>1, <3>1, <3>2, <3>3, <3>4, <3>5 DEF Complete
  <2>6. FocusInv' BY <1>1 DEF IInv, FocusInv, InLoop
  <2>. QED BY <1>1, <1>2, <1>3, <1>4, <1>5, <1>6, <2>5, <2>6, Proceed DEF IInv, TypeInv, Up
<1>7. CASE pc \notin Given
  <2>1. TypeInv' BY <1>1, <1>3, <1>4 DEF IInv, TypeInv
  <2>2. MapInv' BY <1>1 DEF IInv, MapInv
  <2>3. CleanInv' BY <1>1 DEF IInv, CleanInv
  <2>4. QueueInv' BY <1>1, <1>5, <1>7 DEF QueueInv, Early
  <2>5. FocusInv' /\ StolenNeedsMapFailure' BY <1>1 DEF IInv, FocusInv, InLoop, StolenNeedsMapFailure
  <2>. QED BY <2>1, <2>2, <2>3, <2>4, <2>5 DEF IInv
<1>. QED BY <1>6, <1>7

-----------------------------------------------------------------------------
(* The clean-up, which frame runs after a failure and main at its end.     *)

LEMMA ReturnedIInv == ASSUME IInv, Returned PROVE IInv'
<1>1. /\ pc = "returned" /\ pc' \in {"end", "teardown"} /\ step' \in Nat /\ UNCHANGED <<build, running>>
      /\ UNCHANGED <<num_buffers, start, region, enqueue_count, current, last, fd, focus>>
      /\ UNCHANGED <<granted, incoming, done, streaming, stolen, failed>>
  BY DEF Returned, Goto, appVars, driverVars, history
<1>2. TypeInv' BY <1>1 DEF IInv, TypeInv, PCs
<1>3. MapInv' BY <1>1 DEF IInv, MapInv, Up, Given, Early, BeforeMap
<1>4. CleanInv' /\ QueueInv' BY <1>1 DEF CleanInv, QueueInv, Early, BeforeMap, Given
<1>6. FocusInv' /\ StolenNeedsMapFailure' BY <1>1 DEF IInv, FocusInv, InLoop, StolenNeedsMapFailure
<1>. QED BY <1>2, <1>3, <1>4, <1>6 DEF IInv

LEMMA LevelDown ==
    ASSUME NextLevel, step \in Nat \ {0}
    PROVE  step' \in Nat /\ step' = step - 1 /\ (step' >= 2 => step > 2 /\ step >= 2)
<1>1. step' = step - 1 BY DEF NextLevel, Goto
<1>. QED BY <1>1

\* One level of the clean-up keeps the invariant when it takes no memory of another thread,
\* unless mmap has failed.
LEMMA Level ==
    ASSUME IInv, CleaningUp, step \in Nat \ {0}, NextLevel,
           UNCHANGED <<num_buffers, start, enqueue_count, current, last, failed>>,
           region' \in [Buffers -> {"nobody", "camera", "other"}], stolen' \in BOOLEAN,
           granted' \in Nat, incoming' \in Seq(Buffers), done' \in Seq(Buffers), streaming' \in BOOLEAN,
           fd' = fd \/ fd' \in {"closed", "closed twice"},
           step > 2 => region' = region,
           stolen' => stolen \/ "mmap" \in failed'
    PROVE  IInv'
<1>1. /\ pc \in {"cleanup", "teardown"} /\ pc' = pc /\ step' = step - 1 /\ UNCHANGED <<build, running>>
  BY DEF CleaningUp, NextLevel, Goto
<1>2. step' \in Nat /\ (step' >= 2 => step > 2 /\ step >= 2) BY LevelDown
<1>3. TypeInv' BY <1>1, <1>2 DEF IInv, TypeInv
<1>4. MapInv' BY <1>1 DEF IInv, MapInv, Up, Given, Early, BeforeMap
<1>5. CleanInv'
  <2>1. pc = "cleanup" => failed' # {} BY DEF IInv, CleanInv
  <2>2. ASSUME pc' = "cleanup", step' >= 2, "mmap" \notin failed'
        PROVE  \A b \in 1 .. num_buffers' : start'[b] = "set" => region'[b] = "camera"
    <3>1. step > 2 /\ step >= 2 BY <1>2, <2>2
    <3>2. region' = region BY <3>1
    <3>. QED BY <1>1, <2>2, <3>1, <3>2 DEF IInv, CleanInv
  <2>. QED BY <1>1, <2>1, <2>2 DEF CleanInv
<1>6. QueueInv' /\ FocusInv' BY <1>1 DEF QueueInv, FocusInv, InLoop, Early, BeforeMap, Given
<1>7. StolenNeedsMapFailure' BY DEF IInv, StolenNeedsMapFailure
<1>. QED BY <1>3, <1>4, <1>5, <1>6, <1>7 DEF IInv

LEMMA StopStreamingIInv == ASSUME IInv, StopStreaming PROVE IInv'
<1>1. /\ CleaningUp /\ step = 4 /\ NextLevel
      /\ UNCHANGED <<num_buffers, start, region, enqueue_count, current, last, fd, focus, stolen, failed>>
  BY DEF StopStreaming, appVars, history
<1>2. /\ granted' = granted
      /\ incoming' = <<>> \/ incoming' = incoming
      /\ done' = <<>> \/ done' = done
      /\ streaming' = FALSE \/ streaming' = streaming
  BY DEF StopStreaming, driverVars
<1>3. granted' \in Nat /\ incoming' \in Seq(Buffers) /\ done' \in Seq(Buffers) /\ streaming' \in BOOLEAN
  BY <1>2, EmptySeq DEF IInv, TypeInv
<1>4. /\ region' \in [Buffers -> {"nobody", "camera", "other"}] /\ stolen' \in BOOLEAN
  BY <1>1 DEF IInv, TypeInv
<1>. QED BY <1>1, <1>2, <1>3, <1>4, Level

LEMMA DeallocateOtherIInv == ASSUME IInv, DeallocateOther PROVE IInv'
<1>1. /\ CleaningUp /\ step = 3 /\ NextLevel
      /\ UNCHANGED <<num_buffers, start, region, enqueue_count, current, last, fd, focus, stolen, failed>>
      /\ UNCHANGED <<granted, incoming, done, streaming>>
  BY DEF DeallocateOther, driverVars, history
<1>2. /\ granted' \in Nat /\ incoming' \in Seq(Buffers) /\ done' \in Seq(Buffers) /\ streaming' \in BOOLEAN
      /\ region' \in [Buffers -> {"nobody", "camera", "other"}] /\ stolen' \in BOOLEAN
  BY <1>1 DEF IInv, TypeInv
<1>. QED BY <1>1, <1>2, Level

\* main unmaps and frees nothing, for the video_t it passes was never filled in.
LEMMA DeallocateInternalIInv == ASSUME IInv, DeallocateInternal PROVE IInv'
<1>. DEFINE n == IF pc = "cleanup" THEN num_buffers ELSE 0
            touched == {b \in 1 .. n : start[b] = "set"}
<1>1. /\ CleaningUp /\ step = 2 /\ NextLevel
      /\ UNCHANGED <<num_buffers, start, enqueue_count, current, last, fd, focus, failed>>
      /\ region' = [b \in Buffers |-> IF b \in touched THEN "nobody" ELSE region[b]]
      /\ stolen' = (stolen \/ \E b \in touched : region[b] = "other")
      /\ FreeBuffers(n, FALSE)
  BY DEF DeallocateInternal, Unmap
<1>2. Release \/ UNCHANGED driverVars BY <1>1 DEF FreeBuffers
<1>3. granted' \in Nat /\ incoming' \in Seq(Buffers) /\ done' \in Seq(Buffers) /\ streaming' \in BOOLEAN
  BY <1>2, Released DEF IInv
<1>4. region' \in [Buffers -> {"nobody", "camera", "other"}] /\ stolen' \in BOOLEAN
  BY <1>1 DEF IInv, TypeInv
<1>5. ASSUME stolen', ~stolen PROVE "mmap" \in failed'
  <2>1. PICK b \in touched : region[b] = "other" BY <1>1, <1>5
  <2>2. pc = "cleanup" BY <2>1
  <2>3. b \in 1 .. num_buffers /\ start[b] = "set" /\ region[b] # "camera" BY <2>1, <2>2
  <2>. QED BY <1>1, <2>2, <2>3 DEF IInv, CleanInv
<1>. HIDE DEF n, touched
<1>. QED BY <1>1, <1>3, <1>4, <1>5, Level

LEMMA CloseIInv == ASSUME IInv, CloseCamera PROVE IInv'
<1>1. /\ CleaningUp /\ step = 1 /\ NextLevel
      /\ UNCHANGED <<num_buffers, start, region, enqueue_count, current, last, focus, stolen, failed>>
      /\ fd' \in {"closed", "closed twice"}
      /\ IF Mapped THEN UNCHANGED driverVars ELSE Release
  BY DEF CloseCamera, Close, history
<1>2. granted' \in Nat /\ incoming' \in Seq(Buffers) /\ done' \in Seq(Buffers) /\ streaming' \in BOOLEAN
  BY <1>1, Released DEF IInv
<1>3. region' \in [Buffers -> {"nobody", "camera", "other"}] /\ stolen' \in BOOLEAN
  BY <1>1 DEF IInv, TypeInv
<1>4. region' = region /\ (stolen' => stolen \/ "mmap" \in failed') BY <1>1
<1>5. step \in Nat \ {0} BY DEF CloseCamera
<1>6. CleaningUp /\ NextLevel BY <1>1
<1>7. UNCHANGED <<num_buffers, start, enqueue_count, current, last, failed>> BY <1>1
<1>8. fd' \in {"closed", "closed twice"} BY <1>1
<1>. QED BY <1>2, <1>3, <1>4, <1>5, <1>6, <1>7, <1>8, Level

LEMMA CleanedUpIInv == ASSUME IInv, CleanedUp PROVE IInv'
<1>1. /\ pc \in {"cleanup", "teardown"} /\ step' = 1 /\ UNCHANGED build /\ running' \in BOOLEAN
      /\ \/ pc = "cleanup" /\ pc' = "returned"
         \/ pc = "teardown" /\ pc' = "end"
      /\ UNCHANGED <<num_buffers, start, region, enqueue_count, current, last, fd, focus>>
      /\ UNCHANGED <<granted, incoming, done, streaming, stolen, failed>>
  BY DEF CleanedUp, CleaningUp, Goto, appVars, driverVars, history, IInv, TypeInv
<1>2. TypeInv' BY <1>1 DEF IInv, TypeInv, PCs
<1>3. MapInv' BY <1>1 DEF IInv, MapInv, Up, Given, Early, BeforeMap
<1>4. CleanInv' /\ QueueInv' BY <1>1 DEF CleanInv, QueueInv, Early, BeforeMap, Given
<1>6. FocusInv' /\ StolenNeedsMapFailure' BY <1>1 DEF IInv, FocusInv, InLoop, StolenNeedsMapFailure
<1>. QED BY <1>2, <1>3, <1>4, <1>6 DEF IInv

\* Another thread maps memory only where nothing is mapped, which is never a live buffer.
LEMMA OtherMapsIInv == ASSUME IInv, OtherMaps PROVE IInv'
<1>1. PICK b \in Buffers :
          start[b] = "set" /\ region[b] = "nobody" /\ region' = [region EXCEPT ![b] = "other"]
  BY DEF OtherMaps
<1>2. /\ UNCHANGED <<build, pc, step, running, num_buffers, start, enqueue_count, current, last, fd, focus>>
      /\ UNCHANGED <<granted, incoming, done, streaming, stolen, failed>>
  BY DEF OtherMaps, control, driverVars, history
<1>3. \A c \in Buffers : region[c] = "camera" => region'[c] = "camera"
  BY <1>1 DEF IInv, TypeInv
<1>4. TypeInv'
  <2>1. region' \in [Buffers -> {"nobody", "camera", "other"}] BY <1>1 DEF IInv, TypeInv
  <2>. QED BY <1>2, <2>1 DEF IInv, TypeInv
<1>5. MapInv'
  <2>1. pc = "map" => \A c \in 1 .. step - 1 : region'[c] = "camera"
    <3>1. ASSUME pc = "map", NEW c \in 1 .. step - 1 PROVE region'[c] = "camera"
      <4>1. c \in Buffers /\ region[c] = "camera" BY <3>1, BufferFacts DEF IInv, TypeInv, MapInv
      <4>. QED BY <1>3, <4>1
    <3>. QED BY <3>1
  <2>2. pc \in Up => \A c \in Buffers : region'[c] = "camera" BY <1>3 DEF IInv, MapInv
  <2>. QED BY <1>2, <2>1, <2>2 DEF IInv, MapInv
<1>6. CleanInv'
  <2>1. num_buffers \in {0, NumBuf} /\ 1 .. num_buffers \subseteq Buffers BY BufferFacts DEF IInv, TypeInv
  <2>. QED BY <1>2, <1>3, <2>1 DEF IInv, CleanInv
<1>8. Complete' <=> Complete BY <1>2 DEF Complete, Distinct, QueueOf, Held
<1>9. QueueInv' BY <1>2, <1>8 DEF IInv, QueueInv
<1>10. FocusInv' /\ StolenNeedsMapFailure' BY <1>2 DEF IInv, FocusInv, InLoop, StolenNeedsMapFailure
<1>. QED BY <1>4, <1>5, <1>6, <1>9, <1>10 DEF IInv

-----------------------------------------------------------------------------
LEMMA NextIInv == IInv /\ [Next]_vars => IInv'
<1>. SUFFICES ASSUME IInv, [Next]_vars PROVE IInv'
  OBVIOUS
<1>1. CASE OpenCamera BY <1>1, OpenIInv
<1>2. CASE ShowCameraCapabilities \/ EnumerateImageFormats \/ ShowImageFormat \/ SetYuyv
  BY <1>2, CheckIInv DEF ShowCameraCapabilities, EnumerateImageFormats, ShowImageFormat, SetYuyv
<1>3. CASE RequestBuffers BY <1>3, RequestIInv
<1>4. CASE MapBuffer BY <1>4, MapIInv
<1>5. CASE EnqueueAll BY <1>5, EnqueueAllIInv
<1>6. CASE AllocateOther BY <1>6, AllocateIInv
<1>7. CASE StartStreaming BY <1>7, StartIInv
<1>8. CASE TryRefocus BY <1>8, RefocusIInv
<1>9. CASE Loop BY <1>9, LoopIInv
<1>10. CASE Dequeue BY <1>10, DequeueIInv
<1>11. CASE Abort BY <1>11, AbortIInv
<1>12. CASE Requeue BY <1>12, RequeueIInv
<1>13. CASE Returned BY <1>13, ReturnedIInv
<1>14. CASE StopStreaming BY <1>14, StopStreamingIInv
<1>15. CASE DeallocateOther BY <1>15, DeallocateOtherIInv
<1>16. CASE DeallocateInternal BY <1>16, DeallocateInternalIInv
<1>17. CASE CloseCamera BY <1>17, CloseIInv
<1>18. CASE CleanedUp BY <1>18, CleanedUpIInv
<1>19. CASE Fill BY <1>19, FillIInv
<1>20. CASE OtherMaps BY <1>20, OtherMapsIInv
<1>21. CASE Stop BY <1>21, StutterIInv DEF Stop
<1>22. CASE UNCHANGED vars BY <1>22, StutterIInv DEF vars, control, IInv, TypeInv
<1>. QED BY <1>1, <1>2, <1>3, <1>4, <1>5, <1>6, <1>7, <1>8, <1>9, <1>10, <1>11, <1>12, <1>13, <1>14,
            <1>15, <1>16, <1>17, <1>18, <1>19, <1>20, <1>21, <1>22 DEF Next, Ended

LEMMA Invariant == Spec => []IInv
BY InitIInv, NextIInv, PTL DEF Spec

\* However many buffers there are, frame() loses none while it loops, and enqueue_count
\* is what the driver holds: dequeue_buf never refuses for want of queued buffers.
THEOREM EveryBufferOnceTheorem == Spec => []EveryBufferOnce
<1>1. IInv => EveryBufferOnce
  <2>. SUFFICES ASSUME IInv, InLoop PROVE EveryBufferOnce
    BY DEF EveryBufferOnce
  <2>1. pc \in Given /\ pc \in Up BY DEF InLoop, Given, Up
  <2>2. Complete BY <2>1 DEF IInv, QueueInv
  <2>3. Cardinality(Held) = IF pc = "read" THEN 1 ELSE 0 BY FS_EmptySet, FS_Singleton DEF Held
  <2>4. Len(incoming) \in Nat /\ Len(done) \in Nat BY DEF IInv, TypeInv
  <2>5. Len(incoming) + Len(done) + Cardinality(Held) = NumBuf BY <2>2, <2>3 DEF Complete
  <2>6. enqueue_count > 0 BY <2>2, <2>4, BufferFacts DEF Complete
  <2>7. streaming /\ fd = "open" /\ focus = "off" BY <2>1 DEF IInv, MapInv, FocusInv
  <2>. QED BY <2>2, <2>5, <2>6, <2>7 DEF EveryBufferOnce, Complete
<1>. QED BY Invariant, <1>1, PTL

\* Every frame is copied out of mapped memory the driver does not own; and the camera must
\* be NumBuf - 2 frames ahead before it writes over the frame that the stand-alone build
\* compares with.
THEOREM NoTornFrameTheorem == Spec => []NoTornFrame
<1>1. IInv => NoTornFrame
  <2>. SUFFICES ASSUME IInv, pc = "read" PROVE NoTornFrame
    BY DEF NoTornFrame
  <2>1. pc \in Given /\ pc \in Up BY DEF Given, Up
  <2>2. Complete BY <2>1 DEF IInv, QueueInv
  <2>3. region[current] = "camera" BY <2>1 DEF IInv, TypeInv, MapInv
  <2>4. incoming \in Seq(Buffers) /\ Len(done) \in Nat BY DEF IInv, TypeInv
  <2>5. ASSUME incoming # <<>>, last = Head(incoming) PROVE Len(done) >= NumBuf - 2
    <3>1. Len(incoming) \in Nat \ {0} /\ Head(incoming) = incoming[1] BY <2>4, <2>5, EmptySeq
    <3>2. 1 \in 1 .. Len(incoming) BY <3>1
    <3>3. Len(incoming) = 1 BY <2>2, <2>5, <3>1, <3>2 DEF Complete
    <3>4. 1 + Len(done) + 1 = NumBuf BY <2>2, <3>3 DEF Complete
    <3>. QED BY <2>4, <3>4, BufferFacts
  <2>. QED BY <2>2, <2>3, <2>5 DEF NoTornFrame, Complete
<1>. QED BY Invariant, <1>1, PTL

\* _munmap_buffers takes memory of another thread only after a failure of mmap itself.
THEOREM StolenNeedsMapFailureTheorem == Spec => []StolenNeedsMapFailure
BY Invariant, PTL DEF IInv
=============================================================================
