---------------------------- MODULE CameraBuffers ----------------------------
(***************************************************************************)
(* The capture buffers of simple-capture: framegrab (frame, capture.c)     *)
(* probes the camera, has the driver allocate buffers, maps and enqueues   *)
(* them, streams, and returns what it holds level by level when a step     *)
(* fails; main runs the same clean-up (video_error_cleanup) once framegrab *)
(* has stopped, on a video_t of its own that was never filled in.  Beside  *)
(* them the driver fills buffers in the order they were enqueued, and the  *)
(* other threads map memory.  The stand-alone build of capture.c compares  *)
(* each frame with the one before, which it has already given back.        *)
(***************************************************************************)
EXTENDS Naturals, Sequences, FiniteSets

CONSTANTS NumBuf \* NUM_BUF (3)

ASSUME NumBufAssumption == NumBuf \in Nat /\ NumBuf >= 2

VARIABLES
    build,         \* "sequencer", or "standalone" (CAPTURE_STANDALONE)
    pc,            \* the step of frame, then of main
    step,          \* the loop variable, or the level of the clean-up
    running,
    num_buffers,   \* framegrab's video_t: 0 until REQBUFS has succeeded
    start,         \* buffers[i].start: "null", "failed" (MAP_FAILED) or "set"
    region,        \* who has memory mapped at the address start names
    enqueue_count,
    current,       \* current_b.index, NoBuffer before the first frame
    last,          \* last_buffer_index of the stand-alone build
    wo_buffer,     \* "null", "held" or "freed"
    fd,            \* "open", "closed" or "closed twice"
    focus,         \* what try_refocus last set
    format,        \* the pixel format: "camera" (its own), "fits" (YUYV, or one whose frames
                   \*   are as large) or "other"
    granted,       \* the driver: how many buffers it has allocated,
    incoming,      \*   those enqueued, the first being filled,
    done,          \*   those filled,
    streaming,     \*   and whether it streams
    stolen,        \* history: munmap took memory another thread had mapped
    failed         \* history: the initialisation steps that failed

control == <<build, pc, step, running>>
appVars == <<num_buffers, start, region, enqueue_count, current, last, wo_buffer, fd, focus, format>>
driverVars == <<granted, incoming, done, streaming>>
history == <<stolen, failed>>
vars == <<control, appVars, driverVars, history>>

Buffers == 1 .. NumBuf
NoBuffer == 0
ProbeSteps == <<"show_camera_capabilities", "enumerate_camera_image_formats",
                "show_camera_image_format", "camera_set_yuyv", "show_camera_image_format">>
Controls == <<"off", "absolute", "on", "off", "read">>

Init ==
    /\ build \in {"sequencer", "standalone"}
    /\ pc = "open" /\ step = 1 /\ running = TRUE
    /\ num_buffers = 0
    /\ start = [b \in Buffers |-> "null"]
    /\ region = [b \in Buffers |-> "nobody"]
    /\ enqueue_count = 0
    /\ current = NoBuffer /\ last = NoBuffer
    /\ wo_buffer = "null" /\ fd = "none" /\ focus = "on" /\ format = "camera"
    /\ granted = 0 /\ incoming = <<>> /\ done = <<>> /\ streaming = FALSE
    /\ stolen = FALSE /\ failed = {}

Goto(next, n) == pc' = next /\ step' = n /\ UNCHANGED <<build, running>>

\* The mmaps hold the device open: closing fd alone gives no buffer back.
Mapped == \E b \in Buffers : region[b] = "camera"
Release == granted' = 0 /\ incoming' = <<>> /\ done' = <<>> /\ streaming' = FALSE

\* error_unbarrier_exit, after a clean-up from the given level
FailAt(name, level) ==
    /\ failed' = failed \cup {name}
    /\ Goto("cleanup", level)
    /\ UNCHANGED stolen

Close ==
    /\ fd' = IF fd = "open" THEN "closed" ELSE "closed twice"
    /\ IF Mapped THEN UNCHANGED driverVars ELSE Release

\* open_camera, by main; when there is no such camera the program ends
OpenCamera ==
    /\ pc = "open"
    /\ \/ fd' = "open" /\ Goto("probe", 1)
       \/ UNCHANGED fd /\ Goto("end", 1)
    /\ UNCHANGED <<num_buffers, start, region, enqueue_count, current, last, wo_buffer, focus, format,
                   driverVars, history>>

\* One call of camera_check_init; when it fails the camera is closed at once.
Check(call, ok) ==
    /\ pc = "probe" /\ ProbeSteps[step] = call
    /\ IF ok
       THEN /\ IF step = Len(ProbeSteps) THEN Goto("request", 1) ELSE Goto("probe", step + 1)
            /\ UNCHANGED <<fd, driverVars, history>>
       ELSE FailAt("probe", 0) /\ Close
    /\ UNCHANGED <<num_buffers, start, region, enqueue_count, current, last, wo_buffer, focus>>

ShowCameraCapabilities ==
    \E ok \in BOOLEAN : Check("show_camera_capabilities", ok) /\ UNCHANGED format

\* fails also when the camera lists no format at all
EnumerateImageFormats ==
    \E ok \in BOOLEAN : Check("enumerate_camera_image_formats", ok) /\ UNCHANGED format

ShowImageFormat ==
    \E ok \in BOOLEAN : Check("show_camera_image_format", ok) /\ UNCHANGED format

\* The driver may set another format than the one asked for: camera_check_init compares
\* the width and the height, never the pixel format.
SetYuyv ==
    \E ok \in BOOLEAN :
        /\ Check("camera_set_yuyv", ok)
        /\ format' \in {"fits", "other"} \cup IF ok THEN {} ELSE {format}

\* _free_buffers: the type that request_buffers stores is 0 before it has succeeded,
\* and the driver refuses it; older drivers also refuse while a buffer is mapped.
FreeBuffers(n, mapped) ==
    IF n > 0 /\ fd = "open"
    THEN Release \/ (mapped /\ UNCHANGED driverVars)
    ELSE UNCHANGED driverVars

\* request_buffers: too few buffers are an error, and stay allocated
RequestBuffers ==
    /\ pc = "request"
    /\ \E n \in 0 .. NumBuf :
           /\ granted' = n
           /\ IF n = NumBuf
              THEN num_buffers' = n /\ Goto("map", 1) /\ UNCHANGED history
              ELSE UNCHANGED num_buffers /\ FailAt("request", 2)
    /\ UNCHANGED <<start, region, enqueue_count, current, last, wo_buffer, fd, focus, format,
                   incoming, done, streaming>>

\* _munmap_buffers of the first n buffers: start is never set back to NULL
Unmap(n) ==
    LET touched == {b \in 1 .. n : start[b] = "set"}
    IN  /\ region' = [b \in Buffers |-> IF b \in touched THEN "nobody" ELSE region[b]]
        /\ stolen' = (stolen \/ \E b \in touched : region[b] = "other")

\* Mutant: the buffers are also unmapped when QUERYBUF fails.
MapBufferUnmaps ==
    /\ pc = "map"
    /\ \/ /\ start' = [start EXCEPT ![step] = "set"]
          /\ region' = [region EXCEPT ![step] = "camera"]
          /\ IF step = NumBuf THEN Goto("enqueue", 1) ELSE Goto("map", step + 1)
          /\ UNCHANGED <<driverVars, history>>
       \/ /\ Unmap(num_buffers)
          /\ failed' = failed \cup {"query"} /\ Goto("cleanup", 2)
          /\ Release
          /\ UNCHANGED start
    /\ UNCHANGED <<num_buffers, enqueue_count, current, last, wo_buffer, fd, focus, format>>

\* One round of mmap_buffers: VIDIOC_QUERYBUF, mmap, and what each failure undoes
MapBuffer ==
    /\ pc = "map"
    /\ \/ /\ start' = [start EXCEPT ![step] = "set"]
          /\ region' = [region EXCEPT ![step] = "camera"]
          /\ IF step = NumBuf THEN Goto("enqueue", 1) ELSE Goto("map", step + 1)
          /\ UNCHANGED <<driverVars, history>>
       \/ /\ FailAt("query", 2)
          /\ FreeBuffers(num_buffers, Mapped)
          /\ UNCHANGED <<start, region>>
       \/ /\ start' = [start EXCEPT ![step] = "failed"]
          /\ Unmap(num_buffers)
          /\ FreeBuffers(num_buffers, FALSE)
          /\ failed' = failed \cup {"mmap"}
          /\ Goto("cleanup", 2)
    /\ UNCHANGED <<num_buffers, enqueue_count, current, last, wo_buffer, fd, focus, format>>

\* Mutant: the last buffer is not counted.
EnqueueBufForgets(b, ok) ==
    /\ enqueue_count' = IF b = NumBuf THEN enqueue_count ELSE enqueue_count + 1
    /\ incoming' = IF ok THEN Append(incoming, b) ELSE incoming
    /\ UNCHANGED <<granted, done, streaming>>

\* enqueue_buf counts whether the ioctl succeeded or not
EnqueueBuf(b, ok) ==
    /\ enqueue_count' = enqueue_count + 1
    /\ incoming' = IF ok THEN Append(incoming, b) ELSE incoming
    /\ UNCHANGED <<granted, done, streaming>>

\* The last loop of camera_init_internal_buffers.  A buffer the driver took may still be
\* refused, for its flags.
EnqueueAll ==
    /\ pc = "enqueue"
    /\ \E ok, flags \in BOOLEAN :
           /\ EnqueueBuf(step, ok)
           /\ IF ok /\ flags
              THEN /\ IF step = NumBuf THEN Goto("allocate", 1) ELSE Goto("enqueue", step + 1)
                   /\ UNCHANGED history
              ELSE FailAt("enqueue", 2)
    /\ UNCHANGED <<num_buffers, start, region, current, last, wo_buffer, fd, focus, format>>

\* allocate_other_buffers
AllocateOther ==
    /\ pc = "allocate"
    /\ \/ wo_buffer' = "held" /\ Goto("stream", 1) /\ UNCHANGED history
       \/ UNCHANGED wo_buffer /\ FailAt("allocate", 3)
    /\ UNCHANGED <<num_buffers, start, region, enqueue_count, current, last, fd, focus, format, driverVars>>

StartStreaming ==
    /\ pc = "stream"
    /\ \/ streaming' = TRUE /\ Goto("refocus", 1) /\ UNCHANGED history
       \/ UNCHANGED streaming /\ FailAt("stream", 3)
    /\ UNCHANGED <<appVars, granted, incoming, done>>

\* try_refocus, one control a step; the camera streams meanwhile
TryRefocus ==
    /\ pc = "refocus"
    /\ \/ /\ focus' = IF Controls[step] = "read" THEN focus ELSE Controls[step]
          /\ IF step = Len(Controls) THEN Goto("loop", 1) ELSE Goto("refocus", step + 1)
          /\ UNCHANGED history
       \/ UNCHANGED focus /\ FailAt("refocus", 3)
    /\ UNCHANGED <<num_buffers, start, region, enqueue_count, current, last, wo_buffer, fd, format, driverVars>>

\* while(running), and sem_wait(&sem_framegrab), which may return EINTR (its other error,
\* a semaphore that is none, does not arise)
Loop ==
    /\ pc = "loop"
    /\ \/ running /\ Goto("dequeue", 1)
       \/ ~running /\ Goto("returned", 1)
       \/ build = "sequencer" /\ running /\ pc' = "returned" /\ step' = 1 /\ running' = FALSE
              /\ UNCHANGED build
    /\ UNCHANGED <<appVars, driverVars, history>>

\* dequeue_buf blocks until a frame is filled.  It refuses when enqueue_count is 0, and
\* counts down also when the ioctl fails; either ends frame without any clean-up.
Dequeue ==
    /\ pc = "dequeue"
    /\ \E ok \in IF enqueue_count = 0 THEN {FALSE} ELSE BOOLEAN :
           IF ok
           THEN /\ done # <<>>
                /\ current' = Head(done) /\ done' = Tail(done)
                /\ Goto("read", 1)
           ELSE /\ UNCHANGED <<current, done, build>>
                /\ pc' = "returned" /\ step' = 1 /\ running' = FALSE
    /\ enqueue_count' = IF enqueue_count = 0 THEN 0 ELSE enqueue_count - 1
    /\ UNCHANGED <<num_buffers, start, region, last, wo_buffer, fd, focus, format,
                   granted, incoming, streaming, history>>

\* Mutant: the frame is copied after its buffer was given back.
RequeueEarly ==
    /\ pc = "read"
    /\ IF step = 1
       THEN EnqueueBuf(current, TRUE) /\ Goto("read", 2) /\ UNCHANGED last
       ELSE last' = current /\ Goto("loop", 1) /\ UNCHANGED <<enqueue_count, driverVars>>
    /\ UNCHANGED <<num_buffers, start, region, current, wo_buffer, fd, focus, format, history>>

CopyAsserts == build = "sequencer" /\ format = "other"

\* The assertion that a frame has the size of its slot of scan_buffer is the first to see
\* the format, and sees no other that is as large as YUYV.
Abort ==
    /\ pc = "read" /\ CopyAsserts
    /\ Goto("aborted", 1)
    /\ UNCHANGED <<appVars, driverVars, history>>

\* The frame has been read: COPY_BUFFER, or frame_changes of the last two; enqueue_buf
Requeue ==
    /\ pc = "read" /\ ~CopyAsserts
    /\ \E ok \in BOOLEAN :
           /\ EnqueueBuf(current, ok)
           /\ IF ok
              THEN Goto("loop", 1)
              ELSE pc' = "returned" /\ step' = 1 /\ running' = FALSE /\ UNCHANGED build
    /\ last' = current
    /\ UNCHANGED <<num_buffers, start, region, current, wo_buffer, fd, focus, format, history>>

\* frame has returned: the stand-alone program ends, main tears the other one down.
Returned ==
    /\ pc = "returned"
    /\ IF build = "standalone" THEN Goto("end", 1) ELSE Goto("teardown", 4)
    /\ UNCHANGED <<appVars, driverVars, history>>

CleaningUp == pc \in {"cleanup", "teardown"}
NextLevel == Goto(pc, step - 1)

\* video_error_cleanup falls through its cases; the state each acts on is framegrab's
\* video_t, or main's, whose num_buffers is 0.
StopStreaming ==
    /\ CleaningUp /\ step = 4 /\ NextLevel
    /\ IF fd = "open"
       THEN incoming' = <<>> /\ done' = <<>> /\ streaming' = FALSE /\ UNCHANGED granted
       ELSE UNCHANGED driverVars
    /\ UNCHANGED <<appVars, history>>

DeallocateOther ==
    /\ CleaningUp /\ step = 3 /\ NextLevel
    /\ wo_buffer' = IF wo_buffer = "null" THEN "null" ELSE "freed"
    /\ UNCHANGED <<num_buffers, start, region, enqueue_count, current, last, fd, focus, format,
                   driverVars, history>>

DeallocateInternal ==
    /\ CleaningUp /\ step = 2 /\ NextLevel
    /\ LET n == IF pc = "cleanup" THEN num_buffers ELSE 0
       IN  Unmap(n) /\ FreeBuffers(n, FALSE)
    /\ UNCHANGED <<num_buffers, start, enqueue_count, current, last, wo_buffer, fd, focus, format, failed>>

CloseCamera ==
    /\ CleaningUp /\ step = 1 /\ NextLevel
    /\ Close
    /\ UNCHANGED <<num_buffers, start, region, enqueue_count, current, last, wo_buffer, focus, format, history>>

CleanedUp ==
    /\ CleaningUp /\ step = 0
    /\ IF pc = "cleanup"
       THEN pc' = "returned" /\ step' = 1 /\ running' = FALSE /\ UNCHANGED build
       ELSE Goto("end", 1)
    /\ UNCHANGED <<appVars, driverVars, history>>

\* The camera finishes the frame it is writing.
Fill ==
    /\ streaming /\ incoming # <<>>
    /\ done' = Append(done, Head(incoming))
    /\ incoming' = Tail(incoming)
    /\ UNCHANGED <<control, appVars, granted, streaming, history>>

\* malloc of a frame in processing or writeout, which maps memory where it is free
OtherMaps ==
    /\ build = "sequencer"
    /\ \E b \in Buffers :
           /\ start[b] = "set" /\ region[b] = "nobody"
           /\ region' = [region EXCEPT ![b] = "other"]
    /\ UNCHANGED <<control, num_buffers, start, enqueue_count, current, last, wo_buffer, fd, focus, format,
                   driverVars, history>>

\* ctrl_c, an error of another thread, or PROFILE_ITERS frames
Stop ==
    /\ running
    /\ running' = FALSE
    /\ UNCHANGED <<build, pc, step, appVars, driverVars, history>>

Ended == pc \in {"end", "aborted"} /\ UNCHANGED vars

Next ==
    \/ OpenCamera \/ ShowCameraCapabilities \/ EnumerateImageFormats \/ ShowImageFormat \/ SetYuyv
    \/ RequestBuffers \/ MapBuffer \/ EnqueueAll
    \/ AllocateOther \/ StartStreaming \/ TryRefocus
    \/ Loop \/ Dequeue \/ Abort \/ Requeue \/ Returned
    \/ StopStreaming \/ DeallocateOther \/ DeallocateInternal \/ CloseCamera \/ CleanedUp
    \/ Fill \/ OtherMaps \/ Stop \/ Ended

Spec == Init /\ [][Next]_vars

-----------------------------------------------------------------------------
InLoop == pc \in {"loop", "dequeue", "read"}
Held == IF pc = "read" THEN {current} ELSE {}
QueueOf(s) == {s[i] : i \in 1 .. Len(s)}

\* While frame() loops, no buffer is lost or in two places: each is queued, filled, or the
\* one being read, and enqueue_count is the number the driver holds.  So dequeue_buf never
\* refuses for want of queued buffers, although enqueue_buf counts failed ioctls too.
EveryBufferOnce ==
    InLoop =>
        /\ QueueOf(incoming) \cup QueueOf(done) \cup Held = Buffers
        /\ Len(incoming) + Len(done) + Cardinality(Held) = NumBuf
        /\ enqueue_count = Len(incoming) + Len(done)
        /\ enqueue_count > 0
        /\ streaming /\ fd = "open" /\ focus = "off"

\* framegrab copies a frame out of memory that is mapped and that the driver does not own.
\* The stand-alone build also reads the frame before, which it has given back: the camera
\* writes over it during the comparison only once it is NumBuf - 2 frames ahead.
NoTornFrame ==
    pc = "read" =>
        /\ region[current] = "camera"
        /\ current \notin QueueOf(incoming) \cup QueueOf(done)
        /\ (build = "standalone" /\ incoming # <<>> /\ last = Head(incoming)
                => Len(done) >= NumBuf - 2)

\* The clean-up of a failed initialisation runs _munmap_buffers a second time only after
\* mmap has failed: no other failure takes memory that another thread has mapped since.
StolenNeedsMapFailure == stolen => "mmap" \in failed

\* "<free> video(frame) resources" (sequencer.c:279): what frame() mapped is unmapped by the
\* clean-up of main.  It is not: main's own video_t was never filled in.
TeardownFreesFrames ==
    build = "sequencer" /\ pc = "end" => \A b \in Buffers : region[b] # "camera"
=============================================================================
