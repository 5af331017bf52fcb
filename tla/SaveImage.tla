------------------------------ MODULE SaveImage ------------------------------
(***************************************************************************)
(* SaveImage.cpp: a viewer in which main() starts the camera and           *)
(* GrabImageThread(), serves key presses that save the last frame as RAW,  *)
(* JPEG or BMP, and shuts everything down after Enter.  The two threads    *)
(* share the last frame (g_pcDataBuf and g_pstImageInfoEx2) under `mutex`, *)
(* and g_bExit without a lock.  The camera SDK is external: each of its    *)
(* calls may fail.                                                         *)
(***************************************************************************)
EXTENDS Naturals, TLAPS

CONSTANTS
  PixelTypes,  \* pixel types the camera delivers
  MaxFrames    \* bound: frames the camera delivers

ASSUME ViewerAssumption ==
  /\ PixelTypes \subseteq {"Mono8", "Jpeg", "other"}
  /\ MaxFrames \in Nat

Formats == {"raw", "jpeg", "bmp"}

\* A frame: its number, its pixel type, and whether it is shorter than
\* g_nMaxImageSize.  Frame 0 is the zeroed memory before the first one.
Frames == [id : 0..MaxFrames, type : PixelTypes \cup {"zero"}, fits : BOOLEAN]
ZeroFrame == [id |-> 0, type |-> "zero", fits |-> TRUE]

VARIABLES
  g_bExit,
  g_pstImageInfoEx2,  \* {} for NULL, or {f}: the info of frame f
  g_pcDataBuf,        \* {} for NULL, or {n}: the pixels of frame n
  mutex,              \* its holder: "main", "grab" or "none"
  handle,             \* main's handle is not NULL
  bIsNormalRun,
  mainPc,
  format, picked,     \* the save under way, and the info it was decided on
  grabPc,
  frame,              \* the frame GetOneFrameTimeoutEx2() returned last
  device,             \* the SDK's state: "none", "created", "open", "grabbing"
  destroyFailed,      \* history: the last DestroyHandle() failed
  saved               \* history: info and pixels of each file written

shared == <<g_bExit, g_pstImageInfoEx2, g_pcDataBuf, mutex>>
grabVars == <<grabPc, frame>>
saveVars == <<format, picked, saved>>
deviceVars == <<handle, device, destroyFailed>>
vars == <<shared, bIsNormalRun, mainPc, grabVars, saveVars, deviceVars>>

MainPcs == {"enumerate", "create", "open", "resources", "trigger", "start",
            "thread", "flush", "keys", "lock", "check", "write", "unlock",
            "join", "stop", "close", "destroy", "cleanup", "deinit", "confirm",
            "exited"}
GrabPcs == {"none", "test", "wait", "lock", "info", "data", "unlock", "ended"}

Init ==
  /\ g_bExit = FALSE
  /\ g_pstImageInfoEx2 = {} /\ g_pcDataBuf = {}
  /\ mutex = "none"
  /\ handle = FALSE /\ device = "none" /\ destroyFailed = FALSE
  /\ bIsNormalRun = TRUE
  /\ mainPc = "enumerate"
  /\ format = "raw" /\ picked = ZeroFrame /\ saved = {}
  /\ grabPc = "none" /\ frame = ZeroFrame

MainGoto(from, to) == mainPc = from /\ mainPc' = to

------------------------------------------------------------------------------
(* main(): start-up *)

\* EnumDevices(), the choice of an index; both may end the program early.
Enumerate ==
  /\ MainGoto("enumerate", "create") \/ MainGoto("enumerate", "cleanup")
  /\ UNCHANGED <<shared, bIsNormalRun, grabVars, saveVars, deviceVars>>

\* CreateHandle().
CreateHandle ==
  /\ \/ MainGoto("create", "open") /\ handle' = TRUE /\ device' = "created"
     \/ MainGoto("create", "cleanup") /\ UNCHANGED <<handle, device>>
  /\ UNCHANGED <<shared, bIsNormalRun, grabVars, saveVars, destroyFailed>>

\* OpenDevice().
OpenDevice ==
  /\ \/ MainGoto("open", "resources") /\ device' = "open"
     \/ MainGoto("open", "cleanup") /\ UNCHANGED device
  /\ UNCHANGED <<shared, bIsNormalRun, grabVars, saveVars, handle, destroyFailed>>

\* InitResource(): on a failure it frees what it had allocated.
InitResource ==
  /\ \/ /\ MainGoto("resources", "trigger")
        /\ g_pcDataBuf' = {0} /\ g_pstImageInfoEx2' = {ZeroFrame}
        /\ mutex' = "none"
     \/ /\ MainGoto("resources", "cleanup")
        /\ UNCHANGED <<g_pcDataBuf, g_pstImageInfoEx2, mutex>>
  /\ UNCHANGED <<g_bExit, bIsNormalRun, grabVars, saveVars, deviceVars>>

\* SetEnumValue("TriggerMode").
SetTriggerMode ==
  /\ MainGoto("trigger", "start") \/ MainGoto("trigger", "cleanup")
  /\ UNCHANGED <<shared, bIsNormalRun, grabVars, saveVars, deviceVars>>

\* StartGrabbing().
StartGrabbing ==
  /\ \/ MainGoto("start", "thread") /\ device' = "grabbing"
     \/ MainGoto("start", "cleanup") /\ UNCHANGED device
  /\ UNCHANGED <<shared, bIsNormalRun, grabVars, saveVars, handle, destroyFailed>>

\* pthread_create(GrabImageThread).
CreateThread ==
  /\ \/ MainGoto("thread", "flush") /\ grabPc' = "test"
     \/ MainGoto("thread", "cleanup") /\ UNCHANGED grabPc
  /\ UNCHANGED <<shared, bIsNormalRun, frame, saveVars, deviceVars>>

------------------------------------------------------------------------------
(* HandleKeyPress() and the three save functions *)

\* The rest of the line with the index is read and dropped.
FlushLine ==
  /\ MainGoto("flush", "keys")
  /\ UNCHANGED <<shared, bIsNormalRun, grabVars, saveVars, deviceVars>>

\* The user presses 1, 2 or 3.  Other characters, and end of file, change
\* nothing: the loop reads on.
PressKey(f) ==
  /\ MainGoto("keys", "lock")
  /\ format' = f
  /\ UNCHANGED <<shared, bIsNormalRun, grabVars, picked, saved, deviceVars>>

\* The user presses Enter.
PressEnter ==
  /\ MainGoto("keys", "join")
  /\ g_bExit' = TRUE
  /\ UNCHANGED <<g_pstImageInfoEx2, g_pcDataBuf, mutex, bIsNormalRun, grabVars,
                 saveVars, deviceVars>>

\* pthread_mutex_lock(): a default mutex is not recursive.
SaveLock ==
  /\ MainGoto("lock", "check")
  /\ mutex = "none" /\ mutex' = "main"
  /\ UNCHANGED <<g_bExit, g_pstImageInfoEx2, g_pcDataBuf, bIsNormalRun, grabVars,
                 saveVars, deviceVars>>

\* Faulty variant: an early return that forgets to unlock.
SaveGivesUpLocked ==
  /\ MainGoto("check", "keys")
  /\ UNCHANGED <<shared, bIsNormalRun, grabVars, saveVars, deviceVars>>

\* The save functions give up: no data, a pixel type they cannot save, a
\* failed conversion (MV_CODEREADER_SaveImage) or a failed fopen().
SaveGivesUp ==
  /\ MainGoto("check", "keys")
  /\ mutex' = "none"
  /\ UNCHANGED <<g_bExit, g_pstImageInfoEx2, g_pcDataBuf, bIsNormalRun, grabVars,
                 saveVars, deviceVars>>

\* The pixel type of the frame lets the format be saved; RAW and BMP need
\* Mono8, JPEG writes a Jpeg frame as it is and converts any other.
SaveAccepts ==
  /\ MainGoto("check", "write")
  /\ g_pcDataBuf # {}
  /\ \E f \in g_pstImageInfoEx2 :
       /\ format \in {"raw", "bmp"} => f.type = "Mono8"
       /\ picked' = f
  /\ UNCHANGED <<shared, bIsNormalRun, grabVars, format, saved, deviceVars>>

\* fwrite(); the branch of SaveJPEGImage() for Jpeg frames goes straight to the
\* fclose() at the end of the function, past the unlock.
SaveWrite ==
  /\ MainGoto("write", IF format = "jpeg" /\ picked.type = "Jpeg"
                       THEN "keys" ELSE "unlock")
  /\ \E n \in g_pcDataBuf :
       saved' = saved \cup {[info |-> picked, pixels |-> n]}
  /\ UNCHANGED <<shared, bIsNormalRun, grabVars, format, picked, deviceVars>>

\* pthread_mutex_unlock() after a file was written.
SaveUnlock ==
  /\ MainGoto("unlock", "keys")
  /\ mutex' = "none"
  /\ UNCHANGED <<g_bExit, g_pstImageInfoEx2, g_pcDataBuf, bIsNormalRun, grabVars,
                 saveVars, deviceVars>>

------------------------------------------------------------------------------
(* main(): shutdown *)

\* Faulty variant: main does not wait for the thread.
JoinSkipped ==
  /\ MainGoto("join", "stop")
  /\ UNCHANGED <<shared, bIsNormalRun, grabVars, saveVars, deviceVars>>

\* pthread_join(), which cannot fail for this thread.
JoinThread ==
  /\ MainGoto("join", "stop")
  /\ grabPc = "ended"
  /\ UNCHANGED <<shared, bIsNormalRun, grabVars, saveVars, deviceVars>>

\* StopGrabbing().
StopGrabbing ==
  /\ \/ MainGoto("stop", "close") /\ device' = "open" /\ UNCHANGED bIsNormalRun
     \/ /\ MainGoto("stop", "cleanup") /\ UNCHANGED device
        /\ bIsNormalRun' = FALSE
  /\ UNCHANGED <<shared, grabVars, saveVars, handle, destroyFailed>>

\* CloseDevice().
CloseDevice ==
  /\ \/ MainGoto("close", "destroy") /\ device' = "created" /\ UNCHANGED bIsNormalRun
     \/ /\ MainGoto("close", "cleanup") /\ UNCHANGED device
        /\ bIsNormalRun' = FALSE
  /\ UNCHANGED <<shared, grabVars, saveVars, handle, destroyFailed>>

\* DestroyHandle(); handle is only cleared when it succeeds.
DestroyHandle ==
  /\ \/ /\ MainGoto("destroy", "cleanup") /\ device' = "none" /\ handle' = FALSE
        /\ UNCHANGED <<bIsNormalRun, destroyFailed>>
     \/ /\ MainGoto("destroy", "cleanup") /\ UNCHANGED <<device, handle>>
        /\ bIsNormalRun' = FALSE /\ destroyFailed' = TRUE
  /\ UNCHANGED <<shared, grabVars, saveVars>>

\* Faulty variant: a handle that is left over is only closed.
CleanUpClosesOnly ==
  /\ MainGoto("cleanup", "deinit")
  /\ handle' = FALSE
  /\ device' = IF handle THEN "created" ELSE device
  /\ UNCHANGED <<shared, bIsNormalRun, grabVars, saveVars, destroyFailed>>

\* A handle that is left over is closed and destroyed, and the results of both
\* calls are ignored.
CleanUpHandle ==
  /\ MainGoto("cleanup", "deinit")
  /\ \/ ~handle /\ UNCHANGED deviceVars
     \/ /\ handle /\ handle' = FALSE
        /\ \/ device' = "none" /\ destroyFailed' = FALSE
           \/ device' \in {device, "created"} /\ destroyFailed' = TRUE
  /\ UNCHANGED <<shared, bIsNormalRun, grabVars, saveVars>>

\* DeInitResources(), and PressEnterToExit() after an abnormal run.
DeInitResources ==
  /\ MainGoto("deinit", IF bIsNormalRun THEN "exited" ELSE "confirm")
  /\ g_pcDataBuf' = {} /\ g_pstImageInfoEx2' = {}
  /\ UNCHANGED <<g_bExit, mutex, bIsNormalRun, grabVars, saveVars, deviceVars>>

\* The user presses Enter in PressEnterToExit().
Confirm ==
  /\ MainGoto("confirm", "exited")
  /\ g_bExit' = TRUE
  /\ UNCHANGED <<g_pstImageInfoEx2, g_pcDataBuf, mutex, bIsNormalRun, grabVars,
                 saveVars, deviceVars>>

------------------------------------------------------------------------------
(* GrabImageThread() *)

GrabGoto(from, to) ==
  /\ grabPc = from /\ grabPc' = to
  /\ UNCHANGED <<g_bExit, bIsNormalRun, mainPc, saveVars, deviceVars>>

\* Faulty variant: g_bExit is not looked at.
GrabTestForever ==
  /\ GrabGoto("test", "wait")
  /\ UNCHANGED <<g_pstImageInfoEx2, g_pcDataBuf, mutex, frame>>

\* if (g_bExit) break.
GrabTest ==
  /\ GrabGoto("test", IF g_bExit THEN "ended" ELSE "wait")
  /\ UNCHANGED <<g_pstImageInfoEx2, g_pcDataBuf, mutex, frame>>

\* GetOneFrameTimeoutEx2(): a new frame, or none within a second.
GrabFrame ==
  /\ \/ /\ GrabGoto("wait", "lock")
        /\ frame.id < MaxFrames
        /\ \E t \in PixelTypes, fits \in BOOLEAN :
             frame' = [id |-> frame.id + 1, type |-> t, fits |-> fits]
     \/ GrabGoto("wait", "test") /\ UNCHANGED frame
  /\ UNCHANGED <<g_pstImageInfoEx2, g_pcDataBuf, mutex>>

\* Faulty variant: the result of a try-lock is ignored.
GrabLockIgnored ==
  /\ GrabGoto("lock", "info")
  /\ mutex' = "grab"
  /\ UNCHANGED <<g_pstImageInfoEx2, g_pcDataBuf, frame>>

GrabLock ==
  /\ GrabGoto("lock", "info")
  /\ mutex = "none" /\ mutex' = "grab"
  /\ UNCHANGED <<g_pstImageInfoEx2, g_pcDataBuf, frame>>

\* The info is copied whatever the length of the frame ...
GrabCopyInfo ==
  /\ GrabGoto("info", "data")
  /\ g_pstImageInfoEx2' = IF g_pstImageInfoEx2 = {} THEN {} ELSE {frame}
  /\ UNCHANGED <<g_pcDataBuf, mutex, frame>>

\* ... and the pixels only when they fit.
GrabCopyData ==
  /\ GrabGoto("data", "unlock")
  /\ g_pcDataBuf' = IF g_pcDataBuf # {} /\ frame.fits THEN {frame.id} ELSE g_pcDataBuf
  /\ UNCHANGED <<g_pstImageInfoEx2, mutex, frame>>

\* Faulty variant: the thread keeps the mutex.
GrabUnlockForgotten ==
  /\ GrabGoto("unlock", "test")
  /\ UNCHANGED <<g_pstImageInfoEx2, g_pcDataBuf, mutex, frame>>

GrabUnlock ==
  /\ GrabGoto("unlock", "test")
  /\ mutex' = "none"
  /\ UNCHANGED <<g_pstImageInfoEx2, g_pcDataBuf, frame>>

------------------------------------------------------------------------------

Startup == \/ Enumerate \/ CreateHandle \/ OpenDevice \/ InitResource
           \/ SetTriggerMode \/ StartGrabbing \/ CreateThread

Save == SaveLock \/ SaveGivesUp \/ SaveAccepts \/ SaveWrite \/ SaveUnlock

Shutdown == \/ JoinThread \/ StopGrabbing \/ CloseDevice \/ DestroyHandle
            \/ CleanUpHandle \/ DeInitResources

Main == Startup \/ FlushLine \/ Save \/ Shutdown

Grab == \/ GrabTest \/ GrabFrame \/ GrabLock \/ GrabCopyInfo \/ GrabCopyData
        \/ GrabUnlock

User == PressEnter \/ Confirm \/ \E f \in Formats : PressKey(f)

Next == Main \/ Grab \/ User

\* Both threads run while they can; the user may stop pressing keys.
Fairness == WF_vars(Main) /\ WF_vars(Grab)

Spec == Init /\ [][Next]_vars /\ Fairness

------------------------------------------------------------------------------
(* Correctness *)

\* Every variable of the model has its type.
TypeOK ==
  /\ g_bExit \in BOOLEAN /\ bIsNormalRun \in BOOLEAN
  /\ g_pstImageInfoEx2 \subseteq Frames /\ g_pcDataBuf \subseteq 0..MaxFrames
  /\ mutex \in {"main", "grab", "none"}
  /\ handle \in BOOLEAN /\ destroyFailed \in BOOLEAN
  /\ device \in {"none", "created", "open", "grabbing"}
  /\ mainPc \in MainPcs /\ grabPc \in GrabPcs
  /\ format \in Formats /\ picked \in Frames /\ frame \in Frames
  /\ saved \subseteq [info : Frames, pixels : 0..MaxFrames]

\* No file mixes two frames: the pixels written belong to the info they were
\* saved by, unless that frame was too long to be copied at all.
SavedFramesWhole == \A s \in saved : s.info.fits => s.pixels = s.info.id

\* While GrabImageThread() runs, the buffers it copies into are allocated and
\* the device it reads from is open: both are released only after the join.
ThreadOutlived ==
  grabPc \notin {"none", "ended"} =>
    g_pcDataBuf # {} /\ g_pstImageInfoEx2 # {} /\ device = "grabbing"

\* However start-up or shutdown failed, the program ends with its buffers
\* freed, no thread running, and the handle destroyed or refused by the SDK.
ReleasedAtExit ==
  mainPc \in {"confirm", "exited"} =>
    /\ g_pcDataBuf = {} /\ g_pstImageInfoEx2 = {}
    /\ grabPc \in {"none", "ended"}
    /\ ~handle /\ (device = "none" \/ destroyFailed)

\* Control points of main() while GrabImageThread() may run.
Serving == {"flush", "keys", "lock", "check", "write", "unlock", "join"}

\* Who holds the mutex; after a JPEG save main() may hold it anywhere.
MutexInv ==
  /\ mutex = "grab" <=> grabPc \in {"info", "data", "unlock"}
  /\ mainPc \in {"check", "write", "unlock"} => mutex = "main"

\* The last frame is stored whole, except between the two copies.
FrameInv ==
  /\ \A f \in g_pstImageInfoEx2, n \in g_pcDataBuf :
       grabPc # "data" /\ f.fits => n = f.id
  /\ grabPc = "data" => g_pstImageInfoEx2 = {frame}
  /\ mainPc = "write" => picked \in g_pstImageInfoEx2

\* What has been acquired at each control point of main().
ResourceInv ==
  /\ grabPc \notin {"none", "ended"} => mainPc \in Serving
  /\ mainPc \in Serving \cup {"thread", "stop"} => device = "grabbing"
  /\ mainPc \in Serving \cup {"trigger", "start", "thread"} =>
       g_pcDataBuf # {} /\ g_pstImageInfoEx2 # {}
  /\ mainPc \in Serving \cup {"open", "resources", "trigger", "start", "thread",
                            "stop", "close", "destroy"} => handle
  /\ mainPc \in {"deinit", "confirm", "exited"} => ~handle
  /\ mainPc \in {"confirm", "exited"} => g_pcDataBuf = {} /\ g_pstImageInfoEx2 = {}
  /\ ~handle => device = "none" \/ destroyFailed

\* The inductive invariant behind the three above.
IInv == TypeOK /\ MutexInv /\ FrameInv /\ ResourceInv /\ SavedFramesWhole

\* "Press Enter to exit." (lines 348-353): after Enter the program comes to its
\* end, or, when the shutdown failed, asks for Enter once more.
EnterExits == g_bExit ~> mainPc \in {"confirm", "exited"}

\* A key press is served: the save ends and the next key can be read.
KeyServed == mainPc = "lock" ~> mainPc = "keys"

-----------------------------------------------------------------------------
(* Proofs, for every set of pixel types and any number of frames: IInv is   *)
(* inductive, and the safety properties follow from it.                     *)

USE DEF vars, shared, grabVars, saveVars, deviceVars

\* What a step of the grab thread leaves alone.
LEMMA GrabLeaves ==
  ASSUME Grab
  PROVE  UNCHANGED <<g_bExit, bIsNormalRun, mainPc, format, picked, saved, handle,
                     device, destroyFailed>>
BY DEF Grab, GrabTest, GrabFrame, GrabLock, GrabCopyInfo, GrabCopyData,
       GrabUnlock, GrabGoto

\* Every step keeps every variable in its type.
LEMMA TypeNext ==
  ASSUME IInv, Next
  PROVE  TypeOK'
<1>0. TypeOK
  BY DEF IInv
<1> USE <1>0, ViewerAssumption DEF TypeOK, MainPcs, MainGoto
<1>1. CASE Startup
  <2>1. ZeroFrame \in Frames
    BY DEF ZeroFrame, Frames
  <2>2. CASE InitResource
    <3>1. g_pstImageInfoEx2' \subseteq Frames /\ g_pcDataBuf' \subseteq 0..MaxFrames
      <4>1. \/ g_pcDataBuf' = {0} /\ g_pstImageInfoEx2' = {ZeroFrame}
            \/ UNCHANGED <<g_pcDataBuf, g_pstImageInfoEx2>>
        BY <2>2 DEF InitResource
      <4>2. {0} \subseteq 0..MaxFrames /\ {ZeroFrame} \subseteq Frames
        BY <2>1
      <4> QED
        BY <4>1, <4>2
    <3>2. mutex' \in {"main", "grab", "none"} /\ mainPc' \in MainPcs
      BY <2>2 DEF InitResource
    <3>3. UNCHANGED <<g_bExit, bIsNormalRun, grabPc, frame, format, picked, saved,
                      handle, device, destroyFailed>>
      BY <2>2 DEF InitResource
    <3> QED
      BY <3>1, <3>2, <3>3
  <2>3. CASE Enumerate \/ SetTriggerMode
    BY <2>3 DEF Enumerate, SetTriggerMode
  <2>4. CASE CreateHandle \/ OpenDevice \/ StartGrabbing \/ CreateThread
    <3>1. /\ mainPc' \in MainPcs /\ grabPc' \in GrabPcs
          /\ device' \in {"none", "created", "open", "grabbing"}
      BY <2>4 DEF CreateHandle, OpenDevice, StartGrabbing, CreateThread, GrabPcs
    <3>2. handle' \in BOOLEAN
      BY <2>4 DEF CreateHandle, OpenDevice, StartGrabbing, CreateThread
    <3>3. UNCHANGED <<shared, bIsNormalRun, frame, saveVars, destroyFailed>>
      BY <2>4 DEF CreateHandle, OpenDevice, StartGrabbing, CreateThread
    <3> QED
      BY <3>1, <3>2, <3>3
  <2> QED
    BY <1>1, <2>2, <2>3, <2>4 DEF Startup
<1>2. CASE FlushLine \/ PressEnter \/ Confirm
  BY <1>2 DEF FlushLine, PressEnter, Confirm
<1>3. ASSUME NEW f \in Formats, PressKey(f)
      PROVE  TypeOK'
  BY <1>3 DEF PressKey
<1>4. CASE Save
  <2>1. CASE SaveWrite
    <3>1. saved' \subseteq [info : Frames, pixels : 0..MaxFrames]
      BY <2>1 DEF SaveWrite
    <3> QED
      BY <2>1, <3>1 DEF SaveWrite
  <2>2. CASE SaveAccepts
    BY <2>2 DEF SaveAccepts
  <2>3. CASE SaveLock \/ SaveGivesUp \/ SaveUnlock
    BY <2>3 DEF SaveLock, SaveGivesUp, SaveUnlock
  <2> QED
    BY <1>4, <2>1, <2>2, <2>3 DEF Save
<1>5. CASE Shutdown
  BY <1>5 DEF Shutdown, JoinThread, StopGrabbing, CloseDevice, DestroyHandle,
     CleanUpHandle, DeInitResources
<1>6. CASE GrabFrame
  <2>1. frame' \in Frames
    BY <1>6 DEF GrabFrame, Frames
  <2> QED
    BY <1>6, <2>1 DEF GrabFrame, GrabGoto, GrabPcs
<1>7. CASE GrabTest \/ GrabLock \/ GrabUnlock
  BY <1>7 DEF GrabTest, GrabLock, GrabUnlock, GrabGoto, GrabPcs
<1>8. CASE GrabCopyInfo \/ GrabCopyData
  <2>1. frame.id \in 0..MaxFrames
    BY DEF Frames
  <2> QED
    BY <1>8, <2>1 DEF GrabCopyInfo, GrabCopyData, GrabGoto, GrabPcs
<1> QED
  BY <1>1, <1>2, <1>3, <1>4, <1>5, <1>6, <1>7, <1>8 DEF Next, Main, Grab, User

\* Each thread holds the mutex only where MutexInv says.
LEMMA MutexNext ==
  ASSUME IInv, Next
  PROVE  MutexInv'
<1> USE DEF MutexInv, MainGoto
<1>0. MutexInv /\ ResourceInv
  BY DEF IInv
<1>1. CASE Grab
  BY <1>0, <1>1, GrabLeaves DEF Grab, GrabTest, GrabFrame, GrabLock, GrabCopyInfo,
     GrabCopyData, GrabUnlock, GrabGoto
<1>2. CASE Startup
  BY <1>0, <1>2 DEF Startup, Enumerate, CreateHandle, OpenDevice, InitResource,
     SetTriggerMode, StartGrabbing, CreateThread, ResourceInv, Serving
<1>3. CASE Save
  BY <1>0, <1>3 DEF Save, SaveLock, SaveGivesUp, SaveAccepts, SaveWrite, SaveUnlock
<1>4. CASE Shutdown
  BY <1>0, <1>4 DEF Shutdown, JoinThread, StopGrabbing, CloseDevice, DestroyHandle,
     CleanUpHandle, DeInitResources
<1>5. CASE FlushLine \/ User
  BY <1>0, <1>5 DEF FlushLine, User, PressEnter, Confirm, PressKey
<1> QED
  BY <1>1, <1>2, <1>3, <1>4, <1>5 DEF Next, Main

\* Info and pixels stay of one frame, under the mutex.
LEMMA FrameNext ==
  ASSUME IInv, Next
  PROVE  FrameInv'
<1> USE DEF FrameInv, MainGoto
<1>0. TypeOK /\ MutexInv /\ FrameInv /\ ResourceInv
  BY DEF IInv
<1>1. CASE Grab
  <2>1. UNCHANGED <<mainPc, picked>>
    BY <1>1, GrabLeaves
  <2>2. CASE GrabCopyInfo
    <3>1. g_pstImageInfoEx2 # {} /\ mainPc # "write"
      BY <1>0, <2>2 DEF GrabCopyInfo, GrabGoto, MutexInv, ResourceInv
    <3> QED
      BY <1>0, <2>1, <2>2, <3>1 DEF GrabCopyInfo, GrabGoto
  <2>3. CASE GrabCopyData
    BY <1>0, <2>1, <2>3 DEF GrabCopyData, GrabGoto
  <2>4. CASE GrabTest \/ GrabFrame \/ GrabLock \/ GrabUnlock
    BY <1>0, <2>1, <2>4 DEF GrabTest, GrabFrame, GrabLock, GrabUnlock, GrabGoto
  <2> QED
    BY <1>1, <2>2, <2>3, <2>4 DEF Grab
<1>2. CASE Startup
  BY <1>0, <1>2 DEF Startup, Enumerate, CreateHandle, OpenDevice, InitResource,
     SetTriggerMode, StartGrabbing, CreateThread, ResourceInv, Serving, ZeroFrame
<1>3. CASE Save
  BY <1>0, <1>3 DEF Save, SaveLock, SaveGivesUp, SaveAccepts, SaveWrite, SaveUnlock
<1>4. CASE Shutdown
  BY <1>0, <1>4 DEF Shutdown, JoinThread, StopGrabbing, CloseDevice, DestroyHandle,
     CleanUpHandle, DeInitResources, ResourceInv, Serving
<1>5. CASE FlushLine \/ User
  BY <1>0, <1>5 DEF FlushLine, User, PressEnter, Confirm, PressKey
<1> QED
  BY <1>1, <1>2, <1>3, <1>4, <1>5 DEF Next, Main

\* Resources are acquired and released in the order of main().
LEMMA ResourceNext ==
  ASSUME IInv, Next
  PROVE  ResourceInv'
<1> USE DEF ResourceInv, MainGoto, Serving
<1>0. TypeOK /\ ResourceInv
  BY DEF IInv
<1>1. CASE Grab
  <2>1. UNCHANGED <<mainPc, handle, device, destroyFailed>>
    BY <1>1, GrabLeaves
  <2>2. /\ g_pcDataBuf' = {} <=> g_pcDataBuf = {}
        /\ g_pstImageInfoEx2' = {} <=> g_pstImageInfoEx2 = {}
        /\ grabPc \notin {"none", "ended"}
    BY <1>1 DEF Grab, GrabTest, GrabFrame, GrabLock, GrabCopyInfo, GrabCopyData,
       GrabUnlock, GrabGoto
  <2> QED
    BY <1>0, <2>1, <2>2
<1>2. CASE Startup
  BY <1>0, <1>2 DEF Startup, Enumerate, CreateHandle, OpenDevice, InitResource,
     SetTriggerMode, StartGrabbing, CreateThread
<1>3. CASE Save
  BY <1>0, <1>3 DEF Save, SaveLock, SaveGivesUp, SaveAccepts, SaveWrite, SaveUnlock
<1>4. CASE Shutdown
  BY <1>0, <1>4 DEF Shutdown, JoinThread, StopGrabbing, CloseDevice, DestroyHandle,
     CleanUpHandle, DeInitResources
<1>5. CASE FlushLine \/ User
  BY <1>0, <1>5 DEF FlushLine, User, PressEnter, Confirm, PressKey
<1> QED
  BY <1>1, <1>2, <1>3, <1>4, <1>5 DEF Next, Main

\* A file is written from the stored frame while main() holds the mutex.
LEMMA SavedNext ==
  ASSUME IInv, Next
  PROVE  SavedFramesWhole'
<1> USE DEF SavedFramesWhole, MainGoto
<1>0. MutexInv /\ FrameInv /\ SavedFramesWhole
  BY DEF IInv
<1>1. CASE SaveWrite
  <2>1. grabPc # "data" /\ picked \in g_pstImageInfoEx2
    BY <1>0, <1>1 DEF SaveWrite, MutexInv, FrameInv
  <2> QED
    BY <1>0, <1>1, <2>1 DEF SaveWrite, FrameInv
<1>2. CASE Grab
  BY <1>0, <1>2, GrabLeaves
<1>3. CASE ~SaveWrite /\ ~Grab
  BY <1>0, <1>3 DEF Next, Main, User, Startup, Save, Shutdown, Enumerate,
     CreateHandle, OpenDevice, InitResource, SetTriggerMode, StartGrabbing,
     CreateThread, FlushLine, PressKey, PressEnter, Confirm, SaveLock, SaveGivesUp,
     SaveAccepts, SaveUnlock, JoinThread, StopGrabbing, CloseDevice,
     DestroyHandle, CleanUpHandle, DeInitResources
<1> QED
  BY <1>1, <1>2, <1>3

\* IInv holds in every reachable state, whichever SDK calls fail and however
\* key presses and frames interleave.
THEOREM ViewerInvariant == Spec => []IInv
<1>1. Init => IInv
  <2> SUFFICES ASSUME Init PROVE IInv
    OBVIOUS
  <2>1. ZeroFrame \in Frames
    BY ViewerAssumption DEF ZeroFrame, Frames
  <2>2. TypeOK
    BY <2>1 DEF Init, TypeOK, MainPcs, GrabPcs, Formats
  <2>3. MutexInv /\ FrameInv /\ SavedFramesWhole
    BY DEF Init, MutexInv, FrameInv, SavedFramesWhole
  <2>4. ResourceInv
    BY DEF Init, ResourceInv, Serving
  <2> QED
    BY <2>2, <2>3, <2>4 DEF IInv
<1>2. IInv /\ [Next]_vars => IInv'
  <2> SUFFICES ASSUME IInv, [Next]_vars PROVE IInv'
    OBVIOUS
  <2>1. CASE Next
    BY <2>1, TypeNext, MutexNext, FrameNext, ResourceNext, SavedNext DEF IInv
  <2>2. CASE UNCHANGED vars
    BY <2>2 DEF IInv, TypeOK, MutexInv, FrameInv, ResourceInv, SavedFramesWhole
  <2> QED
    BY <2>1, <2>2
<1> QED
  BY <1>1, <1>2, PTL DEF Spec

\* No saved file mixes the info of one frame with the pixels of another, as
\* long as the frame fits into the buffer.
THEOREM FilesWhole == Spec => []SavedFramesWhole
<1>1. IInv => SavedFramesWhole
  BY DEF IInv
<1> QED
  BY <1>1, ViewerInvariant, PTL

\* The buffers and the open device outlive the grab thread.
THEOREM ThreadSafe == Spec => []ThreadOutlived
<1>1. IInv => ThreadOutlived
  BY DEF IInv, ResourceInv, ThreadOutlived
<1> QED
  BY <1>1, ViewerInvariant, PTL

\* Whatever failed, nothing is left behind at the end but what the SDK refuses.
THEOREM Released == Spec => []ReleasedAtExit
<1>1. IInv => ReleasedAtExit
  BY DEF IInv, ResourceInv, ReleasedAtExit, Serving
<1> QED
  BY <1>1, ViewerInvariant, PTL
=============================================================================
