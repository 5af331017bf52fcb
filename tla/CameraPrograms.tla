--------------------------- MODULE CameraPrograms ---------------------------
(***************************************************************************)
(* The other forms of class Camera: the programs Camera.cpp and            *)
(* Camera2.cpp, whose main() has the object on its stack, so that pointers *)
(* without an initialiser hold anything; and CameraLib.cpp, whose user     *)
(* calls init(), then getImage() if it returned 1, then DeInitResources(), *)
(* as camera.py does, and may begin again.                                 *)
(*                                                                         *)
(* The calls are sequential; every call of the SDK and malloc() may fail.  *)
(* The SDK refuses a null handle, a device that is not open, and frames    *)
(* from one that is not grabbing.                                          *)
(***************************************************************************)
EXTENDS Integers, Sequences

CONSTANTS
  MaxRounds,   \* bound: how often a library user begins
  MaxSide      \* bound: width and height of a frame

ASSUME BoundsAssumption ==
  MaxRounds \in Nat \ {0} /\ MaxSide \in Nat \ {0}

VARIABLES
  program,   \* "Camera", "Camera2" or "CameraLib"
  pc,
  caller,    \* who called DeInitResources(): "InitResource" or "main"
  nRet,      \* what init() returned: 1, 0, or 2 before it returns
  handle, device,
  g_pcDataBuf, g_pstImageInfoEx2,  \* "garbage", "null", "memory"
  mutex,     \* "garbage", "ready", "destroyed"
  written,   \* <<size of the Mat, offsets bufferToImage() wrote to>>
  rounds,
  failed,    \* history: a call of start-up failed
  refused,   \* history: the SDK refused a release it was asked for in order
  lost       \* history: a handle or a buffer was overwritten

buffers == <<g_pcDataBuf, g_pstImageInfoEx2, mutex>>
sdk == <<handle, device>>
history == <<rounds, failed, refused, lost>>
camerasVars == <<program, pc, caller, nRet, sdk, buffers, written, history>>

StartUp ==
  <<"enumerate", "create", "open", "size", "allocData", "allocInfo", "trigger">>
  \o (IF program = "Camera2" THEN <<>> ELSE <<"start">>) \o <<"ready">>
Following(step) ==
  LET i == CHOOSE j \in 1 .. Len(StartUp) : StartUp[j] = step IN StartUp[i + 1]

Pointers == {"garbage", "null"}

\* Camera cam1: the members without an initialiser are indeterminate.
CamerasInit ==
  /\ program \in {"Camera", "Camera2", "CameraLib"}
  /\ pc = "enumerate" /\ caller = "main" /\ nRet = 2
  /\ handle = FALSE /\ device = "none"
  /\ g_pcDataBuf \in Pointers /\ g_pstImageInfoEx2 \in Pointers /\ mutex = "garbage"
  /\ written = <<0, {}>>
  /\ rounds = 1 /\ failed = FALSE /\ refused = FALSE /\ lost = FALSE

------------------------------------------------------------------------------
(* init() *)

\* Camera.cpp: every failure but that of OpenDevice() ends init() with 0.
AfterFailure_Camera ==
  IF pc = "open" THEN pc' = "size" /\ UNCHANGED nRet
                 ELSE pc' = "ready" /\ nRet' = 0

\* Camera2.cpp: init() returns nothing, and goes on after every failure.
AfterFailure_Camera2 ==
  pc' = Following(pc) /\ nRet' = IF pc' = "ready" THEN 1 ELSE nRet

\* CameraLib.cpp: as in Camera.cpp.
AfterFailure_CameraLib == AfterFailure_Camera

AfterFailure ==
  \/ program = "Camera" /\ AfterFailure_Camera
  \/ program = "Camera2" /\ AfterFailure_Camera2
  \/ program = "CameraLib" /\ AfterFailure_CameraLib

\* EnumDevices(), CreateHandle(), OpenDevice(), SetEnumValue(), StartGrabbing().
Called == {"enumerate", "create", "open", "trigger", "start"}

Succeeds ==
  /\ pc \in Called
  /\ pc = "open" => handle
  /\ pc \in {"trigger", "start"} => device = "open"
  /\ handle' = (handle \/ pc = "create")
  /\ lost' = (lost \/ (pc = "create" /\ handle))
  /\ device' = CASE pc = "create" -> "created" [] pc = "open" -> "open"
                 [] pc = "start" -> "grabbing" [] OTHER -> device
  /\ pc' = Following(pc)
  /\ nRet' = IF pc' = "ready" THEN 1 ELSE nRet
  /\ UNCHANGED <<caller, buffers, written, rounds, failed, refused>>

Fails ==
  /\ pc \in Called
  /\ AfterFailure
  /\ failed' = TRUE
  /\ UNCHANGED <<caller, sdk, buffers, written, rounds, refused, lost>>

\* InitResource(): the size of a frame, memory for one, memory for its info.
InitResource_Camera ==
  \/ pc = "size" /\ device = "open" /\ pc' = "allocData"
     /\ UNCHANGED <<buffers, lost>>
  \/ pc = "allocData" /\ pc' = "allocInfo" /\ g_pcDataBuf' = "memory"
     /\ lost' = (lost \/ g_pcDataBuf = "memory")
     /\ UNCHANGED <<g_pstImageInfoEx2, mutex>>
  \/ pc = "allocInfo" /\ pc' = "trigger" /\ g_pstImageInfoEx2' = "memory"
     /\ lost' = (lost \/ g_pstImageInfoEx2 = "memory")
     /\ mutex' = "ready" /\ UNCHANGED g_pcDataBuf

\* The same text in the other two files.
InitResource_Camera2 == InitResource_Camera
InitResource_CameraLib == InitResource_Camera

InitResource ==
  /\ \/ program = "Camera" /\ InitResource_Camera
     \/ program = "Camera2" /\ InitResource_Camera2
     \/ program = "CameraLib" /\ InitResource_CameraLib
  /\ UNCHANGED <<caller, nRet, sdk, written, rounds, failed, refused>>

\* throw nRet: the handler calls DeInitResources(), then init() sees the error.
\* A malloc() that failed left NULL in the pointer.
InitResourceThrows ==
  /\ pc \in {"size", "allocData", "allocInfo"}
  /\ g_pcDataBuf' = IF pc = "allocData" THEN "null" ELSE g_pcDataBuf
  /\ g_pstImageInfoEx2' = IF pc = "allocInfo" THEN "null" ELSE g_pstImageInfoEx2
  /\ lost' = (lost \/ (pc = "allocData" /\ g_pcDataBuf = "memory")
                   \/ (pc = "allocInfo" /\ g_pstImageInfoEx2 = "memory"))
  /\ caller' = "InitResource" /\ failed' = TRUE
  /\ pc' = IF program = "Camera2" THEN "free" ELSE "stop"
  /\ UNCHANGED <<nRet, sdk, mutex, written, rounds, refused>>

------------------------------------------------------------------------------
(* DeInitResources() *)

\* Where the caller goes on: init() after the failure of InitResource(), or the end.
Return ==
  IF caller = "InitResource"
    THEN /\ caller' = "main"
         /\ IF program = "Camera2" THEN pc' = "trigger" /\ UNCHANGED nRet
                                   ELSE pc' = "ready" /\ nRet' = 0
    ELSE pc' = "end" /\ UNCHANGED <<caller, nRet>>

ReleaseNeeds == [stop |-> "grabbing", close |-> "open", destroy |-> "created"]
ReleaseLeaves == [stop |-> "open", close |-> "created", destroy |-> "none"]

ReleaseNext == [stop |-> "close", close |-> "destroy", destroy |-> "free"]

Released_Camera ==
  /\ pc \in DOMAIN ReleaseNeeds
  /\ device = ReleaseNeeds[pc]
  /\ device' = ReleaseLeaves[pc] /\ pc' = ReleaseNext[pc]
  /\ handle' = (pc # "destroy")
  /\ UNCHANGED <<caller, nRet, buffers, written, history>>

\* A release that is refused ends DeInitResources() at once.
Refused_Camera ==
  /\ pc \in DOMAIN ReleaseNeeds
  /\ refused' = (refused \/ device = ReleaseNeeds[pc])
  /\ Return
  /\ UNCHANGED <<sdk, buffers, written, rounds, failed, lost>>

\* CameraLib.cpp: the same text.
Released_CameraLib == Released_Camera
Refused_CameraLib == Refused_Camera

\* free() of a pointer that was never assigned ends the program.
Free ==
  /\ pc = "free"
  /\ mutex' = "destroyed"
  /\ IF "garbage" \in {g_pcDataBuf, g_pstImageInfoEx2}
       THEN pc' = "aborted" /\ UNCHANGED <<caller, nRet, g_pcDataBuf, g_pstImageInfoEx2>>
       ELSE g_pcDataBuf' = "null" /\ g_pstImageInfoEx2' = "null" /\ Return
  /\ UNCHANGED <<sdk, written, history>>

\* Camera2.cpp: DeInitResources() is no more than that.
DeInitResources_Camera2 == program = "Camera2" /\ Free

DeInitResources ==
  \/ program = "Camera" /\ (Released_Camera \/ Refused_Camera \/ Free)
  \/ program = "CameraLib" /\ (Released_CameraLib \/ Refused_CameraLib \/ Free)
  \/ DeInitResources_Camera2

------------------------------------------------------------------------------
(* getImage() and its callers *)

\* Camera2.cpp: each image starts the grabbing, which fails when it runs.
getImageStarts_Camera2 ==
  /\ program = "Camera2" /\ pc = "ready" /\ device = "open" /\ device' = "grabbing"
  /\ UNCHANGED <<pc, caller, nRet, handle, buffers, written, history>>

\* A frame arrived: it is copied under the mutex, and the copy decoded.
getImage_Camera ==
  /\ pc = "ready" /\ device = "grabbing" /\ pc' = "frame"
  /\ UNCHANGED <<caller, nRet, sdk, buffers, written, history>>

getImage_CameraLib == nRet = 1 /\ getImage_Camera

\* image.at<cv::Vec3b>(y, x)[0] of a Mat of width x height bytes.
PixelOffset(width, y, x) == y * width + 3 * x

\* The caller passes the height for the width and the width for the height.
bufferToImage(width, height) ==
  <<width * height,
    {PixelOffset(width, y, x) : y \in 0 .. height - 1, x \in 0 .. width - 1}>>

getImage_Camera2 ==
  /\ pc = "ready" /\ device = "grabbing" /\ pc' = "frame"
  /\ \E nWidth, nHeight \in 1 .. MaxSide : written' = bufferToImage(nHeight, nWidth)
  /\ UNCHANGED <<caller, nRet, sdk, buffers, history>>

getImage ==
  \/ program = "Camera" /\ getImage_Camera
  \/ program = "Camera2" /\ getImage_Camera2
  \/ program = "CameraLib" /\ getImage_CameraLib

\* main() ignores what init() returned, and calls DeInitResources() in any case.
main_Camera ==
  /\ pc \in {"ready", "frame"} /\ caller' = "main" /\ pc' = "stop"
  /\ UNCHANGED <<nRet, sdk, buffers, written, history>>

main_Camera2 ==
  /\ pc \in {"ready", "frame"} /\ caller' = "main" /\ pc' = "free"
  /\ UNCHANGED <<nRet, sdk, buffers, written, history>>

\* camera.py closes after a failure of init_camera() too; another image may be taken.
user_CameraLib ==
  \/ main_Camera
  \/ /\ pc = "frame" /\ pc' = "ready"
     /\ UNCHANGED <<caller, nRet, sdk, buffers, written, history>>
  \/ /\ pc = "end" /\ rounds < MaxRounds /\ rounds' = rounds + 1
     /\ pc' = "enumerate" /\ nRet' = 2
     /\ UNCHANGED <<caller, sdk, buffers, written, failed, refused, lost>>

main ==
  \/ program = "Camera" /\ main_Camera
  \/ program = "Camera2" /\ main_Camera2
  \/ program = "CameraLib" /\ user_CameraLib

CamerasNext ==
  /\ \/ Succeeds \/ Fails \/ InitResource \/ InitResourceThrows
     \/ DeInitResources \/ getImageStarts_Camera2 \/ getImage \/ main
  /\ UNCHANGED program

CamerasSpec == CamerasInit /\ [][CamerasNext]_camerasVars
------------------------------------------------------------------------------
CamerasTypeOK ==
  /\ caller \in {"InitResource", "main"} /\ nRet \in 0 .. 2
  /\ device \in {"none", "created", "open", "grabbing"}
  /\ g_pcDataBuf \in Pointers \cup {"memory"}
  /\ g_pstImageInfoEx2 \in Pointers \cup {"memory"}
  /\ mutex \in {"garbage", "ready", "destroyed"}

\* A frame is copied to buffers that exist, under a mutex that was made, and
\* DeInitResources() frees no pointer that was never assigned, though main()
\* ignores every error: a frame needs a whole start-up, and so do the releases
\* before the free(). Camera2.cpp tests neither, so there a start-up that
\* failed is the exception.
SafeUse ==
  (program = "Camera2" /\ failed) \/
    /\ pc = "frame" => {g_pcDataBuf, g_pstImageInfoEx2} = {"memory"} /\ mutex = "ready"
    /\ pc = "free" => mutex = "ready"
    /\ pc # "aborted"

\* When init() returned 1 and the SDK refused no release, the program ends with
\* the device, the handle and both buffers released. Camera2.cpp never closes
\* the device, and is held only to its buffers.
ReleasedAtExit ==
  (pc = "end" /\ nRet = 1 /\ ~refused /\ ~failed) =>
    /\ g_pcDataBuf = "null" /\ g_pstImageInfoEx2 = "null" /\ mutex = "destroyed"
    /\ program # "Camera2" => ~handle /\ device = "none"

\* A library user who begins again loses a handle or a buffer only if a call
\* failed before: DeInitResources() after a whole start-up leaves nothing that
\* the next init() overwrites.
LostOnlyAfterFailure == lost => failed \/ refused

\* Camera2.cpp:238 "Set the pixel value in the Mat object": the bytes that
\* bufferToImage() writes are those of the Mat, each pixel once.
PixelsInPlace == written[2] = 0 .. written[1] - 1
==============================================================================
