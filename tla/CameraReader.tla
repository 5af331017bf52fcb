----------------------------- MODULE CameraReader -----------------------------
(***************************************************************************)
(* Class Camera of broadcastTest.cpp (the same text as CameraLib.cpp), as  *)
(* the server uses it: main() calls init() and ignores its result, then    *)
(* the thread looping() calls getImage() and getString() in any order; if  *)
(* the server object cannot be constructed, main() calls DeInitResources() *)
(* twice and returns.  These calls never overlap, so one program counter   *)
(* is enough; the mutex of the class is never contended.                   *)
(*                                                                         *)
(* The camera SDK is external.  Each of its calls may fail; it refuses a   *)
(* null handle, parameters and grabbing on a device that is not open, and  *)
(* frames from a device that is not grabbing.                              *)
(***************************************************************************)
EXTENDS Naturals, Sequences

CONSTANTS
  MaxFrames,  \* bound: frames the camera delivers
  MaxCodes,   \* most codes in one frame, at most MAX_BCR_INFO
  CountMod,   \* 2^8: BcrInfo.count is a u_int8_t
  MaxLen      \* MAX_BCR_LEN

ASSUME CameraAssumption ==
  /\ MaxFrames \in Nat
  /\ MaxCodes \in Nat
  /\ CountMod \in Nat /\ MaxCodes < CountMod
  /\ MaxLen \in Nat \ {0}

\* A code is what matters of it: the length of its text "index:code:score;".
Lengths == 1..(MaxLen + 1)

CodeLists == UNION {[1..n -> Lengths] : n \in 0..MaxCodes}

\* A frame: its number, whether it is shorter than g_nMaxImageSize, its codes.
Frames == [id : 0..MaxFrames, fits : BOOLEAN, codes : CodeLists]
ZeroFrame == [id |-> 0, fits |-> TRUE, codes |-> <<>>]

VARIABLES
  handle,             \* TRUE when it is not NULL
  g_pstImageInfoEx2,  \* {} for NULL, or {n}: the info of frame n
  g_pcDataBuf,        \* {} for NULL, or {n}: the pixels of frame n
  pc,
  caller,             \* where DeInitResources() returns to
  initResult,         \* 0, 1, or 2 before init() has returned
  stImageInfo,        \* the frame GetOneFrameTimeoutEx2() delivered last
  picture,            \* {} for an empty Mat, or the decoded info and pixels
  count, drawn,       \* BcrInfo.count, and the indices of the polygons drawn
  nth,                \* i, the loop variable of getString()
  temp_string,        \* the entries in the buffer: index and length
  total_length,
  device,             \* the SDK's state: "none", "created", "open", "grabbing"
  refused,            \* history: DeInitResources() was last refused a live handle
  lost                \* history: entries whose malloc() failed

buffers == <<g_pstImageInfoEx2, g_pcDataBuf>>
mainVars == <<caller, initResult>>
sdkVars == <<handle, device, refused>>
imageVars == <<picture, count, drawn>>
stringVars == <<nth, temp_string, total_length, lost>>
readerVars == <<buffers, pc, mainVars, stImageInfo, imageVars, stringVars, sdkVars>>

InitPcs == {"enumerate", "create", "open", "size", "allocData", "allocInfo",
            "trigger", "start"}
ServePcs == {"idle", "waitImage", "copyInfo", "copyData", "decode", "getData",
             "draw", "waitString", "append", "result"}
DeInitPcs == {"stop", "close", "destroy", "free"}
Pcs == InitPcs \cup {"construct"} \cup ServePcs \cup DeInitPcs
       \cup {"aborted", "exited"}

Entries == [index : Nat, len : Nat]

ReaderInit ==
  /\ handle = FALSE /\ device = "none" /\ refused = FALSE
  /\ g_pstImageInfoEx2 = {} /\ g_pcDataBuf = {}
  /\ pc = "enumerate"
  /\ caller = "init" /\ initResult = 2
  /\ stImageInfo = ZeroFrame
  /\ picture = {} /\ count = 0 /\ drawn = {}
  /\ nth = 0 /\ temp_string = <<>> /\ total_length = 0 /\ lost = {}

Goto(from, to) == pc = from /\ pc' = to

------------------------------------------------------------------------------
(* init() and InitResource() *)

InitReturns(from, result) == Goto(from, "construct") /\ initResult' = result

OnlySdk == UNCHANGED <<buffers, caller, stImageInfo, imageVars, stringVars, refused>>
OnlyBuffers == UNCHANGED <<initResult, stImageInfo, imageVars, stringVars, sdkVars>>

\* EnumDevices().  The list may be empty; CreateHandle() then fails.
EnumDevices ==
  /\ \/ Goto("enumerate", "create") /\ UNCHANGED initResult
     \/ InitReturns("enumerate", 0)
  /\ OnlySdk /\ UNCHANGED <<handle, device>>

CreateHandle ==
  /\ \/ /\ Goto("create", "open") /\ UNCHANGED initResult
        /\ handle' = TRUE /\ device' = "created"
     \/ InitReturns("create", 0) /\ UNCHANGED <<handle, device>>
  /\ OnlySdk

\* A failure of OpenDevice() is printed, and init() goes on.
OpenDevice ==
  /\ Goto("open", "size")
  /\ device' \in {"created", "open"}
  /\ OnlySdk /\ UNCHANGED <<handle, initResult>>

\* throw inside InitResource(): the handler calls DeInitResources().
Throw(from) == Goto(from, "stop") /\ caller' = "init"

\* GetIntValue(): the payload size, or else width and height.
GetSize ==
  /\ \/ device = "open" /\ Goto("size", "allocData") /\ UNCHANGED caller
     \/ Throw("size")
  /\ OnlyBuffers /\ UNCHANGED buffers

AllocData ==
  /\ \/ Goto("allocData", "allocInfo") /\ g_pcDataBuf' = {0} /\ UNCHANGED caller
     \/ Throw("allocData") /\ UNCHANGED g_pcDataBuf
  /\ OnlyBuffers /\ UNCHANGED g_pstImageInfoEx2

\* Faulty variant: a failed malloc() is not noticed.
AllocInfoUnchecked ==
  /\ Goto("allocInfo", "trigger") /\ g_pstImageInfoEx2' \in {{}, {0}}
  /\ OnlyBuffers /\ UNCHANGED <<g_pcDataBuf, caller>>

AllocInfo ==
  /\ \/ /\ Goto("allocInfo", "trigger") /\ g_pstImageInfoEx2' = {0}
        /\ UNCHANGED caller
     \/ Throw("allocInfo") /\ UNCHANGED g_pstImageInfoEx2
  /\ OnlyBuffers /\ UNCHANGED g_pcDataBuf

SetTriggerMode ==
  /\ \/ device = "open" /\ Goto("trigger", "start") /\ UNCHANGED initResult
     \/ InitReturns("trigger", 0)
  /\ OnlySdk /\ UNCHANGED <<handle, device>>

\* Faulty variant: like that of OpenDevice(), a failure is only printed.
StartGrabbingUnreturned ==
  /\ InitReturns("start", 1)
  /\ device' \in {device, "grabbing"}
  /\ OnlySdk /\ UNCHANGED handle

StartGrabbing ==
  /\ \/ device = "open" /\ device' = "grabbing" /\ InitReturns("start", 1)
     \/ InitReturns("start", 0) /\ UNCHANGED device
  /\ OnlySdk /\ UNCHANGED handle

\* main() waits five seconds and constructs the server; init_asio() may throw
\* into the handler of main(), before any thread exists.
Construct ==
  /\ \/ Goto("construct", "idle") /\ UNCHANGED caller
     \/ Goto("construct", "stop") /\ caller' = "catch"
  /\ OnlyBuffers /\ UNCHANGED buffers

------------------------------------------------------------------------------
(* DeInitResources() *)

\* Where DeInitResources() returns to: into init(), which returns 0; to the
\* second call at the end of main(); or out of the program.
DeInitReturns(from) ==
  /\ \/ caller = "init" /\ Goto(from, "construct") /\ initResult' = 0
        /\ UNCHANGED caller
     \/ caller = "catch" /\ Goto(from, "stop") /\ caller' = "end"
        /\ UNCHANGED initResult
     \/ caller = "end" /\ Goto(from, "exited")
        /\ UNCHANGED <<caller, initResult>>

\* An SDK call fails, as it must for a null handle: an early return.
Refuse(from) ==
  /\ DeInitReturns(from)
  /\ refused' = handle
  /\ UNCHANGED <<handle, device>>

OnlyRelease == UNCHANGED <<stImageInfo, imageVars, stringVars>>

\* Whether the SDK accepts to stop a device that is not grabbing is open.
StopGrabbing ==
  /\ \/ /\ handle /\ Goto("stop", "close")
        /\ device' = IF device = "grabbing" THEN "open" ELSE device
        /\ UNCHANGED <<handle, refused, mainVars>>
     \/ Refuse("stop")
  /\ OnlyRelease /\ UNCHANGED buffers

CloseDevice ==
  /\ \/ Goto("close", "destroy") /\ device' = "created"
        /\ UNCHANGED <<handle, refused, mainVars>>
     \/ Refuse("close")
  /\ OnlyRelease /\ UNCHANGED buffers

\* Faulty variant: the handle is cleared whether or not the call succeeded.
DestroyHandleCleared ==
  /\ \/ Goto("destroy", "free") /\ device' = "none" /\ handle' = FALSE
        /\ refused' = FALSE /\ UNCHANGED mainVars
     \/ DeInitReturns("destroy") /\ handle' = FALSE /\ UNCHANGED <<device, refused>>
  /\ OnlyRelease /\ UNCHANGED buffers

DestroyHandle ==
  /\ \/ Goto("destroy", "free") /\ device' = "none" /\ handle' = FALSE
        /\ refused' = FALSE /\ UNCHANGED mainVars
     \/ Refuse("destroy")
  /\ OnlyRelease /\ UNCHANGED buffers

\* Both buffers are freed and set to NULL; the mutex is destroyed.
FreeBuffers ==
  /\ DeInitReturns("free")
  /\ g_pcDataBuf' = {} /\ g_pstImageInfoEx2' = {}
  /\ OnlyRelease /\ UNCHANGED sdkVars

------------------------------------------------------------------------------
(* getImage() *)

OnlyServing == UNCHANGED <<mainVars, sdkVars>>

CallGetImage ==
  /\ Goto("idle", "waitImage")
  /\ picture' = {} /\ drawn' = {}
  /\ OnlyServing /\ UNCHANGED <<buffers, stImageInfo, count, stringVars>>

\* GetOneFrameTimeoutEx2() delivers a new frame, or fails within a second.
NextFrame ==
  /\ device = "grabbing" /\ stImageInfo.id < MaxFrames
  /\ \E fits \in BOOLEAN, codes \in CodeLists :
       stImageInfo' = [id |-> stImageInfo.id + 1, fits |-> fits, codes |-> codes]

\* On a failure an empty Mat is returned.
WaitImage ==
  /\ \/ Goto("waitImage", "copyInfo") /\ NextFrame
     \/ Goto("waitImage", "idle") /\ UNCHANGED stImageInfo
  /\ OnlyServing /\ UNCHANGED <<buffers, imageVars, stringVars>>

\* The info is copied if there is a place for it, whatever the frame's length.
CopyInfo ==
  /\ Goto("copyInfo", "copyData")
  /\ g_pstImageInfoEx2' = {stImageInfo.id : x \in g_pstImageInfoEx2}
  /\ OnlyServing /\ UNCHANGED <<g_pcDataBuf, stImageInfo, imageVars, stringVars>>

\* Faulty variant: the pixels of the previous frame stay.
CopyDataMissing ==
  /\ Goto("copyData", "decode")
  /\ OnlyServing /\ UNCHANGED <<buffers, stImageInfo, imageVars, stringVars>>

\* The pixels are copied if there is a place for them and they fit.
CopyData ==
  /\ Goto("copyData", "decode")
  /\ g_pcDataBuf' = IF stImageInfo.fits THEN {stImageInfo.id : x \in g_pcDataBuf}
                    ELSE g_pcDataBuf
  /\ OnlyServing
  /\ UNCHANGED <<g_pstImageInfoEx2, stImageInfo, imageVars, stringVars>>

\* imdecode() and resize(): the latter throws when the pixels are no image,
\* and nothing catches it.
Decode ==
  /\ \/ /\ Goto("decode", "getData")
        /\ picture' = {[info |-> n, pixels |-> p] :
                         n \in g_pstImageInfoEx2, p \in g_pcDataBuf}
     \/ Goto("decode", "aborted") /\ UNCHANGED picture
  /\ OnlyServing
  /\ UNCHANGED <<buffers, stImageInfo, count, drawn, stringVars>>

\* getData(): BI.count is assigned in the loop over the codes only, so it is
\* whatever the stack held when there is none. A malloc() that fails for a code is
\* followed by snprintf() to the NULL it returned.
GetData ==
  /\ LET n == Len(stImageInfo.codes) IN
       /\ \/ Goto("getData", "draw")
          \/ Goto("getData", "aborted") /\ n > 0
       /\ count' \in IF n = 0 THEN 0..(CountMod - 1) ELSE {n % CountMod}
  /\ OnlyServing
  /\ UNCHANGED <<buffers, stImageInfo, picture, drawn, stringVars>>

\* A polygon is drawn for each of the first BI.count elements of BI.info.
Draw ==
  /\ Goto("draw", "idle")
  /\ drawn' = {k \in 0..(CountMod - 1) : k < count}
  /\ OnlyServing
  /\ UNCHANGED <<buffers, stImageInfo, picture, count, stringVars>>

------------------------------------------------------------------------------
(* getString() *)

CallGetString ==
  /\ Goto("idle", "waitString")
  /\ nth' = 0 /\ temp_string' = <<>> /\ total_length' = 0 /\ lost' = {}
  /\ OnlyServing /\ UNCHANGED <<buffers, stImageInfo, imageVars>>

\* Without a frame the result is the empty string.
WaitString ==
  /\ \/ Goto("waitString", "append") /\ NextFrame
     \/ Goto("waitString", "result") /\ UNCHANGED stImageInfo
  /\ OnlyServing /\ UNCHANGED <<buffers, imageVars, stringVars>>

OnlyString == OnlyServing /\ UNCHANGED <<buffers, stImageInfo, imageVars>>

More == nth < Len(stImageInfo.codes)
Piece == stImageInfo.codes[nth + 1]

\* Faulty variant: the length is counted before the entry is known to fit.
SkipTruncatedCounted ==
  /\ Goto("append", "append") /\ More
  /\ Piece >= MaxLen
  /\ nth' = nth + 1 /\ total_length' = total_length + Piece
  /\ OnlyString /\ UNCHANGED <<temp_string, lost>>

\* snprintf() would have truncated the entry: it is left out.
SkipTruncated ==
  /\ Goto("append", "append") /\ More
  /\ Piece >= MaxLen
  /\ nth' = nth + 1
  /\ OnlyString /\ UNCHANGED <<temp_string, total_length, lost>>

\* malloc() failed for the entry: it is left out.
SkipUnallocated ==
  /\ Goto("append", "append") /\ More
  /\ lost' = lost \cup {nth}
  /\ nth' = nth + 1
  /\ OnlyString /\ UNCHANGED <<temp_string, total_length>>

\* strcat().  Nothing checks the room in temp_string; what happens when there
\* is not enough is undefined, and the model goes no further.
AppendEntry ==
  /\ More /\ Piece < MaxLen
  /\ \/ /\ Goto("append", "append") /\ total_length + Piece < MaxLen
        /\ temp_string' = Append(temp_string, [index |-> nth, len |-> Piece])
        /\ total_length' = total_length + Piece
        /\ nth' = nth + 1
     \/ /\ Goto("append", "aborted") /\ total_length + Piece >= MaxLen
        /\ UNCHANGED <<temp_string, total_length, nth>>
  /\ OnlyString /\ UNCHANGED lost

\* The loop ends.
AllAppended ==
  /\ Goto("append", "result") /\ ~More
  /\ OnlyString /\ UNCHANGED stringVars

\* The result is allocated and copied; a NULL makes std::string throw.
ReturnString ==
  /\ Goto("result", "idle") \/ Goto("result", "aborted")
  /\ OnlyString /\ UNCHANGED stringVars

------------------------------------------------------------------------------

Startup == \/ EnumDevices \/ CreateHandle \/ OpenDevice \/ GetSize \/ AllocData
           \/ AllocInfo \/ SetTriggerMode \/ StartGrabbing \/ Construct

DeInit == StopGrabbing \/ CloseDevice \/ DestroyHandle \/ FreeBuffers

GetImage == \/ CallGetImage \/ WaitImage \/ CopyInfo \/ CopyData \/ Decode
            \/ GetData \/ Draw

GetString == \/ CallGetString \/ WaitString \/ SkipTruncated \/ SkipUnallocated
             \/ AppendEntry \/ AllAppended \/ ReturnString

ReaderNext == Startup \/ DeInit \/ GetImage \/ GetString

ReaderSpec == ReaderInit /\ [][ReaderNext]_readerVars

------------------------------------------------------------------------------
(* Correctness *)

\* Every variable of the model has its type.
ReaderTypeOK ==
  /\ handle \in BOOLEAN /\ refused \in BOOLEAN
  /\ device \in {"none", "created", "open", "grabbing"}
  /\ g_pstImageInfoEx2 \subseteq 0..MaxFrames /\ g_pcDataBuf \subseteq 0..MaxFrames
  /\ pc \in Pcs /\ caller \in {"init", "catch", "end"} /\ initResult \in 0..2
  /\ stImageInfo \in Frames
  /\ picture \subseteq [info : 0..MaxFrames, pixels : 0..MaxFrames]
  /\ count \in 0..(CountMod - 1) /\ drawn \subseteq 0..(CountMod - 1)
  /\ nth \in 0..MaxCodes /\ temp_string \in Seq(Entries)
  /\ total_length \in 0..(MaxLen - 1) /\ lost \subseteq 0..MaxCodes

\* init() returned 1 only with the device grabbing and both buffers in place,
\* although it does not return when OpenDevice() fails.
StartedMeansGrabbing ==
  initResult = 1 /\ pc \notin DeInitPcs \cup {"exited"} =>
    device = "grabbing" /\ g_pcDataBuf # {} /\ g_pstImageInfoEx2 # {}

\* getImage() reads nFrameLen through g_pstImageInfoEx2 without the test for
\* NULL it made before: both buffers exist whenever a frame was delivered.
FramesHaveBuffers ==
  pc \in {"copyInfo", "copyData", "decode"} =>
    g_pstImageInfoEx2 # {} /\ g_pcDataBuf # {}

\* The picture that is sent shows the frame its polygons belong to, unless
\* that frame was too long to be copied.
PictureOfFrame ==
  \A p \in picture : p.info = stImageInfo.id /\ stImageInfo.fits
                       => p.pixels = p.info

\* When the program returns, handle and buffers are released, unless the SDK
\* refused to release the handle.
ReleasedAtReturn ==
  pc = "exited" /\ ~refused =>
    device = "none" /\ ~handle /\ g_pcDataBuf = {} /\ g_pstImageInfoEx2 = {}

\* temp_string lists the codes before the nth whose text fits and could be
\* allocated, with their lengths, once and in their order.
ListsAll ==
  /\ \A k \in DOMAIN temp_string :
       temp_string[k].len = stImageInfo.codes[temp_string[k].index + 1]
  /\ \A j, k \in DOMAIN temp_string : j < k => temp_string[j].index < temp_string[k].index
  /\ {temp_string[k].index : k \in DOMAIN temp_string} =
       {k \in 0..MaxCodes : k < nth /\ stImageInfo.codes[k + 1] < MaxLen /\ k \notin lost}

\* length[k]: the length of the first k entries.
TextLength(entries) ==
  LET length[k \in 0..Len(entries)] ==
        IF k = 0 THEN 0 ELSE length[k - 1] + entries[k].len
  IN  length[Len(entries)]

\* The result of getString() is empty, or it lists every code that could be
\* listed, once and in order; and total_length, by which it is allocated, is
\* the length of its text.
ResultExact ==
  pc = "result" =>
    /\ nth \in {0, Len(stImageInfo.codes)} /\ ListsAll
    /\ total_length = TextLength(temp_string)

\* How far getString() has come.
StringInv ==
  /\ pc = "waitString" => nth = 0 /\ temp_string = <<>> /\ total_length = 0 /\ lost = {}
  /\ pc \in {"append", "result"} =>
       /\ nth <= Len(stImageInfo.codes) /\ ListsAll
       /\ total_length = TextLength(temp_string) /\ \A k \in lost : k < nth
  /\ ResultExact

\* What each control point says of the device and the buffers.
ReaderControl ==
  /\ device = "none" <=> ~handle
  /\ pc \in {"open", "size", "allocData", "allocInfo", "trigger", "start"} => handle
  /\ pc \in {"allocData", "allocInfo", "trigger", "start"} => device = "open"
  /\ pc \in InitPcs => initResult = 2 /\ device # "grabbing"
  /\ pc \in {"allocInfo", "trigger", "start"} => g_pcDataBuf # {}
  /\ pc \in {"trigger", "start"} => g_pstImageInfoEx2 # {}
  /\ device = "grabbing" => g_pcDataBuf # {} /\ g_pstImageInfoEx2 # {}
  /\ pc \in {"copyInfo", "copyData", "decode"} => device = "grabbing"
  /\ pc \in {"close", "destroy"} => handle
  /\ pc \in {"close", "destroy", "stop"} /\ caller = "init" => initResult = 2
  /\ pc = "free" => ~handle /\ ~refused
  /\ pc = "close" => device # "grabbing"
  /\ pc \in DeInitPcs /\ caller = "init" => device # "grabbing" /\ initResult = 2

\* DeInitResources() frees the buffers only after it cleared the handle, and
\* never again gets that far: without a handle there is no buffer left.
HandleOwnsBuffers ==
  ~handle /\ pc # "free" => g_pcDataBuf = {} /\ g_pstImageInfoEx2 = {}

\* A handle outlives the last DeInitResources() only if the SDK refused.
RefusalInv == pc = "exited" => (handle <=> refused)

\* What the steps of getImage() have copied so far; nothing is newer than the
\* frame that was delivered last.
PictureInv ==
  /\ \A p \in picture : p.info <= stImageInfo.id
  /\ \A n \in g_pstImageInfoEx2 : n <= stImageInfo.id
  /\ pc \in {"copyData", "decode"} => g_pstImageInfoEx2 = {stImageInfo.id}
  /\ pc = "decode" /\ stImageInfo.fits => g_pcDataBuf = {stImageInfo.id}
  /\ pc \in {"waitImage", "copyInfo", "copyData", "decode"} => picture = {}

\* The inductive invariant behind the safety properties of the life cycle.
ReaderInv ==
  /\ ReaderTypeOK /\ ReaderControl /\ HandleOwnsBuffers /\ RefusalInv /\ PictureInv
  /\ StartedMeansGrabbing /\ PictureOfFrame /\ StringInv

\* "Keep track of the number of elements in the array" (line 64): BcrInfo.count
\* is the number of codes of the frame that getImage() draws polygons for.
CountKeepsTrack == pc = "draw" => count = Len(stImageInfo.codes)

=============================================================================
