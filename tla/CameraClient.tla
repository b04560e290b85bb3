---------------------------- MODULE CameraClient ----------------------------
(***************************************************************************)
(* The C program's camera client (PiVisClient.c), the image provider that  *)
(* takes its frames (PiVisImageProvider.c) and ALGOCTRL's getPixelData,    *)
(* reading the stream that Python/PiVisServer.py sends.                    *)
(*                                                                         *)
(* One tick of the scheduler runs the client, ALGOCTRL and the provider,   *)
(* in this order (main.c:14-22).  The client's recv has no timeout: the    *)
(* tick waits in it until a byte arrives or the connection fails.          *)
(*                                                                         *)
(* The stream of a connection repeats frames of HeaderSize bytes, which    *)
(* the camera sends as two writes, and ImageSize bytes.  A byte is its     *)
(* position in the stream, modulo Period, so that bytes of different       *)
(* frames and offsets differ.  Bytes arrive one at a time, up to Window    *)
(* unread ones: recv meets every way to cut the stream.                    *)
(***************************************************************************)
EXTENDS Integers

CONSTANTS HeaderSize,   \* CAMERA_BUF_HEADER_SIZE
          ImageSize,    \* COLOR_IMAGE_SIZE
          FrameMod,     \* frames told apart
          Window        \* bytes that may have arrived and not been read

ASSUME SizesAssumption == /\ HeaderSize \in Nat \ {0}
                          /\ ImageSize \in Nat /\ ImageSize >= HeaderSize
ASSUME FrameModAssumption == FrameMod \in Nat \ {0}
ASSUME WindowAssumption == Window \in Nat /\ Window >= HeaderSize

VARIABLES turn,           \* the callback the scheduler runs next, or "exited"
          currState,      \* the client's state, by its name in the table
          headerIndex,    \* header bytes received
          bufferIndex,    \* image bytes received, or copied by the provider
          buffer,         \* the client's image
          recBuffer,      \* the provider's copy
          recBufferSize,  \* its size, 0 when the provider has no frame
          taken,          \* number of the last frame ALGOCTRL copied
          link,           \* the connection, as the client's socket sees it
          readPos,        \* the byte of the stream to be read next
          avail,          \* bytes that have arrived and are not read
          trouble         \* history: headers cut by recv, failures, restarts

clientVars == <<currState, headerIndex, bufferIndex, buffer>>
providerVars == <<recBuffer, recBufferSize>>
streamVars == <<link, readPos, avail>>
vars == <<turn, clientVars, providerVars, taken, streamVars, trouble>>

FrameSize == HeaderSize + ImageSize
Period == FrameMod * FrameSize
Zero == -1                                  \* a byte no stream holds
Pixels == 0..(ImageSize - 1)
Image == [Pixels -> {Zero} \cup 0..(Period - 1)]

FrameOf(byte) == byte \div FrameSize
OffsetOf(byte) == byte % FrameSize
Minimum(a, b) == IF a < b THEN a ELSE b

(* The image of one frame of the stream, all of it and nothing else.       *)
Whole(image) == \A i \in Pixels : /\ image[i] # Zero
                                  /\ OffsetOf(image[i]) = HeaderSize + i
                                  /\ FrameOf(image[i]) = FrameOf(image[0])

Init == /\ turn = "client"
        /\ currState = "SERVICE_DISCOVERY"
        /\ headerIndex = 0
        /\ bufferIndex = 0
        /\ buffer = [i \in Pixels |-> Zero]
        /\ recBuffer = [i \in Pixels |-> Zero]
        /\ recBufferSize = 0
        /\ taken = FrameMod - 1
        /\ link = "none"
        /\ readPos = 0
        /\ avail = 0
        /\ trouble = {}
-----------------------------------------------------------------------------
(* PiVisClient.c: run(), one action per state function and outcome         *)

(* The process ends when its question cannot be sent: exit(1).             *)
ServiceDiscoveryFails ==
  /\ turn = "client"
  /\ currState = "SERVICE_DISCOVERY"
  /\ turn' = "exited"
  /\ UNCHANGED <<clientVars, providerVars, taken, streamVars, trouble>>

(* Ask for the camera and wait a second for its address.                   *)
ServiceDiscovery ==
  /\ turn = "client"
  /\ currState = "SERVICE_DISCOVERY"
  /\ currState' \in {"SERVICE_DISCOVERY", "DISCONNECTED"}
  /\ turn' = "algo"
  /\ UNCHANGED <<headerIndex, bufferIndex, buffer, providerVars, taken, streamVars, trouble>>

StateDisconnected ==
  /\ turn = "client"
  /\ currState = "DISCONNECTED"
  /\ currState' = "CONNECTING"
  /\ turn' = "algo"
  /\ UNCHANGED <<headerIndex, bufferIndex, buffer, providerVars, taken, streamVars, trouble>>

(* A new connection starts with the next frame the camera sends.           *)
ConnectSucceeds ==
  /\ turn = "client"
  /\ currState = "CONNECTING"
  /\ currState' = "CONNECTED"
  /\ link' = "open"
  /\ avail' = 0
  /\ \E f \in 0..(FrameMod - 1) : /\ link = "none" => f = 0
                                  /\ readPos' = f * FrameSize
  /\ turn' = "algo"
  /\ UNCHANGED <<headerIndex, bufferIndex, buffer, providerVars, taken, trouble>>

ConnectFails ==
  /\ turn = "client"
  /\ currState = "CONNECTING"
  /\ turn' = "algo"
  /\ UNCHANGED <<clientVars, providerVars, taken, streamVars, trouble>>

(* The stream moves on by the n bytes recv returned.                       *)
Consume(n) == /\ readPos' = (readPos + n) % Period
              /\ avail' = avail - n
              /\ UNCHANGED link

(* The image after a header recv of n bytes.  Those that camBufHeader has  *)
(* no room for are undefined behaviour: in the build of the Makefile       *)
(* (gcc without -O) `buffer' follows it and takes them.                    *)
Spilled(n) == [i \in Pixels |->
                 IF HeaderSize + i < headerIndex + n
                   THEN (readPos + HeaderSize - headerIndex + i) % Period
                   ELSE buffer[i]]

(* A plausible wrong guard: a full header is received once more.           *)
HeaderMissingToo == headerIndex <= HeaderSize
HeaderMissing == headerIndex < HeaderSize

(* The header is asked for whole, wherever headerIndex stands.             *)
ReceiveHeader ==
  /\ turn = "client"
  /\ currState = "CONNECTED"
  /\ HeaderMissing
  /\ avail > 0
  /\ LET n == Minimum(HeaderSize, avail)
     IN  /\ headerIndex' = headerIndex + n /\ buffer' = Spilled(n) /\ Consume(n)
         /\ trouble' = IF n < HeaderSize THEN trouble \cup {"split"} ELSE trouble
  /\ turn' = "algo"
  /\ UNCHANGED <<currState, bufferIndex, providerVars, taken>>

(* The image so far, with the next n bytes of the stream at bufferIndex.   *)
Filled(n) == [i \in Pixels |->
                IF i \in bufferIndex..(bufferIndex + n - 1)
                  THEN (readPos + i - bufferIndex) % Period
                  ELSE buffer[i]]

(* Plausible wrong ends of an image: one of the indexes stays.             *)
EndImageKeepIndex == bufferIndex' = ImageSize /\ headerIndex' = 0
EndImageKeepHeader == bufferIndex' = 0 /\ UNCHANGED headerIndex
EndImage == bufferIndex' = 0 /\ headerIndex' = 0

ReceiveImage ==
  /\ turn = "client"
  /\ currState = "CONNECTED"
  /\ ~HeaderMissing
  /\ avail > 0
  /\ LET n == Minimum(ImageSize - bufferIndex, avail)
     IN  /\ buffer' = Filled(n)
         /\ Consume(n)
         /\ IF bufferIndex + n = ImageSize
              THEN EndImage /\ currState' = "PROCESSING_FRAME"
              ELSE bufferIndex' = bufferIndex + n /\ UNCHANGED <<headerIndex, currState>>
  /\ turn' = "algo"
  /\ UNCHANGED <<providerVars, taken, trouble>>

(* recv returns 0 for ever once the camera has closed the connection.      *)
ReceiveEndOfStream ==
  /\ turn = "client"
  /\ currState = "CONNECTED"
  /\ avail = 0 /\ link = "closed"
  /\ turn' = "algo"
  /\ UNCHANGED <<clientVars, providerVars, taken, streamVars, trouble>>

(* A plausible wrong start-over: the bytes received so far stay.           *)
KeepImage == UNCHANGED buffer
BlankImage == buffer' = [i \in Pixels |-> Zero]

(* recv returns -1 once, then 0.  It is ignored in a header; in an image   *)
(* the client starts over, with headerIndex and bufferIndex as they are.   *)
ReceiveError ==
  /\ turn = "client"
  /\ currState = "CONNECTED"
  /\ avail = 0 /\ link = "reset"
  /\ link' = "closed"
  /\ IF HeaderMissing
       THEN UNCHANGED <<currState, buffer, trouble>>
       ELSE /\ currState' = "SERVICE_DISCOVERY"
            /\ BlankImage
            /\ trouble' = trouble \cup {"restart"}
  /\ turn' = "algo"
  /\ UNCHANGED <<headerIndex, bufferIndex, providerVars, taken, readPos, avail>>

(* A plausible wrong return: the index stays at the image's end.           *)
ReturnKeepIndex == UNCHANGED bufferIndex
Return == bufferIndex' = 0

(* Go back to receiving once the provider has copied the frame.            *)
ProcessingFrame ==
  /\ turn = "client"
  /\ currState = "PROCESSING_FRAME"
  /\ IF bufferIndex = ImageSize
       THEN Return /\ currState' = "CONNECTED"
       ELSE UNCHANGED <<bufferIndex, currState>>
  /\ turn' = "algo"
  /\ UNCHANGED <<headerIndex, buffer, providerVars, taken, streamVars, trouble>>
-----------------------------------------------------------------------------
(* ALGOCTRL's IMGPROVIDER_getPixelData(recBuffer, COLOR_IMAGE_SIZE)        *)
GetPixelData ==
  /\ turn = "algo"
  /\ taken' = IF recBufferSize # 0 THEN FrameOf(recBuffer[0]) ELSE taken
  /\ turn' = "provider"
  /\ UNCHANGED <<clientVars, providerVars, streamVars, trouble>>

(* A plausible wrong provider: an empty-handed tick keeps the old frame.   *)
KeepFrame == UNCHANGED recBufferSize
DropFrame == recBufferSize' = 0

(* The provider's run(), with CLIENT_receive, which copies ImageSize bytes *)
(* from bufferIndex on.                                                    *)
ImageProvider ==
  /\ turn = "provider"
  /\ IF currState = "PROCESSING_FRAME"
       THEN /\ recBuffer' = buffer
            /\ recBufferSize' = ImageSize
            /\ bufferIndex' = bufferIndex + ImageSize
       ELSE DropFrame /\ UNCHANGED <<recBuffer, bufferIndex>>
  /\ turn' = "client"
  /\ UNCHANGED <<currState, headerIndex, buffer, taken, streamVars, trouble>>
-----------------------------------------------------------------------------
(* The camera: PiVisServer.send, and the network                           *)

Arrive == /\ link = "open"
          /\ avail < Window
          /\ avail' = avail + 1
          /\ UNCHANGED <<turn, clientVars, providerVars, taken, link, readPos, trouble>>

(* The camera's process ends, or the network gives the connection up.      *)
Fail == /\ link = "open"
        /\ link' \in {"closed", "reset"}
        /\ trouble' = trouble \cup {"failure"}
        /\ UNCHANGED <<turn, clientVars, providerVars, taken, readPos, avail>>
-----------------------------------------------------------------------------
ClientRun == \/ ServiceDiscovery \/ ServiceDiscoveryFails \/ StateDisconnected
             \/ ConnectSucceeds \/ ConnectFails
             \/ ReceiveHeader \/ ReceiveImage \/ ReceiveEndOfStream \/ ReceiveError
             \/ ProcessingFrame

SchedulerStep == ClientRun \/ GetPixelData \/ ImageProvider

Next == SchedulerStep \/ Arrive \/ Fail

(* The scheduler runs its callbacks, the camera goes on sending, and it is *)
(* found and accepts when it is asked for often enough.                    *)
Fairness == /\ WF_vars(SchedulerStep)
            /\ WF_vars(Arrive)
            /\ SF_vars(ServiceDiscovery /\ currState' = "DISCONNECTED")
            /\ SF_vars(ConnectSucceeds)

Spec == Init /\ [][Next]_vars
FairSpec == Spec /\ Fairness
-----------------------------------------------------------------------------
TypeOK ==
  /\ turn \in {"client", "algo", "provider", "exited"}
  /\ currState \in {"SERVICE_DISCOVERY", "DISCONNECTED", "CONNECTING", "CONNECTED",
                    "PROCESSING_FRAME"}
  /\ headerIndex \in 0..(2 * HeaderSize - 1)
  /\ bufferIndex \in 0..ImageSize
  /\ buffer \in Image
  /\ recBuffer \in Image
  /\ recBufferSize \in {0, ImageSize}
  /\ taken \in {FrameOf(Zero)} \cup 0..(FrameMod - 1)
  /\ link \in {"none", "open", "closed", "reset"}
  /\ readPos \in 0..(Period - 1)
  /\ avail \in 0..Window
  /\ trouble \subseteq {"split", "failure", "restart"}

(* CLIENT_receive copies a whole image starting at bufferIndex: it stays   *)
(* inside the buffer because the client reset the index when it entered    *)
(* PROCESSING_FRAME and leaves that state right after the first copy       *)
(* (PiVisClient.c:124-129, :133-140, :221).                                *)
CopyInBounds == turn = "provider" /\ currState = "PROCESSING_FRAME" => bufferIndex = 0

(* A recv for image bytes always asks for some: asking for none would      *)
(* return 0 at once, for ever (PiVisClient.c:112).                         *)
RecvHasRoom == currState = "CONNECTED" => bufferIndex < ImageSize

(* "4 byte data size, 2 byte xSize, 2 byte ySize" (PiVisConstants.h:9):    *)
(* camBufHeader has room for these 8 bytes, and a recv asks for 8 wherever *)
(* headerIndex stands (PiVisClient.c:98-109).  No header runs over before  *)
(* one was cut; then it may, by less than a header, and no byte of an      *)
(* image is there yet for that to overwrite.                               *)
HeaderOverrun ==
  /\ headerIndex > HeaderSize => "split" \in trouble /\ headerIndex < 2 * HeaderSize
  /\ currState = "CONNECTED" /\ headerIndex < HeaderSize => bufferIndex = 0

(* All values are of their types, image bytes are copied and received      *)
(* inside the image's buffer, and a header runs over its own no further    *)
(* than said.                                                              *)
BuffersBounded == TypeOK /\ CopyInBounds /\ RecvHasRoom /\ HeaderOverrun

(* A row of consecutive bytes of the stream, behind a blank beginning.     *)
OnePiece(image) ==
  \E b \in Pixels : \A i \in Pixels :
    image[i] = IF i < b THEN Zero ELSE (image[b] + i - b) % Period

(* What the provider hands out never mixes two connections, however the    *)
(* stream is cut and wherever connections fail: the client starts over     *)
(* with the indexes of an unfinished image, but it blanks what it had of   *)
(* it and goes on with the bytes of the next connection                    *)
(* (PiVisClient.c:98-131).                                                 *)
ImageIsOnePiece == recBufferSize # 0 => OnePiece(recBuffer)

(* What the provider hands out is the image of one frame, without its      *)
(* header and in place, whatever pieces the images arrive in, until a      *)
(* header is cut, or the client starts over: it does that in the middle of *)
(* an image and with the indexes of that (PiVisClient.c:98-131).           *)
FrameIsWhole == recBufferSize # 0 /\ trouble \subseteq {"failure"} => Whole(recBuffer)

(* ALGOCTRL gets every frame of the stream, once and in order, although it *)
(* looks before the provider has run in the same tick and the provider     *)
(* keeps its copy for it until the next one.                               *)
EveryFrameOnce ==
  [][GetPixelData /\ recBufferSize # 0 /\ trouble \subseteq {"failure"}
       => taken' = (taken + 1) % FrameMod]_vars

(* ALGOCTRL gets new frames for ever.  These are the only exceptions:      *)
(* the process ended in the search for a camera; connections are reset for *)
(* ever; or a connection has ended and the client, which takes recv's 0    *)
(* for no bytes, asks it for more for ever (PiVisClient.c:98-131).         *)
AtEndOfStream == currState = "CONNECTED" /\ link = "closed"
FramesKeepComing == \/ \A f \in 0..(FrameMod - 1) : []<>(taken # f)
                    \/ <>(turn = "exited")
                    \/ []<>(link = "reset")
                    \/ <>[]AtEndOfStream
=============================================================================
