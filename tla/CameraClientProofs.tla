------------------------- MODULE CameraClientProofs -------------------------
(***************************************************************************)
(* Proofs about CameraClient, for every size of headers and images.        *)
(* However recv cuts the stream and however connections fail: images are   *)
(* copied and received inside their buffer, a header runs over its own by  *)
(* less than a header and only after one was cut, and no image mixes two   *)
(* connections.  Until a header is cut or the client starts over inside an *)
(* image, ALGOCTRL gets whole frames, once and in order.                   *)
(***************************************************************************)
EXTENDS CameraClient, TLAPS

(* Outside PROCESSING_FRAME an image is not complete.  Inside, the index   *)
(* is reset until the provider has copied, and at the end after that; the  *)
(* client is next and leaves.                                              *)
IndexFollowsTurn ==
  IF currState # "PROCESSING_FRAME" THEN bufferIndex < ImageSize
  ELSE bufferIndex = IF turn = "client" THEN ImageSize ELSE 0

(* A header that is never cut is received in one piece.                    *)
HeaderInOnePiece == "split" \notin trouble => headerIndex \in {0, HeaderSize}

(* No byte of an image comes before its header, not even after the client  *)
(* has started over.                                                       *)
HeaderFirst == currState # "PROCESSING_FRAME" /\ headerIndex < HeaderSize => bufferIndex = 0

BuffersInv == TypeOK /\ IndexFollowsTurn /\ HeaderInOnePiece /\ HeaderFirst

LEMMA BuffersInvSuffices == BuffersInv => BuffersBounded
<1> SUFFICES ASSUME BuffersInv PROVE BuffersBounded
  OBVIOUS
<1>1. CopyInBounds /\ RecvHasRoom
  BY DEF BuffersInv, IndexFollowsTurn, CopyInBounds, RecvHasRoom
<1>2. HeaderOverrun
  BY SizesAssumption DEF BuffersInv, HeaderInOnePiece, HeaderFirst, TypeOK, HeaderOverrun
<1> QED
  BY <1>1, <1>2 DEF BuffersInv, BuffersBounded

(* The sizes that others are made of.                                      *)
LEMMA Sizes ==
  /\ HeaderSize \in Nat \ {0} /\ ImageSize \in Nat \ {0} /\ Window \in Nat \ {0}
  /\ FrameSize \in Nat \ {0} /\ Period \in Nat \ {0}
<1>1. HeaderSize \in Nat \ {0} /\ ImageSize \in Nat \ {0} /\ Window \in Nat \ {0}
  BY SizesAssumption, WindowAssumption
<1>2. FrameSize \in Nat \ {0}
  BY <1>1 DEF FrameSize
<1>3. Period \in Nat \ {0}
  BY <1>2, FrameModAssumption DEF Period
<1> QED
  BY <1>1, <1>2, <1>3

(* Frames and their numbers stay in the period of the stream.              *)
LEMMA FrameStarts ==
  ASSUME NEW f \in 0..(FrameMod - 1)
  PROVE  f * FrameSize \in 0..(Period - 1)
<1>1. FrameMod \in Nat /\ FrameSize \in Nat \ {0}
  BY Sizes, FrameModAssumption
<1>2. (f + 1) * FrameSize <= FrameMod * FrameSize
  BY <1>1
<1>3. (f + 1) * FrameSize = f * FrameSize + FrameSize
  BY <1>1
<1> QED
  BY <1>1, <1>2, <1>3 DEF Period

LEMMA FrameNumbers ==
  ASSUME NEW byte \in 0..(Period - 1)
  PROVE  FrameOf(byte) \in 0..(FrameMod - 1)
<1>1. FrameMod \in Nat /\ FrameSize \in Nat \ {0}
  BY Sizes, FrameModAssumption
<1> DEFINE q == byte \div FrameSize
<1>2. q \in Nat /\ q * FrameSize <= byte
  BY <1>1 DEF Period
<1>3. q < FrameMod
  <2> SUFFICES ASSUME q >= FrameMod PROVE FALSE
    BY <1>1, <1>2
  <2>1. q * FrameSize >= FrameMod * FrameSize
    BY <1>1, <1>2
  <2> QED
    BY <1>1, <1>2, <2>1 DEF Period
<1> QED
  BY <1>1, <1>2, <1>3 DEF FrameOf

LEMMA BuffersInit == Init => BuffersInv
BY Sizes, FrameModAssumption
   DEF Init, BuffersInv, TypeOK, IndexFollowsTurn, HeaderInOnePiece, HeaderFirst, Image, Pixels

(* What a recv writes are bytes of the stream.                             *)
LEMMA ReceivedBytes ==
  ASSUME TypeOK, NEW n \in Nat
  PROVE  /\ (readPos + n) % Period \in 0..(Period - 1)
         /\ Spilled(n) \in Image /\ Filled(n) \in Image
<1>1. \A k \in Int : k % Period \in 0..(Period - 1)
  BY Sizes
<1>2. readPos \in Int /\ headerIndex \in Int /\ bufferIndex \in Int /\ buffer \in Image
  BY Sizes DEF TypeOK
<1>3. \A i \in Pixels : i \in Int
  BY DEF Pixels
<1>4. Spilled(n) \in Image
  BY <1>1, <1>2, <1>3, Sizes DEF Spilled, Image
<1>5. Filled(n) \in Image
  BY <1>1, <1>2, <1>3, Sizes DEF Filled, Image
<1> QED
  BY <1>1, <1>2, <1>4, <1>5

LEMMA BuffersStep == BuffersInv /\ [Next]_vars => BuffersInv'
<1> SUFFICES ASSUME BuffersInv, [Next]_vars
             PROVE  BuffersInv'
  OBVIOUS
<1> USE Sizes DEF BuffersInv, IndexFollowsTurn, HeaderInOnePiece, HeaderFirst
<1>1. CASE \/ ServiceDiscovery \/ ServiceDiscoveryFails \/ StateDisconnected
           \/ ConnectFails \/ ReceiveEndOfStream
  BY <1>1 DEF ServiceDiscovery, ServiceDiscoveryFails, StateDisconnected, ConnectFails, ReceiveEndOfStream,
              TypeOK, clientVars, providerVars, streamVars
<1>2. CASE ConnectSucceeds
  <2>1. readPos' \in 0..(Period - 1)
    BY <1>2, FrameStarts DEF ConnectSucceeds
  <2> QED
    BY <1>2, <2>1 DEF ConnectSucceeds, TypeOK, providerVars
<1>3. CASE ReceiveHeader
  <2> DEFINE n == Minimum(HeaderSize, avail)
  <2>1. n \in 1..HeaderSize /\ n <= avail
    BY <1>3 DEF ReceiveHeader, Minimum, TypeOK
  <2>2. headerIndex' = headerIndex + n /\ buffer' \in Image /\ readPos' \in 0..(Period - 1)
        /\ avail' = avail - n
    BY <1>3, <2>1, ReceivedBytes DEF ReceiveHeader, Consume
  <2>3. trouble' = IF n < HeaderSize THEN trouble \cup {"split"} ELSE trouble
    BY <1>3 DEF ReceiveHeader
  <2>4. TypeOK'
    BY <1>3, <2>1, <2>2, <2>3 DEF ReceiveHeader, HeaderMissing, TypeOK, Consume, providerVars
  <2>5. HeaderInOnePiece'
    BY <1>3, <2>1, <2>2, <2>3 DEF ReceiveHeader, HeaderMissing, TypeOK
  <2>6. IndexFollowsTurn' /\ HeaderFirst'
    BY <1>3, <2>1, <2>2 DEF ReceiveHeader, HeaderMissing, TypeOK
  <2> QED
    BY <2>4, <2>5, <2>6
<1>4. CASE ReceiveImage
  <2> DEFINE n == Minimum(ImageSize - bufferIndex, avail)
  <2>1. n \in Nat \ {0} /\ n <= avail /\ bufferIndex + n <= ImageSize
    BY <1>4 DEF ReceiveImage, Minimum, TypeOK
  <2>2. buffer' \in Image /\ readPos' \in 0..(Period - 1) /\ avail' = avail - n
    BY <1>4, <2>1, ReceivedBytes DEF ReceiveImage, Consume
  <2>3. IF bufferIndex + n = ImageSize
          THEN bufferIndex' = 0 /\ headerIndex' = 0 /\ currState' = "PROCESSING_FRAME"
          ELSE bufferIndex' = bufferIndex + n /\ UNCHANGED <<headerIndex, currState>>
    BY <1>4 DEF ReceiveImage, EndImage
  <2>4. /\ turn' = "algo" /\ currState = "CONNECTED"
        /\ UNCHANGED <<recBuffer, recBufferSize, taken, trouble, link>>
    BY <1>4 DEF ReceiveImage, Consume, providerVars
  <2>5. TypeOK'
    BY <2>1, <2>2, <2>3, <2>4 DEF TypeOK
  <2>6. IndexFollowsTurn' /\ HeaderInOnePiece' /\ HeaderFirst'
    BY <1>4, <2>1, <2>3, <2>4 DEF ReceiveImage, HeaderMissing, TypeOK
  <2> QED
    BY <2>5, <2>6
<1>5. CASE ReceiveError
  <2>1. [i \in Pixels |-> Zero] \in Image
    BY DEF Image
  <2> QED
    BY <1>5, <2>1 DEF ReceiveError, BlankImage, TypeOK, providerVars
<1>6. CASE ProcessingFrame
  BY <1>6 DEF ProcessingFrame, Return, TypeOK, providerVars, streamVars
<1>7. CASE GetPixelData
  <2>1. recBuffer[0] \in {Zero} \cup 0..(Period - 1)
    BY DEF TypeOK, Image, Pixels
  <2>2. FrameOf(recBuffer[0]) \in {FrameOf(Zero)} \cup 0..(FrameMod - 1)
    BY <2>1, FrameNumbers
  <2> QED
    BY <1>7, <2>2 DEF GetPixelData, TypeOK, clientVars, providerVars, streamVars
<1>8. CASE ImageProvider
  BY <1>8 DEF ImageProvider, DropFrame, TypeOK, streamVars
<1>9. CASE Arrive
  BY <1>9 DEF Arrive, TypeOK, clientVars, providerVars
<1>10. CASE Fail
  <2>1. /\ link' \in {"closed", "reset"} /\ trouble' = trouble \cup {"failure"}
        /\ UNCHANGED <<turn, currState, headerIndex, bufferIndex, buffer, recBuffer,
                      recBufferSize, taken, readPos, avail>>
    BY <1>10 DEF Fail, clientVars, providerVars
  <2>2. TypeOK'
    BY <2>1 DEF TypeOK
  <2>3. IndexFollowsTurn' /\ HeaderInOnePiece' /\ HeaderFirst'
    BY <2>1
  <2> QED
    BY <2>2, <2>3
<1>11. CASE UNCHANGED vars
  BY <1>11 DEF vars, TypeOK, clientVars, providerVars, streamVars
<1> QED
  BY <1>1, <1>2, <1>3, <1>4, <1>5, <1>6, <1>7, <1>8, <1>9, <1>10, <1>11
     DEF Next, SchedulerStep, ClientRun

(* Whatever pieces the stream arrives in and wherever connections fail, an *)
(* image is copied and received inside the client's buffer.  A header runs *)
(* over the end of its own buffer only after one was cut, by less than a   *)
(* header, and over no byte that an image has (PiVisClient.c:98-140,       *)
(* :216-227).                                                              *)
THEOREM BuffersStayBounded == Spec => []BuffersBounded
BY BuffersInit, BuffersStep, BuffersInvSuffices, PTL DEF Spec
-----------------------------------------------------------------------------
(* No image mixes two connections.                                         *)

(* A remainder does not see multiples of the period.                       *)
LEMMA Multiples ==
  ASSUME NEW x \in Int, NEW q \in Int
  PROVE  (x + Period * q) % Period = x % Period
<1> DEFINE y == x + Period * q
           m == q + (x \div Period) - (y \div Period)
<1>1. Period \in Nat \ {0} /\ y \in Int /\ m \in Int /\ Period * q \in Int
  BY Sizes
<1>2. /\ x = Period * (x \div Period) + (x % Period)
      /\ y = Period * (y \div Period) + (y % Period)
      /\ x % Period \in 0..(Period - 1) /\ y % Period \in 0..(Period - 1)
  BY <1>1
<1>3. (y % Period) - (x % Period) = Period * m
  BY <1>1, <1>2
<1>4. m < 1 /\ m > -1
  <2>1. m >= 1 => Period * m >= Period
    BY <1>1
  <2>2. m <= -1 => Period * m <= -Period
    BY <1>1
  <2> HIDE DEF m, y
  <2> QED
    BY <1>1, <1>2, <1>3, <2>1, <2>2
<1>5. m = 0 /\ Period * 0 = 0
  BY <1>1, <1>4
<1> HIDE DEF m, y
<1>6. y % Period = x % Period
  BY <1>1, <1>2, <1>3, <1>5
<1> QED
  BY <1>6 DEF y

LEMMA ShiftedRemainder ==
  ASSUME NEW x \in Int, NEW k \in Int
  PROVE  ((x % Period) + k) % Period = (x + k) % Period
<1> DEFINE q == x \div Period
           y == (x % Period) + k
<1>1. Period \in Nat \ {0} /\ q \in Int /\ y \in Int /\ x = Period * q + (x % Period)
  BY Sizes
<1>2. y + Period * q = x + k
  BY <1>1
<1>3. (y + Period * q) % Period = y % Period
  <2> HIDE DEF q, y
  <2> QED
    BY <1>1, Multiples
<1> QED
  BY <1>2, <1>3

(* The byte of the stream that belongs at place i of the image, when the   *)
(* stream goes on at readPos for the place bufferIndex.                    *)
Due(i) == (readPos + i - bufferIndex) % Period

Blank(b) == \A i \in Pixels : i < b => buffer[i] = Zero
Filling == \E b \in 0..bufferIndex :
             /\ Blank(b)
             /\ \A i \in Pixels : b <= i /\ i < bufferIndex => buffer[i] = Due(i)

(* Before a connection the image is blank; on one, it is filled from where *)
(* the last one left off.                                                  *)
Pieces ==
  /\ currState \notin {"CONNECTED", "PROCESSING_FRAME"} => \A i \in Pixels : buffer[i] = Zero
  /\ currState = "CONNECTED" => Filling
  /\ currState = "PROCESSING_FRAME" => OnePiece(buffer)
  /\ ImageIsOnePiece

PiecesInv == BuffersInv /\ Pieces

LEMMA PiecesInit == Init => Pieces
BY DEF Init, Pieces, ImageIsOnePiece

(* A recv of n image bytes puts at each place what is due there, and what  *)
(* is due at a place stays the same.                                       *)
LEMMA DueStays ==
  ASSUME BuffersInv, NEW n \in Nat, readPos' = (readPos + n) % Period,
         bufferIndex' = bufferIndex + n, NEW i \in Pixels
  PROVE  Due(i)' = Due(i)
<1>1. readPos \in Int /\ bufferIndex \in Int /\ i \in Int
  BY Sizes DEF BuffersInv, TypeOK, Pixels
<1> DEFINE k == i - (bufferIndex + n)
<1>2. readPos + n \in Int /\ k \in Int /\ (readPos + n) + k = readPos + i - bufferIndex
  BY <1>1
<1>3. Due(i)' = (((readPos + n) % Period) + k) % Period
  <2>1. ((readPos + n) % Period) \in Int
    BY <1>2, Sizes
  <2>2. ((readPos + n) % Period) + i - (bufferIndex + n) = ((readPos + n) % Period) + k
    BY <1>1, <2>1
  <2> QED
    BY <2>2 DEF Due
<1> HIDE DEF k
<1> QED
  BY <1>2, <1>3, ShiftedRemainder DEF Due

LEMMA FilledOn ==
  ASSUME BuffersInv, currState = "CONNECTED", Filling, NEW n \in Nat, buffer' = Filled(n)
  PROVE  \E b \in 0..bufferIndex :
           /\ \A i \in Pixels : i < b => buffer'[i] = Zero
           /\ \A i \in Pixels : b <= i /\ i < bufferIndex + n => buffer'[i] = Due(i)
<1>1. PICK b \in 0..bufferIndex :
         /\ Blank(b)
         /\ \A i \in Pixels : b <= i /\ i < bufferIndex => buffer[i] = Due(i)
  BY DEF Filling
<1>2. bufferIndex \in Nat /\ b \in Nat /\ b <= bufferIndex
  BY Sizes DEF BuffersInv, TypeOK
<1>3. \A i \in Pixels : buffer'[i] = IF i \in bufferIndex..(bufferIndex + n - 1)
                                      THEN Due(i) ELSE buffer[i]
  BY DEF Filled, Due
<1>4. \A i \in Pixels : i < b => buffer'[i] = Zero
  BY <1>1, <1>2, <1>3 DEF Blank, Pixels
<1>5. \A i \in Pixels : b <= i /\ i < bufferIndex + n => buffer'[i] = Due(i)
  BY <1>1, <1>2, <1>3 DEF Pixels
<1> QED
  BY <1>4, <1>5

LEMMA PiecesReceive == PiecesInv /\ ReceiveImage => Pieces'
<1> SUFFICES ASSUME PiecesInv, ReceiveImage
             PROVE  Pieces'
  OBVIOUS
<1> DEFINE n == Minimum(ImageSize - bufferIndex, avail)
<1>1. /\ currState = "CONNECTED" /\ buffer' = Filled(n)
      /\ readPos' = (readPos + n) % Period
      /\ UNCHANGED <<recBuffer, recBufferSize>>
  BY DEF ReceiveImage, Consume, providerVars
<1>2. bufferIndex \in Nat /\ bufferIndex < ImageSize /\ avail \in Nat
  BY <1>1, Sizes DEF PiecesInv, BuffersInv, IndexFollowsTurn, TypeOK
<1>3. n \in Nat
  BY <1>2, Sizes DEF Minimum
<1>4. IF bufferIndex + n = ImageSize
        THEN currState' = "PROCESSING_FRAME"
        ELSE currState' = "CONNECTED" /\ bufferIndex' = bufferIndex + n
  BY <1>1 DEF ReceiveImage
<1> HIDE DEF n
<1>5. PICK b \in 0..bufferIndex :
        /\ \A i \in Pixels : i < b => buffer'[i] = Zero
        /\ \A i \in Pixels : b <= i /\ i < bufferIndex + n => buffer'[i] = Due(i)
  BY <1>1, <1>3, FilledOn DEF PiecesInv, Pieces
<1>6. ImageIsOnePiece'
  BY <1>1 DEF PiecesInv, Pieces, ImageIsOnePiece, OnePiece
<1>7. CASE bufferIndex + n = ImageSize
  <2>1. b \in Pixels /\ b \in Int /\ readPos \in Int
    BY <1>2, Sizes DEF Pixels, PiecesInv, BuffersInv, TypeOK
  <2>2. ASSUME NEW i \in Pixels, ~(i < b)
        PROVE  buffer'[i] = (buffer'[b] + i - b) % Period
    <3>1. i \in Int /\ b <= i /\ i < ImageSize /\ b < ImageSize
      BY <2>1, <2>2, Sizes DEF Pixels
    <3>2. buffer'[i] = Due(i) /\ buffer'[b] = Due(b)
      BY <1>5, <1>7, <2>1, <3>1
    <3> DEFINE x == readPos + b - bufferIndex
               k == i - b
    <3>3. x \in Int /\ k \in Int /\ x + k = readPos + i - bufferIndex
      BY <1>2, <2>1, <3>1
    <3>4. Due(b) = x % Period /\ Due(i) = (x + k) % Period /\ x % Period \in Int
      BY <3>3, Sizes DEF Due
    <3>5. (buffer'[b] + i - b) % Period = ((x % Period) + k) % Period
      <4>1. buffer'[b] = x % Period
        BY <3>2, <3>4
      <4>2. (x % Period) + i - b = (x % Period) + k
        BY <2>1, <3>1, <3>4
      <4> HIDE DEF x, k
      <4> QED
        BY <4>1, <4>2
    <3> HIDE DEF x, k
    <3> QED
      BY <3>2, <3>3, <3>4, <3>5, ShiftedRemainder
  <2>3. OnePiece(buffer)'
    BY <1>5, <2>1, <2>2 DEF OnePiece
  <2> QED
    BY <1>4, <1>6, <1>7, <2>3 DEF Pieces
<1>8. CASE bufferIndex + n # ImageSize
  <2>1. currState' = "CONNECTED" /\ bufferIndex' = bufferIndex + n
    BY <1>4, <1>8
  <2>2. \A i \in Pixels : Due(i)' = Due(i)
    BY <1>1, <1>3, <2>1, DueStays DEF PiecesInv
  <2>3. b \in 0..bufferIndex'
    BY <1>2, <1>3, <2>1
  <2>4. Filling'
    BY <1>5, <2>1, <2>2, <2>3 DEF Filling, Blank
  <2> QED
    BY <1>6, <2>1, <2>4 DEF Pieces
<1> QED
  BY <1>7, <1>8

LEMMA PiecesStep == PiecesInv /\ [Next]_vars => Pieces'
<1> SUFFICES ASSUME PiecesInv, [Next]_vars
             PROVE  Pieces'
  OBVIOUS
<1>1. BuffersInv /\ Pieces /\ BuffersInv'
  BY BuffersStep DEF PiecesInv
<1>2. CASE \/ ServiceDiscovery \/ ServiceDiscoveryFails \/ StateDisconnected \/ ConnectFails
  <2>1. /\ currState \notin {"CONNECTED", "PROCESSING_FRAME"}
        /\ currState' \notin {"CONNECTED", "PROCESSING_FRAME"}
        /\ UNCHANGED <<buffer, recBuffer, recBufferSize>>
    BY <1>2 DEF ServiceDiscovery, ServiceDiscoveryFails, StateDisconnected, ConnectFails,
                clientVars, providerVars
  <2> QED
    BY <1>1, <2>1 DEF Pieces, ImageIsOnePiece, OnePiece
<1>3. CASE ConnectSucceeds
  <2>1. /\ currState = "CONNECTING" /\ currState' = "CONNECTED"
        /\ UNCHANGED <<bufferIndex, buffer, recBuffer, recBufferSize>>
    BY <1>3 DEF ConnectSucceeds, providerVars
  <2>2. bufferIndex \in Nat /\ \A i \in Pixels : i \in Nat /\ buffer[i] = Zero
    BY <1>1, <2>1, Sizes DEF Pieces, BuffersInv, TypeOK, Pixels
  <2>3. Filling'
    BY <2>1, <2>2 DEF Filling, Blank
  <2> QED
    BY <1>1, <2>1, <2>3 DEF Pieces, ImageIsOnePiece, OnePiece
<1>4. CASE ReceiveHeader \/ ProcessingFrame
  <2>1. bufferIndex' = 0 \/ UNCHANGED <<currState, bufferIndex, buffer, readPos>>
    BY <1>1, <1>4 DEF ReceiveHeader, HeaderMissing, ProcessingFrame, Return, streamVars,
                      BuffersInv, HeaderFirst
  <2>2. /\ currState' \in {"CONNECTED", "PROCESSING_FRAME"}
        /\ currState' = "PROCESSING_FRAME" => currState = "PROCESSING_FRAME" /\ UNCHANGED buffer
        /\ currState' = "CONNECTED" => bufferIndex' = 0
        /\ UNCHANGED <<recBuffer, recBufferSize>>
    BY <1>1, <1>4 DEF ReceiveHeader, HeaderMissing, ProcessingFrame, Return, providerVars,
                      BuffersInv, HeaderFirst
  <2>3. \A i \in Pixels : i \in Int /\ i >= 0
    BY Sizes DEF Pixels
  <2>4. currState' = "CONNECTED" => Filling'
    BY <2>2, <2>3 DEF Filling, Blank
  <2> QED
    BY <1>1, <2>2, <2>4 DEF Pieces, ImageIsOnePiece, OnePiece
<1>5. CASE ReceiveImage
  BY <1>5, PiecesReceive
<1>6. CASE ReceiveError
  <2>1. /\ currState = "CONNECTED"
        /\ UNCHANGED <<bufferIndex, recBuffer, recBufferSize, readPos>>
        /\ \/ UNCHANGED <<currState, buffer>>
           \/ currState' = "SERVICE_DISCOVERY" /\ \A i \in Pixels : buffer'[i] = Zero
    BY <1>6 DEF ReceiveError, BlankImage, providerVars
  <2> QED
    BY <1>1, <2>1 DEF Pieces, ImageIsOnePiece, OnePiece, Filling, Blank, Due
<1>7. CASE ImageProvider
  <2>1. UNCHANGED <<currState, buffer, readPos>>
    BY <1>7 DEF ImageProvider, streamVars
  <2>2. CASE currState = "PROCESSING_FRAME"
    <3>1. recBuffer' = buffer
      BY <1>7, <2>2 DEF ImageProvider
    <3> QED
      BY <1>1, <2>1, <2>2, <3>1 DEF Pieces, ImageIsOnePiece, OnePiece
  <2>3. CASE currState # "PROCESSING_FRAME"
    <3>1. recBufferSize' = 0 /\ UNCHANGED bufferIndex
      BY <1>7, <2>3 DEF ImageProvider, DropFrame
    <3> QED
      BY <1>1, <2>1, <2>3, <3>1 DEF Pieces, ImageIsOnePiece, Filling, Blank, Due
  <2> QED
    BY <2>2, <2>3
<1>8. CASE ReceiveEndOfStream \/ GetPixelData \/ Arrive \/ Fail \/ UNCHANGED vars
  <2>1. UNCHANGED <<currState, bufferIndex, buffer, recBuffer, recBufferSize, readPos>>
    BY <1>8 DEF ReceiveEndOfStream, GetPixelData, Arrive, Fail, vars, clientVars, providerVars, streamVars
  <2> QED
    BY <1>1, <2>1 DEF Pieces, ImageIsOnePiece, OnePiece, Filling, Blank, Due
<1> QED
  BY <1>2, <1>3, <1>4, <1>5, <1>6, <1>7, <1>8 DEF Next, SchedulerStep, ClientRun

(* What the provider hands out is a row of consecutive bytes behind a      *)
(* blank beginning: however recv cuts the stream and wherever connections  *)
(* fail, no image has bytes of two connections (PiVisClient.c:98-131).     *)
THEOREM NoImageMixesConnections == Spec => []ImageIsOnePiece
<1>1. Init => PiecesInv
  BY BuffersInit, PiecesInit DEF PiecesInv
<1>2. PiecesInv /\ [Next]_vars => PiecesInv'
  BY BuffersStep, PiecesStep DEF PiecesInv
<1>3. PiecesInv => ImageIsOnePiece
  BY DEF PiecesInv, Pieces
<1> QED
  BY <1>1, <1>2, <1>3, PTL DEF Spec
-----------------------------------------------------------------------------
(* Whole frames.  At(f, k) is byte k of frame f of the stream.             *)

FrameNos == 0..(FrameMod - 1)
NextFrame(f) == (f + 1) % FrameMod
At(f, k) == f * FrameSize + k

LEMMA NextFrames ==
  /\ \A f \in FrameNos : NextFrame(f) \in FrameNos
  /\ \A f \in FrameNos : NextFrame(f) = IF f = FrameMod - 1 THEN 0 ELSE f + 1
  /\ FrameMod - 1 \in FrameNos
<1>1. FrameMod \in Nat \ {0}
  BY FrameModAssumption
<1> QED
  BY <1>1 DEF FrameNos, NextFrame

LEMMA BytesOfFrames ==
  ASSUME NEW f \in FrameNos, NEW k \in 0..(FrameSize - 1)
  PROVE  At(f, k) \in 0..(Period - 1) /\ At(f, k) # Zero /\ FrameOf(At(f, k)) = f /\ OffsetOf(At(f, k)) = k
<1>1. FrameMod \in Nat /\ FrameSize \in Nat \ {0} /\ f \in Nat /\ k \in Nat /\ k < FrameSize
  BY Sizes, FrameModAssumption DEF FrameNos
<1>2. f * FrameSize \in Nat /\ (f + 1) * FrameSize = f * FrameSize + FrameSize
  BY <1>1
<1>3. (f + 1) * FrameSize <= FrameMod * FrameSize
  BY <1>1 DEF FrameNos
<1>4. At(f, k) \in 0..(Period - 1) /\ At(f, k) # Zero
  BY <1>1, <1>2, <1>3 DEF At, Period, Zero
<1>5. (f * FrameSize + k) \div FrameSize = f /\ (f * FrameSize + k) % FrameSize = k
  BY <1>1, <1>2
<1> QED
  BY <1>4, <1>5 DEF At, FrameOf, OffsetOf

(* The stream goes on inside a frame, and from its end to the next one.    *)
LEMMA BytesGoOn ==
  ASSUME NEW f \in FrameNos, NEW k \in 0..(FrameSize - 1), NEW n \in Nat, k + n <= FrameSize
  PROVE  (At(f, k) + n) % Period = IF k + n < FrameSize THEN At(f, k + n) ELSE At(NextFrame(f), 0)
<1>1. FrameMod \in Nat \ {0} /\ FrameSize \in Nat \ {0} /\ Period \in Nat \ {0} /\ f \in Nat /\ k \in Nat
  BY Sizes, FrameModAssumption DEF FrameNos
<1>2. CASE k + n < FrameSize
  <2>1. At(f, k + n) \in 0..(Period - 1)
    BY <1>1, <1>2, BytesOfFrames
  <2>2. At(f, k) + n = At(f, k + n)
    BY <1>1 DEF At
  <2> QED
    BY <1>1, <1>2, <2>1, <2>2
<1>3. CASE k + n = FrameSize
  <2>1. At(f, k) + n = (f + 1) * FrameSize
    BY <1>1, <1>3 DEF At
  <2>2. CASE f = FrameMod - 1
    <3>1. At(f, k) + n = Period /\ NextFrame(f) = 0 /\ At(0, 0) = 0
      BY <1>1, <2>1, <2>2, NextFrames DEF At, Period
    <3> QED
      BY <1>1, <1>3, <3>1
  <2>3. CASE f # FrameMod - 1
    <3>1. f + 1 \in FrameNos /\ NextFrame(f) = f + 1
      BY <1>1, <2>3, NextFrames DEF FrameNos
    <3>2. At(f, k) + n = At(f + 1, 0) /\ At(f + 1, 0) \in 0..(Period - 1)
      BY <1>1, <2>1, <3>1, BytesOfFrames DEF At
    <3> QED
      BY <1>1, <1>3, <3>1, <3>2
  <2> QED
    BY <2>2, <2>3
<1> QED
  BY <1>1, <1>2, <1>3

Holds(image, f) == \A i \in Pixels : image[i] = At(f, HeaderSize + i)

(* The client is inside frame f of the stream, of which it has what is     *)
(* before readPos.                                                         *)
Reads(f) ==
  /\ headerIndex = 0 => bufferIndex = 0
  /\ readPos = At(f, headerIndex + bufferIndex)
  /\ \A i \in Pixels : i < bufferIndex => buffer[i] = At(f, HeaderSize + i)

(* The client is before frame f of the stream.                             *)
Before(f) == headerIndex = 0 /\ readPos = At(f, 0)

(* The frame that follows the one ALGOCTRL took last is either still being *)
(* received, or whole in the client's buffer, or whole in the provider's,  *)
(* and then the stream is at the one after that.                           *)
FramesInOrder ==
  LET next == NextFrame(taken)
  IN  /\ taken \in FrameNos
      /\ currState \notin {"CONNECTED", "PROCESSING_FRAME"} =>
           /\ link = "none" /\ bufferIndex = 0 /\ recBufferSize = 0
           /\ taken = FrameMod - 1 /\ Before(next)
      /\ currState = "CONNECTED" =>
           \/ recBufferSize = 0 /\ Reads(next)
           \/ recBufferSize # 0 /\ turn = "provider" /\ Reads(next) /\ Holds(recBuffer, taken)
           \/ recBufferSize # 0 /\ turn = "algo" /\ Reads(NextFrame(next)) /\ Holds(recBuffer, next)
      /\ currState = "PROCESSING_FRAME" =>
           /\ Before(NextFrame(next))
           /\ IF turn = "client" THEN recBufferSize # 0 /\ Holds(recBuffer, next)
                                ELSE recBufferSize = 0 /\ Holds(buffer, next)

Pristine == trouble \subseteq {"failure"}
FramesInv == BuffersInv /\ (Pristine => FramesInOrder)

LEMMA HeldIsWhole ==
  ASSUME NEW image, NEW f \in FrameNos, Holds(image, f)
  PROVE  Whole(image) /\ FrameOf(image[0]) = f
<1>1. \A i \in Pixels : HeaderSize + i \in 0..(FrameSize - 1)
  BY Sizes DEF Pixels, FrameSize
<1>2. 0 \in Pixels
  BY Sizes DEF Pixels
<1>3. \A i \in Pixels : image[i] # Zero /\ FrameOf(image[i]) = f /\ OffsetOf(image[i]) = HeaderSize + i
  BY <1>1, BytesOfFrames DEF Holds
<1> QED
  BY <1>2, <1>3 DEF Whole

LEMMA FramesInvSuffices == FramesInv => FrameIsWhole
<1> SUFFICES ASSUME FramesInv, recBufferSize # 0, Pristine
             PROVE  Whole(recBuffer)
  BY DEF FrameIsWhole, Pristine
<1>1. taken \in FrameNos /\ NextFrame(taken) \in FrameNos
  BY NextFrames DEF FramesInv, FramesInOrder
<1>2. Holds(recBuffer, taken) \/ Holds(recBuffer, NextFrame(taken))
  BY DEF FramesInv, FramesInOrder
<1> QED
  BY <1>1, <1>2, HeldIsWhole

LEMMA FramesInit == Init => FramesInv
<1> SUFFICES ASSUME Init PROVE FramesInOrder
  BY BuffersInit DEF FramesInv
<1>1. NextFrame(FrameMod - 1) = 0 /\ At(0, 0) = 0
  BY NextFrames, Sizes DEF At
<1> QED
  BY <1>1, NextFrames DEF Init, FramesInOrder, Before

LEMMA FramesStep == FramesInv /\ [Next]_vars => FramesInv'
<1> SUFFICES ASSUME FramesInv, [Next]_vars, Pristine'
             PROVE  FramesInOrder'
  BY BuffersStep DEF FramesInv
<1> DEFINE next == NextFrame(taken)
           after == NextFrame(next)
<1>1. BuffersInv /\ BuffersInv' /\ TypeOK
  BY BuffersStep DEF FramesInv, BuffersInv
<1>2. Pristine
  BY DEF Next, SchedulerStep, ClientRun, ServiceDiscovery, ServiceDiscoveryFails,
         StateDisconnected, ConnectSucceeds, ConnectFails, ReceiveHeader, ReceiveImage,
         ReceiveEndOfStream, ReceiveError, ProcessingFrame, GetPixelData, ImageProvider, Arrive, Fail, vars, Pristine
<1>3. FramesInOrder
  BY <1>2 DEF FramesInv
<1>4. taken \in FrameNos /\ next \in FrameNos /\ after \in FrameNos
  BY <1>3, NextFrames DEF FramesInOrder
<1>5. "split" \notin trouble /\ headerIndex \in {0, HeaderSize}
  BY <1>1, <1>2 DEF Pristine, BuffersInv, HeaderInOnePiece
<1>6. CASE ServiceDiscovery \/ ServiceDiscoveryFails \/ StateDisconnected \/ ConnectFails
  <2>1. /\ currState \notin {"CONNECTED", "PROCESSING_FRAME"}
        /\ currState' \notin {"CONNECTED", "PROCESSING_FRAME"}
        /\ UNCHANGED <<link, bufferIndex, headerIndex, recBufferSize, taken, readPos>>
    BY <1>6 DEF ServiceDiscovery, ServiceDiscoveryFails, StateDisconnected, ConnectFails,
                clientVars, providerVars, streamVars
  <2> QED
    BY <1>3, <2>1 DEF FramesInOrder, Before
<1>7. CASE ConnectSucceeds
  <2>1. /\ currState = "CONNECTING" /\ currState' = "CONNECTED"
        /\ UNCHANGED <<headerIndex, bufferIndex, buffer, recBuffer, recBufferSize, taken>>
    BY <1>7 DEF ConnectSucceeds, providerVars
  <2>2. link = "none" /\ bufferIndex = 0 /\ recBufferSize = 0 /\ Before(next) /\ taken = FrameMod - 1
    BY <1>3, <2>1 DEF FramesInOrder
  <2>3. readPos' = 0 /\ next = 0 /\ At(0, 0) = 0
    BY <1>4, <1>7, <2>2, Sizes, NextFrames DEF ConnectSucceeds, At
  <2> QED
    BY <1>4, <2>1, <2>2, <2>3 DEF FramesInOrder, Before, Reads, Pixels
<1>8. CASE ReceiveHeader
  <2> DEFINE f == IF recBufferSize = 0 THEN next ELSE after
  <2>1. /\ turn = "client" /\ currState = "CONNECTED" /\ headerIndex = 0 /\ avail > 0
        /\ UNCHANGED <<currState, bufferIndex, recBuffer, recBufferSize, taken>>
    BY <1>5, <1>8 DEF ReceiveHeader, HeaderMissing, providerVars
  <2>2. recBufferSize = 0 /\ Reads(next)
    BY <1>3, <2>1 DEF FramesInOrder
  <2>3. Minimum(HeaderSize, avail) = HeaderSize
    <3>1. "split" \notin trouble'
      BY DEF Pristine
    <3> QED
      BY <1>1, <1>8, <3>1, Sizes DEF ReceiveHeader, Minimum, TypeOK
  <2>4. /\ headerIndex' = HeaderSize /\ bufferIndex = 0
        /\ readPos' = (At(next, 0) + HeaderSize) % Period
    BY <1>8, <2>1, <2>2, <2>3, Sizes DEF ReceiveHeader, Consume, Reads
  <2>5. readPos' = At(next, HeaderSize)
    BY <1>4, <2>4, Sizes, BytesGoOn DEF FrameSize
  <2>6. Reads(next)'
    BY <1>1, <2>1, <2>4, <2>5, Sizes DEF Reads, Pixels
  <2> QED
    BY <1>4, <2>1, <2>2, <2>6 DEF FramesInOrder
<1>9. CASE ReceiveImage
  <2> DEFINE n == Minimum(ImageSize - bufferIndex, avail)
  <2>1. /\ turn = "client" /\ turn' = "algo" /\ currState = "CONNECTED"
        /\ headerIndex = HeaderSize /\ avail > 0
        /\ UNCHANGED <<recBuffer, recBufferSize, taken>>
    BY <1>5, <1>9, Sizes DEF ReceiveImage, HeaderMissing, providerVars
  <2>2. recBufferSize = 0 /\ Reads(next)
    BY <1>3, <2>1 DEF FramesInOrder
  <2>3. /\ bufferIndex \in 0..(ImageSize - 1) /\ n \in Nat \ {0} /\ bufferIndex + n <= ImageSize
    BY <1>1, <2>1, Sizes DEF BuffersInv, IndexFollowsTurn, TypeOK, Minimum
  <2>4. /\ HeaderSize + bufferIndex \in 0..(FrameSize - 1)
        /\ readPos = At(next, HeaderSize + bufferIndex)
    BY <2>1, <2>2, <2>3, Sizes DEF Reads, FrameSize
  <2>5. \A i \in Pixels : i < bufferIndex + n => buffer'[i] = At(next, HeaderSize + i)
    <3> SUFFICES ASSUME NEW i \in Pixels, i < bufferIndex + n
                 PROVE  buffer'[i] = At(next, HeaderSize + i)
      OBVIOUS
    <3>1. buffer'[i] = IF i \in bufferIndex..(bufferIndex + n - 1)
                         THEN (readPos + i - bufferIndex) % Period ELSE buffer[i]
      BY <1>9 DEF ReceiveImage, Filled
    <3>2. CASE i < bufferIndex
      BY <2>2, <2>3, <3>1, <3>2 DEF Reads, Pixels
    <3>3. CASE i >= bufferIndex
      <4> DEFINE d == i - bufferIndex
                 k == HeaderSize + bufferIndex
      <4>1. d \in Nat /\ k + d = HeaderSize + i /\ k + d < FrameSize /\ readPos + i - bufferIndex = readPos + d
        BY <1>1, <2>3, <3>3, Sizes DEF Pixels, FrameSize, TypeOK
      <4>2. (At(next, k) + d) % Period = At(next, k + d)
        <5>1. k \in 0..(FrameSize - 1) /\ k + d <= FrameSize
          BY <2>4, <4>1, Sizes
        <5> HIDE DEF d, k
        <5> QED
          BY <1>4, <4>1, <5>1, BytesGoOn
      <4> QED
        BY <2>3, <2>4, <3>1, <3>3, <4>1, <4>2 DEF Pixels
    <3> QED
      BY <2>3, <3>2, <3>3 DEF Pixels
  <2>6. readPos' = IF bufferIndex + n < ImageSize
                     THEN At(next, HeaderSize + bufferIndex + n) ELSE At(after, 0)
    <3>1. readPos' = (At(next, HeaderSize + bufferIndex) + n) % Period
      BY <1>9, <2>4 DEF ReceiveImage, Consume
    <3> QED
      BY <1>4, <2>3, <2>4, <3>1, Sizes, BytesGoOn DEF FrameSize
  <2>7. CASE bufferIndex + n = ImageSize
    <3>1. bufferIndex' = 0 /\ headerIndex' = 0 /\ currState' = "PROCESSING_FRAME"
      BY <1>9, <2>7 DEF ReceiveImage, EndImage
    <3>2. Holds(buffer, next)'
      BY <2>1, <2>5, <2>7, Sizes DEF Holds, Pixels
    <3>3. Before(after)'
      BY <2>1, <2>3, <2>6, <2>7, <3>1 DEF Before
    <3> QED
      BY <1>4, <2>1, <2>2, <3>1, <3>2, <3>3 DEF FramesInOrder
  <2>8. CASE bufferIndex + n # ImageSize
    <3>1. bufferIndex' = bufferIndex + n /\ UNCHANGED <<headerIndex, currState>>
      BY <1>9, <2>8 DEF ReceiveImage
    <3>2. Reads(next)'
      BY <2>1, <2>3, <2>5, <2>6, <2>8, <3>1, Sizes DEF Reads
    <3> QED
      BY <1>4, <2>1, <2>2, <3>1, <3>2 DEF FramesInOrder
  <2> QED
    BY <2>7, <2>8
<1>10. CASE ReceiveEndOfStream
  BY <1>3, <1>10 DEF ReceiveEndOfStream, FramesInOrder, Before, Reads, Holds,
                     clientVars, providerVars, streamVars
<1>11. CASE ReceiveError
  <2>1. /\ currState = "CONNECTED" /\ turn = "client"
        /\ UNCHANGED <<currState, headerIndex, bufferIndex, buffer, recBuffer, recBufferSize, taken, readPos>>
    BY <1>11 DEF ReceiveError, Pristine, providerVars
  <2> QED
    BY <1>3, <2>1 DEF FramesInOrder, Reads
<1>12. CASE ProcessingFrame
  <2>1. /\ currState = "PROCESSING_FRAME" /\ turn = "client" /\ turn' = "algo"
        /\ UNCHANGED <<headerIndex, buffer, recBuffer, recBufferSize, taken, readPos>>
    BY <1>12 DEF ProcessingFrame, providerVars, streamVars
  <2>2. bufferIndex' = 0 /\ currState' = "CONNECTED"
    BY <1>1, <1>12, <2>1 DEF ProcessingFrame, Return, BuffersInv, IndexFollowsTurn
  <2>3. recBufferSize # 0 /\ Holds(recBuffer, next) /\ Before(after)
    BY <1>3, <2>1 DEF FramesInOrder
  <2>4. Reads(after)' /\ Holds(recBuffer, next)'
    BY <2>1, <2>2, <2>3 DEF Before, Reads, Holds, Pixels
  <2> QED
    BY <1>4, <2>1, <2>2, <2>3, <2>4 DEF FramesInOrder
<1>13. CASE GetPixelData
  <2>1. /\ turn = "algo" /\ turn' = "provider"
        /\ UNCHANGED <<currState, headerIndex, bufferIndex, buffer, recBuffer, recBufferSize, readPos, link>>
    BY <1>13 DEF GetPixelData, clientVars, providerVars, streamVars
  <2>2. CASE recBufferSize = 0
    <3>1. UNCHANGED taken
      BY <1>13, <2>2 DEF GetPixelData
    <3> QED
      BY <1>3, <2>1, <2>2, <3>1 DEF FramesInOrder, Before, Reads, Holds
  <2>3. CASE recBufferSize # 0
    <3>1. currState = "CONNECTED" /\ Reads(after) /\ Holds(recBuffer, next)
      BY <1>1, <1>3, <2>1, <2>3 DEF FramesInOrder, TypeOK
    <3>2. taken' = next
      BY <1>4, <1>13, <2>3, <3>1, HeldIsWhole DEF GetPixelData
    <3>3. Reads(next)' /\ Holds(recBuffer, taken)'
      BY <2>1, <3>1, <3>2 DEF Reads, Holds
    <3> QED
      BY <1>4, <2>1, <2>3, <3>1, <3>2, <3>3 DEF FramesInOrder
  <2> QED
    BY <2>2, <2>3
<1>14. CASE ImageProvider
  <2>1. /\ turn = "provider" /\ turn' = "client"
        /\ UNCHANGED <<currState, headerIndex, buffer, taken, readPos, link>>
    BY <1>14 DEF ImageProvider, streamVars
  <2>2. CASE currState = "PROCESSING_FRAME"
    <3>1. recBuffer' = buffer /\ recBufferSize' # 0
      BY <1>14, <2>2, Sizes DEF ImageProvider
    <3> QED
      BY <1>3, <2>1, <2>2, <3>1 DEF FramesInOrder, Before, Holds
  <2>3. CASE currState # "PROCESSING_FRAME"
    <3>1. recBufferSize' = 0 /\ UNCHANGED <<recBuffer, bufferIndex>>
      BY <1>14, <2>3 DEF ImageProvider, DropFrame
    <3> QED
      BY <1>3, <2>1, <2>3, <3>1 DEF FramesInOrder, Before, Reads
  <2> QED
    BY <2>2, <2>3
<1>15. CASE Arrive \/ Fail
  <2>1. /\ UNCHANGED <<turn, clientVars, providerVars, taken, readPos>>
        /\ link = "open"
    BY <1>15 DEF Arrive, Fail
  <2> QED
    BY <1>3, <2>1 DEF FramesInOrder, Before, Reads, Holds, clientVars, providerVars
<1>16. CASE UNCHANGED vars
  BY <1>3, <1>16 DEF vars, clientVars, providerVars, streamVars, FramesInOrder, Before, Reads, Holds
<1> QED
  BY <1>6, <1>7, <1>8, <1>9, <1>10, <1>11, <1>12, <1>13, <1>14, <1>15, <1>16
     DEF Next, SchedulerStep, ClientRun

(* What the provider hands out is one whole frame of the stream, whatever  *)
(* pieces recv has cut the image into, until a header is cut or the client *)
(* starts over inside an image.                                            *)
THEOREM FramesStayWhole == Spec => []FrameIsWhole
BY FramesInit, FramesStep, FramesInvSuffices, PTL DEF Spec

(* And ALGOCTRL takes every frame, once and in order.                      *)
THEOREM NoFrameLostOrTwice == Spec => EveryFrameOnce
<1>1. FramesInv /\ [Next]_vars =>
        [GetPixelData /\ recBufferSize # 0 /\ trouble \subseteq {"failure"}
           => taken' = (taken + 1) % FrameMod]_vars
  <2> SUFFICES ASSUME FramesInv, GetPixelData, recBufferSize # 0, Pristine
               PROVE  taken' = NextFrame(taken)
    BY DEF Pristine, NextFrame
  <2>1. FramesInOrder /\ BuffersInv /\ TypeOK /\ turn = "algo"
    BY DEF FramesInv, BuffersInv, GetPixelData
  <2>2. Holds(recBuffer, NextFrame(taken)) /\ NextFrame(taken) \in FrameNos
    BY <2>1, NextFrames DEF FramesInOrder, TypeOK
  <2> QED
    BY <2>2, HeldIsWhole DEF GetPixelData
<1> QED
  BY <1>1, FramesInit, FramesStep, PTL DEF Spec, EveryFrameOnce
=============================================================================
