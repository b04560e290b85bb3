# PiVision in TLA+

PiVision takes images from a Raspberry Pi camera, processes them and serves the
results to viewers over TCP. The repository holds four programs that speak the same
protocols:

* `C/` - one process with a cooperative scheduler: it reads the camera's stream, runs
  an image algorithm on a thread pool and serves the result;
* `C++/` - the same system rebuilt on an external event dispatcher (a git submodule
  that is not part of the repository);
* `Python/` - the camera server that runs on the Pi, and a viewer;
* `Java/` - a viewer for the C++ services.

This directory models the programs from their source. Every module names the file it
translates; `PROJECT.json` maps each definition to its lines.

## 1. The system

### The C program

`main` (`C/src/main.c`) registers callbacks, and `SCHED_run` calls them in a loop, on
one thread, in the order in which they were registered: camera client, service server,
algorithm control, diagnostics, image provider, control, image transport. Only the
thread pool's workers run beside it.

| Component | State | Operations | Talks to | What makes it correct |
|---|---|---|---|---|
| Camera client `PiVisClient.c` | `currState`, `headerIndex`, `bufferIndex`, `camBufHeader`, `buffer` | one state function a tick: discover, connect, receive a header, receive an image, wait until the image was copied | camera (UDP, TCP), image provider (`CLIENT_receive`) | indexes stay inside the buffers; an image that is handed out is one frame of the stream |
| Image provider `PiVisImageProvider.c` | `recBuffer`, `recBufferSize` | `run`, `IMGPROVIDER_getPixelData` | camera client, algorithm control | each frame is handed out once |
| Algorithm control `PiVisAlgoCtrl.c` | `algorithms[0].state`, `recBuffer` | `run`: send a result, fetch a frame, submit the normalizer or drop the frame | provider, transport, thread pool | one run of the algorithm at a time; a result is of one frame; a run ends |
| Normalizer `PiVisImageNormalizerAlgo.c` | static images and accumulators | `IMGNORMALGO_exec` on a worker | algorithm control, through the shared context | not entered twice; publishes a finished image |
| Thread pool `external/thread_pool.c` | queue, list of threads with `busy`, two kinds of mutex, a condition per thread | `sched_job`, `pool_thread_func`, `create_thread` | algorithm control | a job runs once, in order, and does run |
| Image transport `PiVisImageDataTL.c` | `state`, `frameNo`, `ackBuf` | `IMGDATATL_sendGrayscaleImage`, `run` | service server, algorithm control | one frame under way; an acknowledgement is of the frame awaited; a connected client is served |
| Service server `PiVisServer.c` | `connected`, `clientSocket` of each service | `run` (discovery, accept), `SERVER_send`, `SERVER_receive` | viewers, transport, diagnostics, control | a client finds the service, and a new one does not harm another |
| Diagnostics, control | a connection each | send a counter; read a command | service server | - |
| Difference algorithm | static images | `IMGDIFFALGO_exec` | registered and never submitted | - |

### The other programs

* **Python camera server** (`PiVisServer.py`, `PiVisCamera.py`): a list of connections;
  each frame is sent to all of them as a 4-byte size and then resolution and pixels.
  A connection that fails is removed while the list is being iterated.
* **Python viewer** (`PiVisClient.py`, `PiVisGui.py`): find, connect, then receive a
  frame and acknowledge it with its own frame counter, for ever.
* **C++ program**: `ServiceHandler` keeps a directory of services; `EthTerm` starts a
  listener for a published service and a connect job for a wanted one; `EthTermConnection`
  is a connection with acknowledgements, heartbeats and a process-id message;
  `FrameCoord` passes camera frames on and `GrayscaleImage` runs up to four jobs on them.
* **Java viewer** (`PiVisClient.java`): the same protocol with a read timeout.

What is hard: the workers' interleavings with the scheduler's thread, over memory that is
shared without a lock; streams that are cut anywhere; connections that close, are reset
or are replaced; counters on two sides that have to stay together. `PROJECT.json` lists
each hazard at its line.

## 2. The modules

| Module | Models | Kind |
|---|---|---|
| `JobService` | what a caller of the thread pool may rely on: a FIFO queue before a set of servers | abstract specification |
| `ServiceDirectory` | what the objects of the C++ program may rely on when they provide or want a service: it is asked for, found, published and connected once, in that order | abstract specification |
| `ThreadPool` | `thread_pool.c` | state machine, implements `JobService` |
| `AlgoCtrl` | `PiVisAlgoCtrl.c` and the normalizer's use of memory, composed with `ThreadPool` (EXTENDS) | state machine |
| `ImageDataTL` | `PiVisImageDataTL.c`, `PiVisServer.c`, `PiVisClient.py` | state machine |
| `CameraClient` | `PiVisClient.c`, `PiVisImageProvider.c`, the stream of `PiVisServer.py` | state machine |
| `EthTermConnection` | `pivision_ethtermconnection.cpp`, both ends of a connection | state machine |
| `ServiceBroker` | `pivision_servicehandler.cpp`, `pivision_ethterm.cpp`, `pivision_ethtermconnectservice.cpp`, `pivision_ethtermservicelistener.cpp`, and the use of services by `pivision_framecoord.cpp` and `pivision_grayscaleimage.cpp` | state machine, implements `ServiceDirectory` |
| `ImageServices` | the images in `pivision_framecoord.cpp`, `pivision_grayscaleimage.cpp`, `pivision_grayscaleimagejob.cpp` | state machine |
| `JavaViewer` | `PiVisClient.java`, and the `EthTermConnection` objects that serve it one after the other | state machine |
| `CameraServer` | `PiVisServer.py`, `PiVisCamera.py`, `PiVisScheduler.py` | state machine |
| `ImageAlgorithms` | what `PiVisImageNormalizerAlgo.c` computes | functions, and the statics that link one run to the next |
| `AlgoCtrlProofs` | theorems about `ThreadPool`, on top of them `AlgoCtrl`, and `ImageAlgorithms`, the jobs that run there | proofs |
| `ImageDataTLProofs`, `CameraClientProofs`, `EthTermConnectionProofs`, `ServiceBrokerProofs`, `ImageServicesProofs`, `JavaViewerProofs`, `CameraServerProofs` | theorems about the module of that name | proofs |
| `MC...` | constants for TLC, one module for each of the state machines | instances |

The operators introduced by a comment "A plausible wrong ..." are not part of any
specification. Each is the definition below it with a bug one could make there; put in
its place, it breaks a property (`PROJECT.json`, "mutants"), which shows that the
property is about the code.

### ThreadPool

A step is a critical section. `sched_job` holds `contextMutex` from the push of the item
until it returns, so there is one call at a time; inside it takes each worker's
`execMutex` in turn, and the workers run in between. `cursor` is the worker it looks at
next (0: no call is under way). `pc[t]` is the place of worker `t` in `pool_thread_func`:

| `pc[t]` | code | leaves by |
|---|---|---|
| `absent` | the thread is not created | `CreateThread` |
| `pop` | before `pop_queue_item` (82) | `PopJob`, `PopNothing` |
| `exec` | in the job function (84) | `FinishJob` (also frees the item) |
| `markIdle` | before `busy = 0` (88) | `MarkIdle` |
| `check` | between the two critical sections (93) | `CheckNotified` |
| `waiting` | in `pthread_cond_wait` (98) | `ClaimIdle` (the signal), `SpuriousWakeup` |

`busy` is kept apart from `pc`, as in the code: the window between `PopNothing` and
`MarkIdle`, in which an idle worker is still marked busy, is where a notification is lost.
Items are addresses: an item can be submitted again once it has been freed.

### AlgoCtrl

`run()` is cut where it touches memory that a worker also touches; `ctrlPc` is the place
in it. `CopyPart` is `IMGPROVIDER_getPixelData`'s memcpy, one part of the image a step; it
runs before the state is looked at, as in the code. The normalizer is three phases of a
worker: the pass that reads `recBuffer`, the passes that write `normalizedImage`, and the
store of `ALGO_COMPLETE`; then the job function returns. Pixels carry the frame they came
from. `overwritten` is a history variable. A step of the composition that touches the
pool is a step of `ThreadPool`, by name, so that the pool's theorems hold in it
(`AlgoCtrlRunsThePool`). Memory is sequentially consistent in the model: each
thread's loads and stores take effect in program order. C gives no such promise for
plain variables; the build is `gcc` without optimisation (`C/Makefile`).

### ImageDataTL

`turn` is the callback the scheduler runs next. A frame in transit is a count, because
a viewer reads exactly one frame's bytes before it answers. An acknowledgement is its bytes,
because `recv` may return a part of it and `run()` compares the last byte of the buffer
whatever was received. `split` is a history variable: an acknowledgement has been read in pieces,
after which the awaited number never stands at its place again; `InStep` and
`FirstClientIsServed` name it as their exception, and the other properties hold beyond it.
`SERVER_send` blocks until a frame is written and is one step. A connection is named by its client. `link` is what the server's
socket would say: `open`, `closed` (the peer closed, reads end) or `reset`. A send to a closed
connection may reset it, and a send to a reset one ends the process by SIGPIPE, which is why
the runs of this module do not check for deadlock. "No image this tick" is always possible
(`NothingSent`). A viewer may leave at any time.

### CameraClient

`turn` is again the scheduler. A byte of the camera's stream is its position, modulo
`FrameMod` frames, so that a byte that lands in the wrong place shows. Bytes arrive one at
a time and `recv` returns what is there, up to what was asked for, so that the stream is
cut in every way. The client ends the process when it cannot send its question
(`ServiceDiscoveryFails`), which is why this module's run does not check for deadlock. `Spilled` says what the compiled program does with header bytes that
have no room in `camBufHeader`: `buffer` is declared next to it, and the build of the
Makefile puts it right behind, so the bytes land in the image.
`taken` is the number of the last frame that algorithm control copied. `trouble` is a history of
what the client does not get over: a header that recv returns in two parts (`split`: it is asked
for whole again, and image bytes follow it into the header buffer), and a reset inside an image
(`restart`: the client starts over with the indexes where they were, and puts the next
connection's images together wrongly). A third entry, `failure`, is a connection that ended in
any way. The properties about whole frames name the entries under which they hold: `FrameIsWhole`
and `EveryFrameOnce` survive a failure, and nothing else. What holds beyond them is said by the
others. `BuffersBounded`: a cut header overruns its buffer by less than a header, and no byte of an
image is there yet for that to overwrite. `ImageIsOnePiece`: an image that starts at the wrong place is still
one row of bytes of one connection, behind a blank beginning, because the client blanks its image when a connection
fails. `FramesKeepComing` has three exceptions: the process has ended, connections
are reset again and again, or the client has come to the end of a stream and takes `recv`'s 0 for no bytes.

### EthTermConnection

An object of the C++ program is used by two threads, and the module has both for each
end: the job thread that runs `Execute()` (`pc[e]`) and the event dispatcher that calls
`HandleEvent()` (`handler[e]`, what the call is about to send).

| `pc[e]` | code | leaves by |
|---|---|---|
| `start` | before the first test of `active` | `Start` |
| `receive` | in `Receive()` | `ReceiveData`, `ReceiveAck`, `ReceivePid`, `ReceiveHeartbeat`, `ReceiveCut`, `GiveUp` |
| `ack` | before the acknowledgement is sent (290) | `SendAck` |
| `leave` | after the loop, before the socket is closed | `End` |
| `ended` | in the destructor, waiting for the last timer | `Destroy` |
| `destroyed` | gone (or: there is no such object, the peer is the camera) | - |

`server` is what the client is connected to: a C++ server in another process (`remote`), one
in its own process (`local`, where the process-id message switches images to the shortcut
over events), or the Python camera server (`camera`, which sends images and reads nothing).
A message is whole or cut short, and it is cut only when its connection ends; the receiver of
a part takes it for an image. `Transmit` is a `Send()`: it blocks while TCP has no room,
loses bytes to a peer that has closed, and gives up on a connection that was reset.

Taken for granted, because the code it would follow from is not in the repository or is the
system's: the dispatcher calls one object's handler for one event at a time;
`std::condition_variable` does not wake up by itself; the network tells both ends when
it fails. A file descriptor is not used again here while the timer that is keyed by it runs;
`JavaViewer` is about descriptors that are.

### ServiceBroker

One process of the C++ program: `program` says which of the three `main` functions runs, and
so which of the frame coordinator and the grayscale object exist; `network` which of the
services they want other processes offer. `events` counts how often each event is raised and not yet
handled. The event dispatcher is a submodule that is not in the repository: it hands out every event,
in any order with the others, to all the objects that subscribed to it, in one step. A
`HandleEvent` case is an action; `Handle(e, raised)` is its event and those it raises.
`ServiceDirectory` has neither events nor jobs: a service has an entry, a search, a publication and
a connection. The refinement takes the entry, the number of listeners and the client's connection
as they are; a search is asked for while its event waits or its job runs, and has ended as the
job did (`SearchOf`).

| State | Code |
|---|---|
| `services[s]` | the directory: no entry, -1 (`disconnected`), 0 (`local`), a socket (`remote`) |
| `job[s]`, `numAttempts[s]`, `timers[s]` | the connect job of a service, which searches, waits without a condition, and connects |
| `listeners[s]`, `listenerActive[s]` | sockets that listen (none is ever closed); whether requests are answered |
| `client[s]`, `servers[s]` | connection objects; both kinds report their end as the status of the service |
| `cameraServiceAvailable`, `colorSubscribed` | what the frame coordinator and the grayscale object were told |

Color images pass from the frame coordinator to the grayscale object of the same process over a TCP
connection of the process to itself (and, once the process id has been compared, over the
shortcut of `EthTermConnection`). `GrayscaleGetsImages` says when that connection is made,
and names the two cases in which it never is: the search had failed (`SearchedInVain`), or there
was none (`NeverSearched`), when the frame coordinator published the service. The wait of a job
may end without a signal here; it is assumed that the 500 ms of a timeout do not
pass between raising it and waiting for it.

### ImageServices

A camera image is an event, a number here; a color image is another; a job of the grayscale object
is a third. Every one of them is handled sometime and in any order, because the dispatcher is
external; it makes one call of an object's handlers at a time, so that submitting a job and counting
it (`pivision_grayscaleimage.cpp:34-35`) are one step. `numJobsOngoing` is the code's counter, `completeInd` the completions on their way to
it. What a job computes is `Grayscale`: one color after the other, with `colorIntensity`
carried from pixel to pixel as in the code, clamped, and as many pixels as were received.
`scene` is what all images show; it is a variable that never changes, so that TLC goes through
all small images, and order is studied with images whose pixels are left out (`Plain`).

### JavaViewer

The viewer reads items: a length, or a part of a payload. `SocketTimeout` is the one second that
ends a read: what was read of a length or a payload is lost, an acknowledgement is sent, and
the next read begins wherever the stream stands. If that is inside a message (`cutInside`), the
next four bytes are a length whatever they are (`MisreadLength`). `object[n]` is the life of the
n-th connection object at the server, `fd[n]` its descriptor, `timers[f]` the pending heartbeat
timeouts of a descriptor: the dispatcher hands a timeout to all objects, and each compares the
descriptor. `EthTermConnection` has the two threads of an object; here each of its calls is
a step. `extra` counts acknowledgements that answer no image.

### CameraServer

One thread: `pc` is the call it is in. `at` is the position of Python's list iterator, which
`remove` does not know about. `item` is what `sendall` sends next, the size or a part of the
image; a part fits the network when `wire[c] < Room`. `sendall` waits, so a client that stops
reading (`stalled`) stops the server. `requests` is the queue of the discovery socket, which is
closed and made again after each datagram. The requests are those of the repository's programs: each
has the header and a number.

### ImageAlgorithms

A run of the normalizer is one step. An image is a few regions of one color, weighted by their `Area`: no pass looks at where a pixel lies.
Sums are taken as the code takes them, the variance modulo `WordRange` (`unsigned int`
arithmetic wraps). A division by zero ends the process (`crashed`): on the Raspberry Pi, too,
where the compiler's division routine raises the signal.

## 3. The runs

| Run | Instance | Shows |
|---|---|---|
| `pool` | 2 threads, 3 items | items in one place, waiting threads claimable, refinement of `JobService`, and every queued job is started unless the pool is stranded for good |
| `algo` | 2 threads, 2 items, 2 frames of 2 parts | one normalizer at a time, a truthful state, results torn only by a copy during the run, an output that is stable while it is sent, completion unless stranded |
| `algo_stuck` | 1 frame of 1 part, no spurious wakeups | **violated**: a dispatched frame never completes |
| `tl` | 3 clients, frame numbers 0..2, acknowledgements read in any pieces | one frame in flight; no stale acknowledgement is taken; until one is read in pieces, the first client and the server stay in step over the wrap, and it is served |
| `camera` | a header of 2 and an image of 3 bytes, 3 frames, window of 6; connections close and are reset | copies and receives of images stay inside the buffers, and a header overruns its own only when it was cut, and nothing that counts; no image mixes two connections; frames arrive whole, once and in order until a header is cut or the client starts over; frames keep coming, with three exceptions by name |
| `eth` | 3 images, room for 2 messages a direction, all three kinds of server | one token; images in order and a part of one only at the end; at most one image overtaken by the shortcut; nothing runs in a destroyed object; images are answered and both ends end |
| `broker` | the three programs, a search of 2 attempts, 1 accepted connection | one listener and one search of a service; a confirmation finds its entry; nothing is published without an input; refinement of `ServiceDirectory`; a process has its camera or ends; when the grayscale object gets images |
| `images` | 3 jobs, 4 images; images of up to 3 pixels of 5 colors | a slot for every job and none besides; an image passes fewer than `NumJobsLimit` others; a pixel takes at most a third of the range from its neighbour; accepted images come out and slots become free |
| `viewer` | 2 connections, 2 descriptors, images of 2 parts, 1 timeout | lengths are read as lengths unless a timeout fell inside a message; one image for each acknowledgement; every object has a timer that will let it be destroyed; both sides get away from a closed connection |
| `cameraserver` | 3 clients, a frame of 3 items, room for 1 | a listed client got whole frames; a frame misses a client only right behind one that was removed; who asks is connected unless somebody stops reading |
| `cameraserver_stalled` | 2 clients, a frame of 3 items, room for 1 | **violated**: a client that stops reading keeps the others from being sent anything |
| `pixels` | images of 3 regions, 5 colors, 1200 pixels, words of 24 bits | what statics carry into the next image; which images end the process |

A type invariant is part of the first invariant of each run (`WindowOfOne`, `BrokerInOrder`,
`BuffersBounded`, `SlotsInOrder`, `TimersInOrder`, `StreamsInStep`, `NothingCarriedOver`); those of
`ThreadPool`, `AlgoCtrl` and `ImageDataTL` are proved for every instance instead.

The violated properties are statements of the repository's comments, messages and README;
"findings" in `PROJECT.json` quotes them.

### Bounds

* Two threads are the program's own number (`init_thread_pool(2)`). Three items are one
  more than threads, so that jobs wait and the walk finds the pool full; two items suffice
  for `AlgoCtrl`, where a worker may still hold the finished one when the next is submitted,
  and no more can be there (one job pending, proved). Two parts are the least image that can be torn.
* `FrameMod` is 3 in all runs of `ImageDataTL`, where the program's is 256, and an
  acknowledgement has 3 bytes instead of 9: with one frame under way, numbers further apart
  never meet, and a 3-byte message can be cut on each side of a middle. The header keeps a
  non-zero first byte and a zero byte, like the real one, which has the zeros that could be
  taken for a number. The theorems hold for every `FrameMod` and every header. Three clients are the least number at which one is served,
  one waits and one more comes.
* Three images (`MaxFrames`) and room for two messages (`WireSize`): one image can be on the
  connection, one be published by the shortcut behind it and one follow; two messages fill a
  direction with an acknowledgement and a heartbeat, so that senders block.
* A header of 2 bytes can be cut once and an image of 3 bytes in a first, a middle and a last
  part. The window of 6 holds more than a frame, so that a receive may reach into the next.
* `MaxAttempts` is 2 where the program has 5: a first, a last attempt, and a timer of the first that
  fires in the second. `MaxAccepts` counts the connections that the listeners accept together;
  one suffices for a viewer that comes, leaves and is reported.
* Three jobs where the program has four, and one image more than jobs, so that one is refused or
  waits for a completion. The five colors are the two ends of a byte, one that rounds, one that is
  clamped from above and one between.
* `JavaViewer`: an image of two parts can be cut inside by a timeout; room for one image and a
  heartbeat; two objects and two descriptors, so that a descriptor is used again or not. `MaxExtra`,
  `MaxGarbage` and `MaxTimeouts` bound what a viewer that has lost its place does.
* `CameraServer`: three clients are the least with which one is skipped between two others; a
  frame does not fit the network, so that `sendall` waits inside it.
* `ImageAlgorithms`: 1200 pixels and words of 24 bits keep the proportion of the program's 307200
  pixels and 32 bits, and are more pixels than an average can carry into the next. The areas are a
  small spot and two near halves.
* No state constraint is used: every space is finite by the system's own flow control or by
  these constants.

### Fairness

* Threads: the operating system runs a thread that can run and hands over a mutex
  (`WF` of `Walk`, of each worker, and of the main thread). Nothing obliges a caller to submit
  a job or a condition to wake without a signal.
* Scheduler: it loops for ever, so each callback is run (`WF` of the server's step). That the
  transport is offered an image infinitely often (`SF` of `SendFrame`) is what
  `CompletesUnlessStranded` gives it, with a camera that keeps sending.
* Clients: a viewer keeps reading, answering and connecting (`WF`); it need not come and may
  leave.
* Camera: it keeps sending (`WF` of `Arrive`; a camera that is connected and silent for ever would keep the
  client in `recv`, and with it the scheduler), and it is found and accepts if asked for ever (`SF`).
* C++ connection: both threads of an object run and its timer fires. A sender holds
  `sendMutex` while it waits for room, so it gets the room that appears again and again
  (`SF` of `Execute` and of `HandleTimer`). Nothing obliges an image, a stop or a broken
  network to come. `FramesAreAnswered` has one exception, by name: a camera that never reads
  lets TCP fill up with acknowledgements and heartbeats, and the client stops in `Send()`.
* Images: events are handled and jobs run (`WF`); the camera need not send.
* Java viewer: its thread runs; a heartbeat timeout is handled, and its `Send()` gets room that
  appears again and again (`SF`). Nothing obliges a timeout, a stop or an image.
* Camera server: its thread runs; a client that has not stopped reads (`WF`); a datagram that is
  sent again and again is received and answered at some time (`SF` of `Answer`).
* Broker: one weak fairness of all that happens by itself (`Proceed`: constructors return, events
  are handed out, threads run, timers fire). It is weaker than fairness of each part, and
  enough, because without new connections the broker comes to rest. Nothing obliges a connection to
  come, to last or to end.

## 4. The proofs

TLC checks the instances above; TLAPS proves the following for every value of the constants.
The only assumptions are those on the constants: there is at least one thread, one part of an image
and one file descriptor; the areas of an image are positive and it has more than 255 pixels (it has
640 * 480), and a word has a value; the null item, frame and client are not items, frames or clients; a frame
number has at least two values, and an acknowledgement a header whose first byte is not zero; an
image is at least as large as its header, which a window can hold; a limit, a room and a number of
attempts are positive.

* `AlgoCtrlProofs`, the thread pool. The inductive invariant is the conjunction of `PoolTypeOK`,
  `JobInOnePlace` and `WaiterIsClaimable`. Its type part ties a worker's item to its
  place (`item[t] # NoJob <=> pc[t] = "exec"`) and the created threads to `numThreads`,
  without which `CreateThread` would not be known to start with an idle slot. `JobInOnePlace`
  needs the guard of `SchedJob` (malloc returns an address not in use) and two lemmas on
  sequences, `PushedQueue` and `PoppedQueue`. `PoolImplementsService` maps each step to a
  submission, a start, an end or a stutter of `JobService`.
* `AlgoCtrlProofs`, algorithm control. The safety of the unlocked state rests on one count: there is at most one
  job that has not stored its result, whether about to be submitted, queued or running
  (`OneJobPending`), and `algoState` is RUNNING exactly when there is one. It is proved together with
  `PassesFollowInput`, which says how far a worker's passes have copied the input, and from
  which `TornOnlyByDrop` follows. `OutputIsStable` uses both: who could write the image
  would be normalizing, and then the state is not COMPLETE. `AlgoCtrlRunsThePool` says that
  a behaviour of the composition is a behaviour of the pool.
* `ImageDataTLProofs`. The transport sends again when a comparison of one byte succeeds, and the
  byte may be old. `OneFrameInFlight` is therefore not inductive: it needs to know that, while
  a frame is unanswered, too few bytes are on their way for the last place of the buffer to be
  written (`TooLittle`, in `ServedInv`), which bounds what the served client has sent and is not
  read yet. A client that takes the place of another brings no bytes of its own (`BacklogInv`),
  and `ClientsInv` says what a client can have on its connection at each stage. `NoStaleAck` and
  `OneFrameInFlight` follow for any number of clients that come, leave and replace each other,
  and for acknowledgements that are read in any pieces. `FirstClientInStep` ends where an acknowledgement
  is read in pieces (`split`): there client and server do lose step. `InStep` is inductive beside `OneFrameInv` once it is known that nothing
  was sent or counted before the first connection (`QuietBefore`), and that a client which has connected
  has a link (`LinkInv`), so that a second one ends `Alone`.
* `CameraClientProofs`. `BuffersBounded` is about one tick of the client; what makes it inductive is where the
  indexes can be between two ticks (`IndexFollowsTurn`), that a header that was never cut is in
  the buffer as a whole or not at all (`HeaderInOnePiece`), and that no byte of an image is received before
  its header is there (`HeaderFirst`). `ImageIsOnePiece` needs more than what it says of the provider's
  copy: while an image is being filled, each byte behind the blank beginning is the one that
  lies as far before the next byte of the stream as its place before the next place (`Filling`, `Due`), which a receive
  does not change (`DueStays`, from `ShiftedRemainder`). For the frames the invariant says which
  byte the stream is at (`FramesInOrder`): the frame after the last one taken is being received,
  or is in the client's buffer or the provider's, with every byte in its place. It holds as long as
  nothing but a failure is in `trouble`, and gives both `FrameIsWhole` and `EveryFrameOnce`.
* `EthTermConnectionProofs`. The window is a token that is in exactly one of five places, of
  which two are a direction of the connection; the proof is about whether a message of a kind is on
  its way and that there are not two (`Holds`, `Once`), and turns to the count of
  `ExactlyOneToken` at the end. It needs to know that a connection is open at both ends or at none,
  and that only its end cuts a message, because a part of an image would be answered too.
  `DestroyedIsQuiet` follows from what the last timer finds: its handler is over before the flag
  is set that lets the destructor return. `PublishedStaysInOrder` is the longest proof of the project. That
  two numbers never change places does not follow from the order of the connection alone, because
  the images are numbered by what was accepted and the shortcut passes the connection by. `OrderInv`
  therefore says for each kind of server where an accepted image can be: with a camera, the images on the
  connection carry the numbers that follow the published ones (`CameraInv`, `Numbered`); with another
  process, every accepted image is published, on its way, or in the server's handler as long as
  the connection stands (`RemoteInv`); within one process, the image on the connection has the
  highest number of those that were accepted before the shortcut opened, and when an image overtakes
  it, it was the last to be sent (`NumbersInv`, `OvertakenBound`). For a connection that has ended,
  `AnsweredFirst` says that an image which is still unread was answered by nobody, and `NoMore` that
  nothing is published behind a part of one.
* `ServiceBrokerProofs`. Events come in any order, so the invariant counts them. An entry of the
  directory only ever changes from disconnected to local or remote (`EntryInv`): a local entry has
  one publication, raised or done; an entry has at most one search, asked for when the entry was
  made; a connection follows from the search's success and a confirmation from the connection. `InputsInv`
  says the same of what the users provide: the event that offers a service is not raised, and the
  service not published, before its input was found. Steps of one service leave the others as they
  are (`StepOfOneService`), and the rest is one lemma a handler. `BrokerImplementsDirectory` maps each
  step to one of `ServiceDirectory` or a stutter: subscribing asks, a job that is over ends the
  search, a confirmation enters the service as remote, the event of a provided service publishes it.
  `EntryInv` has what makes these steps legal, such as that a confirmation is only raised for a job that
  has connected; what it does not count leaves the searches as they are (`RequestsStay`, `Stutters`).
* `ImageServicesProofs`. An image is in one place on its way through the events (`ImageInOnePlace`), so
  that a job which is submitted is one more, and `numJobsOngoing` the number of jobs and completions.
  `FewArePassed` counts those that an image passes: they were accepted before it and have not come out, so
  each has a job of its own beside it (`LateHaveSlots`, by an injection into `jobs`), and the jobs
  are at most `NumJobsLimit`. `PixelsShowThemselves` needs to know that the recursive function in
  `Grayscale` exists, and that its values are bytes. Both are inductions over the pixels, and they are
  done with the least counterexample (`LeastNumber`, from the well-foundedness of `<` on `Nat`), which
  takes a set where an induction theorem takes an operator.
* `JavaViewerProofs`. Only the last object can be active, and a viewer that connects again has seen its
  last connection closed, when that object had ended (`ObjectsInv`). So a timeout of a descriptor starts
  one timer again or none, and if it is none, every object of the descriptor that still waits is told.
  `Window` is inductive beside this: the proof is about the number of images on the connection, and how it
  changes when a message is sent, an item is read, or a close leaves a part of what was under
  way (`ImagesOfSent`, `ImagesOfTail`, `ImagesOfCut`). For `InStep` the parts that are still wanted are
  carried along the connection (`Follows`); what is left after an item is read follows from what was left
  before (`RestIsWhole`), and a message that is sent is whole behind it (`SentIsWhole`).
* `CameraServerProofs`. A client of the list is sent whole frames: `StreamsInStep` needs to know where each
  client is (`PlaceInv`: in the backlog or in the list, and when it is not in the list it has
  been sent nothing since a whole frame). For the loop, the list is compared with what it was when the loop
  began (`LoopInv`): it has only lost connections, it is in the same order, and each connection it had
  then was tried, is still to come, or stood behind one that was removed. `RemoveFirst` takes away one
  connection, because none is in the list twice.

* `AlgoCtrlProofs`, the normalizer's arithmetic. A sum over the regions is a fold whose function is an operator, which
  no backend can instantiate; `SumsExist` therefore shows once that the sums over all sets of
  regions exist as a function, by the least number of regions at which they would not (`LeastNumber`), and all the
  rest is about that function: a sum of areas weighted by bytes lies between the smallest and the largest of
  them times the size (`SumBounds`, `TotalBounds`). The average of an image plus the old one, divided by more than 255
  pixels, is then a byte and one above the image's own at most (`AverageBounds`). The integer square root that `Deviation`
  chooses exists (`RootExists`). The invariant `AlgorithmsInv` adds to the two invariants of the run that the extremes are
  reset after each run that did not crash, so that those of the next run are of its own image, and half of a byte's
  range or more is used because the factor is the quotient of 255 and the distance (`FactorTimesRange`).

Only model-checked are the liveness properties: their proofs need fairness and `ENABLED`. Every safety invariant,
every action property and both refinements that the runs check are proved.

## 5. Not modelled

* `destroy_thread_pool`, unlimited pools, failing `malloc` and `pthread_create`: no caller, or no code
  that handles the failure.
* Diagnostics and control: two more users of the C service server. Diagnostics writes a counter to
  its client and ends the process like the image transport when the client has gone (`SendToReset`);
  control reads a command and does nothing with it. The server's list of services is these two and
  the images, served one after the other by the code that `ImageDataTL` has for one.
* The difference algorithm: `ALGOCTRL_init` registers it (`PiVisAlgoCtrl.c:64`), and nothing ever
  submits it.
* The text of discovery requests: what a request of the full length of a buffer does behind it, and what
  one that no program of the repository sends does to the camera server, which does not catch the
  errors of decoding it (`PiVisServer.py:58`, `:64`).
* `SERVER_send`'s return after a part of a frame (`PiVisServer.c:288-296`): the socket blocks, and a
  frame is written in one step, to a peer that reads it as one.
* A discovery timeout of the C++ program that is handled before its job waits for it
  (`pivision_ethtermconnectservice.cpp:139-142`), which would leave the job waiting for ever: see `ServiceBroker`.
* GUIs, which draw what they are handed; logging; the PPM tool; socket set-up; the lookup of the
  own address; the unused id counter of the C++ program and its three `main` functions.

## 6. Plan

1. *(done)* The C program's core: `JobService`, `ThreadPool`, `AlgoCtrl`, `ImageDataTL`,
   `CameraClient`; their proofs.
2. *(done)* The C++ program: `EthTermConnection`, `ServiceBroker`, `ImageServices`.
3. *(done)* The programs at both ends: `CameraServer`, `JavaViewer`.
4. *(done)* The arithmetic of the images: `ImageAlgorithms`, `Grayscale` of `ImageServices`.
5. *(done)* Proofs for `EthTermConnection`, `ServiceBroker`, `ImageServices`, `JavaViewer`.
6. *(done)* Proofs of the order of images (`EthTermConnection`, `ImageServices`), of clients in step
   (`ImageDataTL`, `JavaViewer`, `CameraServer`), and of a pixel's brightness.
7. *(done)* The abstract `ServiceDirectory` and its refinement by `ServiceBroker`.
8. *(done)* Sums over regions, and from them the proofs about `ImageAlgorithms`.
9. Diagnostics and control, as further services beside the images in `ImageDataTL`.
