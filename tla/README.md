# A TLA+ model of wayland-test

This directory holds TLA+ specifications of the Wayland server and the client
programs of this repository, TLC configurations that check them on small
instances, and proofs that the TLA+ proof system (TLAPS) checks. File names
below are relative to the repository; `server/` and `client/` stand for
`src/server/` and `src/client/`.

## The system

The server is one process with one thread: `wl_display_run` dispatches client
requests, X11 events and the repaint timer, one handler at a time. Clients are
processes of their own and talk to it through libwayland.

| Part | State | Operations | Who calls it |
|---|---|---|---|
| `Surface` (`server/surface.hpp`) | `mFront`, `mBack` (buffer, offset, callback, ready), `mBuffersFilled`, `mX`, `mY`, `mShellSurface` | attach, frame, commit; lock, unlock; destroy | client requests through `wrapper/waylandsurface.hpp`; `Compositor::repaint`; libwayland when the resource goes |
| `Compositor` (`server/compositor.*`) | `mSurfacesList`, `mRegions`, `mDisplayBuffer`, the repaint timer | createSurface, createRegion, clientDisconnects, notify, repaint, relayoutSurfaces | client requests, `Surface::destroy`, libwayland, the timer |
| wrappers (`server/wrapper/`) | the link between a `wl_resource` and its C++ object | create, hookDestroy, hookBind, hookClientDisconects | libwayland |
| `Shell`, `ShellSurface` | a `ShellSurface` per surface with a role | getShellSurface | client requests |
| `Seat`, `Pointer` | `mPointerList`, the cursor surface | getPointer, setCursor, move | client requests; `move` is called by nobody |
| `X11Backend` | window, event source, X connection | init, drawBuffer, handleX11Events | the server, `repaint`, the event loop |
| `WaylandServer` | all of the above | constructor, run, destructor | `main`, the test fixture |
| `WaylandClient`, `client::WaylandSurface`, `WaylandBuffer` | the globals found, one surface, one buffer | constructor, run, redraw, release | `client/main.cpp`, libwayland-client |
| `client/test1.cpp`, `client/test2.cpp` | the globals found, one window | main | |
| tests (`tests/`) | a server thread, a condition variable, a kill timer | SetUp, tests, TearDown | googletest |

### What is hard about it

* A surface has two states that are swapped at each commit. What the last swap
  left in `mBack` must not leak into the next frame, and the callbacks in the
  two states have to be answered once, in order, by two different operations.
* A released buffer is *queued*, a finished callback is *posted*; only the
  latter makes libwayland flush.
* When a client disconnects, libwayland destroys its resources one by one in
  the order of their ids, and each hook may delete C++ objects whose resources
  are still to come, or are gone. `clientDisconnects` in addition calls
  `std::remove_if` without erasing.
* A client may destroy a `wl_buffer` that a surface still points to, and a
  surface that is the cursor of a pointer. Nothing in the server listens.
* Nothing clips a surface to its place on the display; neither the position a
  client attaches at nor the stride of its buffer is checked.
* The X connection is read by two libraries, each with a queue of its own; the
  event loop watches only the socket.
* Clients ignore the results of the calls that start them, check only some of
  the globals, and own a single buffer. They set up its memory in several steps
  that may fail.
* The test fixture starts the server in a thread and waits for it.

`PROJECT.json` lists each of these hazards at its line, with the properties
that cover it, and the hazards that no property covers yet.

### What makes the parts correct

| Part | Correct when |
|---|---|
| Surface | no callback is lost, repeated or out of order; what is shown is the last commit; a replaced buffer is given back once |
| server and clients | no buffer is shared between a drawing client and a reading server, or used after it was freed; releases arrive |
| Compositor, lifetime | the list owns each surface once and is a stack from which a client leaves with all its surfaces and nobody else's; no hook runs on a deleted object |
| Compositor, painting | strips do not overlap and are seen; a copy stays inside both buffers and shows the right pixels |
| X11 backend | no event is left lying; closing the window ends the server, in good order, and nothing follows |
| clients | they find their globals as long as there is a server; they never paint into a buffer the server reads; they end, and leave nothing behind |
| shutdown | everything is deleted, and `~WaylandServer` writes only to resources that exist (it does not: see `Shutdown`); no pointer keeps a deleted cursor (abandoned ones do) |

## Modules

| Module | Models | Composes | Runs |
|---|---|---|---|
| `SurfaceOps` | the handlers of `Surface` as operators on its value | | |
| `Mailbox` | abstract: what a surface promises its client | `SurfaceOps` (events only) | |
| `Surface` | one surface under all orders of requests and repaints; refines `Mailbox` | `SurfaceOps` | `MCSurface` |
| `SurfaceProofs` | theorems about `Surface` | `Surface` | |
| `Connection` | the server with one surface per client, requests and events in transit | `SurfaceOps` | |
| `BufferCycle` | clients with several buffers, which they may destroy | `Connection` | `MCBufferCycle` |
| `CycleProofs` | theorems about `BufferCycle` | `BufferCycle` | |
| `ExampleClients` | the programs main and test1 against the server | `Connection` | `MCExampleClients` |
| `Selection` | what `remove_if` keeps of a list | | |
| `SurfaceStack` | abstract: what the compositor's list promises the clients | `Selection` | |
| `Compositor` | who owns surfaces, and what a disconnection does; refines `SurfaceStack` | `Selection` | `MCCompositor` |
| `CompositorProofs` | theorems about `Compositor`, the refinement among them, and `DestroyRequest` | `Compositor`, `DestroyRequest` | |
| `DestroyRequest` | `wl_surface.destroy` | `Compositor` | `MCDestroyRequest` |
| `Layout` | strips, and the order of painting | | `MCLayout.cfg` |
| `LayoutProofs` | theorems about `Layout` | `Layout` | |
| `Blit` | `copyShmBufferToDisplay` | | `MCBlit` |
| `BlitProofs` | theorems about `Blit` | `Blit` | |
| `X11Loop` | `X11Backend` in the event loop, from `init` to its destructor | | `MCX11Loop.cfg` |
| `X11Proofs` | theorems about `X11Loop` | `X11Loop` | |
| `ClientStartup` | main, test1 and test2 find the globals, and end | | `MCClientStartup.cfg` |
| `SharedMemory` | how main and test1 get the memory they draw in | | `MCSharedMemory.cfg` |
| `ClientProofs` | theorems about `ExampleClients` and `SharedMemory` | `ExampleClients`, `SharedMemory` | |
| `Shutdown` | `~WaylandServer`, regions, pointers and their cursors | | `MCShutdown` |
| `ShutdownProofs` | theorems about `Shutdown` and `ClientStartup` | `Shutdown`, `ClientStartup` | |
| `TestFixture` | both threads of the test fixture | | `MCTestFixture.cfg` |

A handler of the server is one action, because the server has one thread; where
a call of the library is not atomic for the code (a disconnection, a turn of
the event loop) it is several actions that nothing of the server interrupts.
libwayland, X11, the C++ library's condition variable and the kernel are
modelled from how the code uses them; `PROJECT.json` marks those definitions as
external.

### How the state corresponds to the code

* **Surface.** `surface.front` and `surface.back` are `*mFront` and `*mBack`;
  `filled` is `mBuffersFilled`. Buffers are model values, `NoBuffer` is a null
  pointer or a resource that is no shm buffer. Callbacks are numbers in the
  order in which they are asked for. Both coordinates are treated alike, so
  there is one offset. `sent` holds the events of the last step. `frames`,
  `fired`, `superseded` and `offsets` only observe.
  `SurfaceCommit` is all of `surfaceCommit`, the swap and the recycling
  included; `Repaint` is the `isReady`, `lockBuffer`, `unlockBuffer` sequence.
* **Connection.** `requests[c]` is what client c has sent and the server has
  not dispatched, `outbox[c]` what libwayland-server holds for the client,
  `wantFlush[c]` whether an event was posted, `inbox[c]` what the client has
  not read. `FlushClients` is `wl_display_flush_clients`. `freed[c]` are the
  `wl_buffer`s whose resource is gone; `culprits` becomes non-empty when
  `lockBuffer` or `surfaceCommit` uses one of them. From then on the behaviour
  is undefined, and the server takes no step.
* **ExampleClients.** `unsent[c]` is the buffer of the client's own connection,
  which `wl_display_dispatch` flushes; `color[c]` is the memory shared with
  the server.
* **Compositor.** `resource[c]` maps the ids of client c to live
  `wl_resource`s, `hooked[c]` holds the ids whose destructor is set; `alive`,
  `owner`, `surfaceId`, `shellId` describe the `Surface` objects; `list` is
  `mSurfacesList`, in which 0 is a null `unique_ptr`. `ClientDisconnects` is
  `std::remove_if` with the destructors that the moves run; `SurfaceDestroyed`
  is `Surface::destroy` with `notify`. `Unhook` is `~WaylandResource`: it writes
  to the resource of a shell surface even if libwayland has freed it; that may
  or may not end the process, so `crashed` is chosen. `Stack` maps the list to
  `SurfaceStack`: null entries and the surfaces of the client that is being
  disconnected are left out, so a disconnection is one step there. What
  `remove_if` keeps is defined in `Selection` by the rank of the positions and
  not by a fold over the list, so that it can be reasoned about.
* **Layout** abstracts a frame to its height, **Blit** treats one copy in
  detail, with `stride` the distance of the buffer's rows. Both take pixels as
  opaque.
* **X11Loop.** `socket`, `queue` and `swallowed` are the places where an event
  can wait: the kernel, xcb, and Xlib. `phase` and `batch` are
  `wl_event_loop_dispatch`; before it comes `InitBackend`, after it
  `DestroyBackend`. `exit` is how the process ends.
* **SharedMemory.** `call[p]` is the next call of program p. `named`, `open` and
  `reserved` say whether its file has a name, an open descriptor, and all its
  blocks.
* **ClientStartup.** `pc` follows each `main`; `bound` is the set of the
  global proxies that are not null. A program that ends for want of a
  connection or of a global has `pc` "failed". `CreateWindow` is all that comes
  between the check of the globals and the loop, where a program may end
  ("starved") beside a server that runs: test2 without a surface, an EGL
  display, EGL or a window (`client/test2.cpp:52`, `97`, `104`, `158`), test1
  without a surface or the memory of its buffer (`client/test1.cpp:164`, `171`,
  `265`, `273`), main with an exception of `WaylandBuffer`
  (`client/waylandbuffer.hpp:56`, `77`, `81`). How the memory is set up, call by
  call, is in `SharedMemory`.
* **Shutdown.** `phase` names what `~WaylandServer` destroyed last; `cursors`
  holds `mSurface` of each `Pointer`. `touched` counts the writes of
  `~WaylandServer` to freed resources, and only those: the ones to shell
  surfaces within a disconnection of the running server are `Unhook` in
  `Compositor`.

## What the runs show

| Run | Instance | Shows |
|---|---|---|
| `surface` | 1 surface, 2 buffers, 2 offsets, 4 callbacks | `StatesAgree`, `CallbacksConserved`, `AnsweredInOrder`, `CommittedFrameAnswered`; `ImplementsMailbox` (refinement with fairness); `PaintedAtOldOffset`: `x()` reads `mBack`, so a frame is painted at the offset of the frame before it |
| `buffer_cycle` | 2 clients with 2 buffers each, of which it may destroy one; one is careful and always asks for callbacks, one does as it likes | `BufferConserved`, `NoTearing`; `ReleaseArrives` and `CanDrawAgain` for the client that asks; `SilentWithoutCallbacks` for one that has not asked yet; `UsesFreedOnlyOfCareless`: who destroys only what it has back does no harm; `DestroyedOnDisplayBreaks`: who destroys what is on display ends the server |
| `example_clients` | 2 main, 1 test1 | `NoPaintWhileHeld`, `FirstFrameIsPainted`; `StallsAfterOneFrame`: with one buffer, main and the server wait for each other for ever |
| `compositor` | 2 clients, one with 2 bindings, 3 surfaces, 4 ids | `HookedObjectsExist`, `ListOwnsSurfaces`, `ImplementsStack` (refinement): the disconnection gets ownership and order right for all ids, missing erase and all; `NullsByOvertaking`, `NullEntryKills`, `BreaksOnlyByNulls`: it leaves a null entry exactly when the surfaces of another client are stacked above, and the next repaint then ends the process |
| `destroy_request` | 1 client, 1 surface | **violation**: `DestroyedSurfaceGoes`; the surface stays until its client disconnects |
| `layout` | up to 3 surfaces, 5 rows, 3 frame heights | `StripsAreDisjoint`, `StripsAreSeen`: although frames reach into the strips below, later strips are painted over them |
| `blit` | 4 by 3 display, frames of 1 to 5, positions -6 to 5, rows without a gap, with one, overlapping | `FaultsWhenUnsafe` gives the exact set of positions that are safe; `CopiesTheClip` compares the result with a definition by coordinates: right if and only if the stride is the width or one row at most is seen |
| `x11_loop` | 3 X events | `NothingStranded`; `CloseEndsTheLoop`, unless Xlib swallows the close event while a repaint flushes; `QuietAfterClose`; `CleanUnlessRepaintDue`: a repaint in the batch of the close makes the process end with an X error |
| `client_startup` | main, test1, test2, one server that may stop or have no socket | `NoMissingGlobalUsed` although the checks are incomplete, `GlobalsMissedOnlyWithoutServer`: only a server that goes away keeps a connected program from its globals; `StartupEnds`; `EndsWithServer`: test1 and test2 end, main asks again for ever once it loops |
| `shutdown` | 2 clients, 5 objects | `CursorsDangle`: exactly the pointers of clients that have left refer to a deleted surface; `ShutdownTouchesAbandoned`: `~WaylandServer` writes to the freed resources of the regions and pointers whose clients have left, and to no other; at the end nothing is left |
| `shared_memory` | main, test1, file systems that fill up | `NothingLeftBehind`: only a kill leaves a name, only test1 keeps its descriptor; `OnlySparseFaults`: test1 may get SIGBUS in the middle of painting, main finds out before |
| `fixture` | 1 test | **violation**: `TestEnds`; a notification before the wait is lost. A spurious wake-up violates it as well |

The runs `surface` and `shutdown` also check the type invariant of their module,
on which its proofs rest.

`CHECK_DEADLOCK` is off where the system may stop: a copy, the fixture, the
programs, the X backend and the server's destruction end, and a broken server
takes no step. Elsewhere TLC checks for deadlock.

Definitions under a comment `Mutant:` are wrong variants of the definition that
follows (a dropped guard, a missing reset, a swapped order). No specification
uses them. `PROJECT.json` pairs each property with a variant that breaks it, so
that one can see that the property depends on the code.

### Bounds

* `surface`: after the second commit both states have been in either role, and
  with four callbacks the third and the fourth pass through recycled states
  while an older one still waits. Two buffers allow the same buffer to be
  attached again while it is shown.
* `buffer_cycle`: two buffers per client are the least with which a client can
  draw again; each client has at most one commit per buffer it owns, so queues
  are bounded without a further bound. One destroyed buffer is enough to break
  the server, and leaves a careful client with the one it waits for. Clients
  share the flush, and the fate of the server.
* `compositor`: an overtaken surface takes two clients, an entry that
  `remove_if` leaves behind a third surface; four ids allow every order of a
  compositor, two surfaces and a shell surface, or of two bindings and two
  surfaces. Clients may reconnect until `MaxSurfaces` surfaces were created.
* `layout`: five rows do not divide by three or two; frames are lower than,
  higher than and equal to a strip.
* `blit`: positions reach more than a frame before and a display behind.
* `x11_loop`: three events put a close in front of one event and behind another.
  Draws on a destroyed window are counted up to two, one more than can happen.
* `shutdown`: a pointer and its cursor for each of two clients, and a region.
* `shared_memory`: the programs do not meet, each has its own file system.

### Fairness

* `Repaint`: the handler arms its timer again before it returns
  (`server/compositor.cpp:31`), and the constructor arms it first.
* `DispatchRequest`, `FlushClients`, `Disconnecting`, `Loop`, `Serve`:
  `wl_display_run` handles what is ready as long as it runs.
* client steps: the programs loop on `wl_display_dispatch`. Nothing obliges a
  client of `Surface` or `BufferCycle` to send anything.
* `TestFixture`: the scheduler runs both threads; spurious wake-ups are not fair.
* `ClientStartup`: the server is started; nothing obliges it to stop.
* `X11Loop`: the timer is armed again by each repaint, and `main` destroys the
  server when `run` returns. Nothing obliges the X server to send anything.

Weak fairness suffices everywhere: an action stays enabled until it is taken.

## What is proved

`SurfaceProofs` proves for every set of buffers and offsets and every number of
frames, from `NoBufferAssumption` and `SurfaceAssumption`:

* `TypeCorrect`, `StatesAlwaysAgree`, `NoCallbackLost`, `OffsetLagsBehind`: the
  four invariants of the run `surface`;
* `AnswersInOrder`: the action property;
* `SurfaceIsMailbox`: every behaviour of `Surface` is one of `Mailbox` (its
  safety part);
* `CommittedIsAnswered`: what `CommittedFrameAnswered` says without fairness. A
  committed callback is answered by the commit or moves to `mFront`, where no
  request drops it and the next repaint or commit answers it.

None of the invariants is inductive alone. `CallbacksConserved` does not say
which of two waiting callbacks is older, which `AnsweredInOrder` needs:
`Ordered` adds that answered callbacks are older than waiting ones and the one
in `mFront` older than the one in `mBack`. `PaintedAtOldOffset` speaks only of
moments without an attached buffer; `OffsetsAgree` also says where the offsets
of the last frames are kept. With `TypeOK` and `StatesAgree`, which decides the
branches of `surfaceCommit`, these make up `IInv`. The theorem `Invariance`
proves it action by action; the others follow from it.

`ShutdownProofs` proves for every set of clients and every number of objects,
from `ShutdownAssumption`:

* `ShutdownTypeCorrect`, `CursorsDangleOnlyWhenAbandoned`,
  `OnlyAbandonedTouched`: the invariants of the run `shutdown`;
* `AbandonedObjectsPileUp`: the running server keeps every region and pointer
  whose client has left.

They follow from `ShutdownInvariance`. Its `IInv` adds to `TypeOK` which objects
have lost their resource (`LostResource`: those abandoned and not yet touched),
which kinds each phase has deleted (`DeletedByPhase`), and that a cursor belongs
to the client of its pointer (`CursorsShareClient`). Without the first a
destructor could touch any object, without the second nothing says that the
last phase leaves none, without the third a client could leave and take the
cursor of another's pointer with it.

It also proves of `ClientStartup`, without an assumption, `StartupUsesFound`
(`NoMissingGlobalUsed`) and the action property `StartupFindsGlobals`
(`GlobalsMissedOnlyWithoutServer`), from what a program has found at each
stage, and `StartupNeverWaitsInVain`, the safety half of `StartupEnds`: a program that is
blocked has a request or an answer under way, as its `sync` is followed from
the request to the answer.

`CompositorProofs` proves for every set of clients, every number of bindings,
surfaces and ids, from `CompositorAssumption`:

* `CompositorHooks`, `CompositorOwnership`, `CompositorNulls`,
  `CompositorBreakdowns`: the four invariants of the run `compositor`;
* `CompositorImplementsStack`: the refinement of `SurfaceStack`, which has no
  fairness, as a whole;
* `CompositorNullsRemain`: the safety half of `NullEntryKills`. A null entry
  stays in the list as long as the process lives;
* `CompositorStacksInOrder`: of two surfaces the newer one lies above. It is an
  invariant of the stack, carried over to the list by the refinement;
* `CompositorDeletesOwn`: only the disconnection of its own client deletes a
  surface, and none of the client's is left when the disconnection ends;
* `CompositorIgnoresDestroy`, about `DestroyRequest`: a surface whose
  destruction was requested stays in the list until then, in every instance.
  The run `destroy_request` shows it in one.

A disconnection is proved resource by resource. Between two of them the run's
invariants do not say enough: the ids of a surface and of its shell surface
must lead back to it and to no other (`ObjectsRooted`, which also says when an
id below the surface's has been seen), and a hook must lead to its own object
and not just to one that exists (`HooksLead`). All of it is claimed only until
the process crashes. The list needs lemmas about `Selection` first: the i-th
place exists and grows with i, a selection of a selection is a selection,
`Compacted` leaves a null exactly if an entry that is kept stands behind one
that matches. The refinement rests on the last two: hiding the leaving client's
surfaces and the nulls gives the same stack before and after `remove_if`.

`CycleProofs` proves for every set of clients and buffers, whoever is careless,
from `NoBufferAssumption` and `CycleAssumption`:
`CycleConserves`, `CycleNeverTears`, `CycleIsSilent` and
`CycleFreedOnlyOfCareless`, the four invariants of the run `buffer_cycle`. The
invariant counts in how many places a buffer is away from its client
(`Counted`): in requests, in either state of the surface, in either queue of
events. The count stays one only if no attach overwrites another that was not
committed, so `Paired` says that each attach in the requests has its commit
behind it. `NoTearing` follows: what is held is away. `Silent` says what makes a
connection silent, in the requests and in the surface, before it shows in the
queues.

Three further theorems are the safety halves of its liveness properties:
`CycleReleaseIsPushed` (of a client that asks for callbacks, no event lies in
the connection's buffer unless a flush is wanted or the next repaint posts),
`CycleFreedStaysOnDisplay` (a freed buffer on display stays there until the
server breaks, which the next repaint does) and, if the buffers are finitely
many, `CycleNeverStandsStill` (a client without a buffer to draw into has a
request, an event or a repaint coming that moves it on). They add to the
invariant what drives the cycle: each commit of such a client comes with a
callback (`AsksFirst`), and what is queued is pushed by a callback still to be
answered (`InTime`).

`LayoutProofs` proves for every display, every set of frame heights and every
number of surfaces, from `LayoutAssumption`: `LayoutStrips` and `LayoutSeen`.
The invariant says that, as long as nothing has changed since a repaint, each
shell surface is where `relayoutSurfaces` puts it and the display is what
painting the list leaves; the rest is arithmetic with the quotient of the
heights.

`BlitProofs` proves for every frame, display, position and stride, from
`BlitAssumption` and `Int32Assumption`: `BlitFaults` and `BlitCopies`. The
invariant has the offsets of line y as products, the pixels copied so far, and
that no line with pixels was copied from an unsafe position; then a pixel is
shown where frame and display overlap, by row and column. `Int32Assumption`
says that the bytes of the display and of each position fit the `int32_t` of
`server/compositor.hpp:72`; without it a negative line size, which `blitLine`
takes for a `uint32_t`, could wrap around to one that fits. `BlitOffsetsFit`
proves that the products themselves do not overflow for a frame that is placed
on the display, if display and frame leave room for one more row: the code
advances both offsets once more after the last row.

`X11Proofs` proves for every number of events, without an assumption:
`X11NothingStranded` and the action property `X11QuietAfterClose`;
`X11CloseNotLost`, the safety half of `CloseEndsTheLoop` (a close event waits
until it is handled or swallowed); and `X11EndIsDecided`, that of
`CleanUnlessRepaintDue` with its converse: once the window is closed, whether a
repaint stands in the batch decides how the process ends. The invariant
adds that flag, window and event source go together (`InStep`), what a batch may
still hold (`BatchKnown`) and when a destroyed window can be drawn on
(`DrawnOnce`).

`ClientProofs` proves for any number of programs:

* from `NoBufferAssumption` and `ExampleAssumption`,
  `ClientsShowPainted`, the action property `ClientsPaintOwn`, and
  `ClientsDrawOnce`, the safety half of `StallsAfterOneFrame`: main asks for one
  callback at most, and no release is ever under way. The colour of the memory
  counts modulo 256, so `FirstFrameIsPainted` is not inductive: it holds because
  no buffer is drawn into twice, and the invariant follows the one submission of
  each client through its own connection, the requests and the surface;
* of `SharedMemory`, without an assumption, `MemoryIsTidy`
  (`NothingLeftBehind`) and `MemoryFaultsSparse` (`OnlySparseFaults`), from what
  each call leaves open.

### Only model-checked

* Liveness, as fairness and ENABLED are beyond the proof system:
  `CommittedFrameAnswered`, the fairness part of `ImplementsMailbox`,
  `ReleaseArrives`, `CanDrawAgain`, `DestroyedOnDisplayBreaks`,
  `StallsAfterOneFrame`, `NullEntryKills`, `CloseEndsTheLoop`,
  `CleanUnlessRepaintDue`, `StartupEnds`, `EndsWithServer`. Of all but the
  last, what they say without fairness is proved, as described above: what must
  happen stays possible, or is under way, until it happens.
* `DestroyedSurfaceGoes` and `TestEnds`, which do not hold. `TestFixture` has
  no parameters: TLC sees all of its states.

TLC evaluates the named assumptions in every run.

## What is not modelled

* `Seat::move`, which would move a cursor: its listener is not connected
  (`server/waylandserver.hpp:36`).
* Alpha blending, and overflow of the products of 32-bit offsets in the blit:
  they overflow only far beyond any instance TLC can check (`BlitOffsetsFit`
  proves where they do not). Displays and positions that overflow by themselves
  are excluded by `Int32Assumption`.
* A disconnection while requests or events are in transit: `Connection` has
  clients that stay. In the server a disconnection is not interrupted, and
  `Compositor` has it in detail.
* The attributes of the X window, a straight line without state. Of the EGL
  set-up of `client/test2.cpp` only its outcome is modelled: `exit(1)` without a
  display, EGL or a window, and going on after the failures that are only logged
  or ignored (the configuration, the context, the EGL surface, the first frame).
  The calls of the EGL library are taken to return: what it sends to the server
  and waits for is its own.
* Lack of memory inside libwayland while a client connects and binds its
  globals.
* The connection buffer of libwayland, which is flushed by itself when 4 KB are
  queued: the instances stay far below that.
* `GLCompositor` (unused), the Qt client, `wl_output` (no requests), build
  files, and `dk_utils` (logging, exceptions; an empty submodule).
* The number of `wl_callback` resources, which are never destroyed
  (`server/surface.hpp:127`).
* Data races inside libwayland caused by `NullBackend::finish`.

## Plan

Written: the modules above, in the order surface, buffers in transit, clients,
lifetime, painting, backend, startup, shutdown, shared memory; the refinements
of `Mailbox` and `SurfaceStack`; a proof of every invariant and every action
property that a passing run checks, of the refinements' safety, and of the
steps towards the liveness properties that need no fairness.

Next, in this order:

1. The refinement of `Mailbox` by each surface of `Connection`, whose events
   are then those in transit.
2. Composition of `Compositor`'s list with the surfaces' contents, so that a
   client disconnects while its requests and events are in transit.
