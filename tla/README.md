# sweetbg in TLA+

TLA+ models of sweetbg, a wallpaper daemon (`sweetbgd`) and its command
(`sweetbg`) for wlroots compositors, with the TLC configurations that check
them and TLAPS proofs of what matters most. Paths below are relative to the
repository (`src/src` holds the C sources).

    tlc -workers 2 -config requests.cfg MCSweetbgd.tla
    tlapm SweetbgdProofs.tla

The module that goes with each configuration is in section 3.

## 1. Inventory

| component | state | operations | talks to |
|---|---|---|---|
| daemon, `sweetbgd.c` | colour, auto, default fit, default image and palette, table of per-output overrides | `set`, `clear`, `reload`, prepared image, three queries, `stop` | registry, surfaces, socket; spawns `sweetbg prepare-set` |
| main loop, `sweetbgd.c` | none of its own | dispatch Wayland events; `ensure_surfaces`, `reconcile_paint`, `collect_buffers`; serve one client | all of the above |
| outputs and registry, `wayland/output.c`, `registry.c` | list of outputs (newest first), scale, logical box, generation, `layout_dirty` | added, removed, scaled, moved | compositor callbacks |
| surfaces, `wayland/surface.c` | size, configured, needs_repaint, has_content, fractional scale, current and retired buffers | create, configure, closed, preferred scale, paint a colour, attach a prepared buffer, collect | compositor, `wayland/shm.c` |
| buffers, `wayland/shm.c` | wl_buffer, released | create, from a descriptor, release, destroy | compositor |
| client, `ipc/client.c`, `ipc/prepared.c` | snapshot of the outputs, rendered buffers | query outputs, select, decode, render or share, send one frame per output | daemon, one connection per request |
| `img`, `cli/img.c` | default path, overrides | default, then each override, then restore of what failed | client, configuration file |
| socket, `ipc/server.c` | descriptor, path | probe, unlink, bind, chmod, listen, accept, close, unlink | other daemons, clients |
| framing, `ipc/protocol.c` | deadline | send and receive a frame with a descriptor | socket |
| configuration, `config/*.c`, `sweetbg.c` | `config.toml` | parse, load; read, patch, write, fsync, rename | daemon, commands |
| geometry and rendering, `image/fit.c`, `layout.c`, `image.c`, `jpeg.c` | none | crop, letterbox, centre, span slice; reduced decoding; averaging of source ranges | client |
| palette, pick, JSON, doctor, arguments | none | sequential code on files and text | client, command line |

What is hard:

* **Prepared images are always about the past.** A client takes a snapshot of
  the outputs, decodes and renders for a while, then sends a frame per output;
  other requests, hotplug and moves run in between. The daemon drops or repaints
  a late frame by comparing a per-output *generation*, the buffer size and (for
  repaints) the path. Every handler that changes anything else a picture
  depends on must bump the generation, and must see to it that someone repaints.
* **Helpers are sent once.** A dropped or superseded frame is never asked for
  again unless the event that outdated it sends a new helper.
* **Requests of several frames.** A default image is one frame per output, an
  `img` command with overrides is several requests; any of them may fail, its
  reply may be lost, and things happen in between.
* **The compositor is behind.** It reads pixels the daemon would like to free,
  and its events are about surfaces the daemon has destroyed meanwhile.
* **One thread.** A client that says nothing holds up the compositor's events
  and every other client; the kernel's queue for them is finite.
* **The socket path** is the only thing that keeps two daemons apart, and it is
  probed, unlinked and bound by separate calls.
* **The configuration file** is read, patched and replaced by processes that do
  not know of each other, and must survive all of them, and the power.
* **Rounding.** Crops, slices and sampled ranges are quotients of 32-bit
  numbers; a pixel too many is a read outside the image.

What makes each component correct: a frame with the current generation is
fresh; no output is forgotten; the screen converges; the colours reported are
those of the image shown; the override table stays within its array and free
of fits that make no sense for one output (daemon and client); pixels are freed
only after the compositor is done with them, and all are (surfaces, buffers); a
request is obeyed whole, at most once and answered truly, and the loop comes
back from it (framing); a daemon that serves is not displaced, a crash does not
prevent the next start (socket); the file is always a whole text, and saving an
edit changes that setting and nothing else (configuration); rendering stays
inside its image and its buffer, keeps the shape and cuts slices that meet
(geometry). `PROJECT.json` lists the hazards line by line.

## 2. Modules

| module | models | proofs |
|---|---|---|
| `Sweetbgd` (`MCSweetbgd`) | daemon, compositor and clients: the wallpaper protocol | `SweetbgdProofs` (types, frames), `SweetbgdTableProofs` (what the daemon remembers), `SweetbgdShownProofs` (nothing is forgotten) |
| `SurfaceBuffers` | one surface, its buffers, and a compositor requests and events behind | `SurfaceBuffersProofs` |
| `SocketLifecycle` | daemons racing for the socket path | `SocketLifecycleProofs` |
| `ControlSocket` | connections, frames, deadlines and replies; extends `SocketLifecycle` | `ControlSocketProofs` |
| `ConfigPersist` (`MCConfigPersist`) | the configuration file, line by line, under concurrent `--persist` | `ConfigPersistProofs` |
| `SavedSettings` | what `--persist` promises: a record of settings | implemented by `ConfigPersist`, in `ConfigPersistProofs` |
| `PreparedBuffers` (`MCPreparedBuffers`) | decoding, placing, sampling and sharing of pictures | `PreparedBuffersProofs` |

The `MC` modules hold the sets of requests, texts, images and faults the
configurations pick from.

How they fit together: `Sweetbgd` is what happens inside one serving daemon,
with a request as one step and a picture as one value. `ControlSocket` is why a
request may be one step there (obeyed whole and at most once, or not at all,
with the reply lost at worst); `PreparedBuffers` is what a picture is;
`SurfaceBuffers` is what attaching it does; `ConfigPersist` is where the file
comes from that `Sweetbgd` loads and reloads.

### Two refinements

* `ConfigPersist` implements `SavedSettings` (`Saved == INSTANCE SavedSettings
  WITH ...`; property `SavesSettings`, checked by TLC and proved in
  `PersistSavesSettings` for files that load and a limit on sections that
  leaves room for all outputs). The abstract
  specification has no files and no lines: a saver remembers the settings it has
  read and its one edit, and *saving* replaces the settings by that edit of what
  was read; a power loss goes back to settings saved before. The mapping reads
  `saved` off the file at the path and `kept` off the disk by `Load`, and makes
  a runner that has read the file a saver. So patching lines is exactly the
  edit asked for, whatever repeated keys, repeated sections or comments the
  text has, and edits are *not* isolated from each other: that is part of the
  abstract specification because it is what the code promises.
* `ControlSocket` implements `SocketLifecycle`, whose variables it keeps: a
  theorem (`ImplementsLifecycle`), from which `StaleOnlyByCrash` carries over.
  A full queue may delay a probe, and does nothing else to the path.

### Sweetbgd and the code

The daemon is one thread, so a handler is one action; what interleaves is the
order of handlers. `phase` is where the loop is:

| phase | code | leaves by |
|---|---|---|
| `registry` | first roundtrips in `sweetbg_registry_init` | `FirstSurfaces` (`ensure_surfaces` in `serve`) |
| `surfaces` | second roundtrip in `serve` | `Start` (`load_config`, first `reconcile_paint`) |
| `contents` | last roundtrip in `serve`, then the first wait in `poll` | `Wake` |
| `poll` | every later wait in `poll` | `Wake` |
| `dispatch` | `wl_display_dispatch_pending` in `run_loop` | `Reconcile` (`ensure_surfaces`, `reconcile_paint`) |
| `ipc` | `sweetbg_ipc_server_handle` | one request, or `NoRequest` |
| `down` | the process is gone | `Boot` |

| variable | code |
|---|---|
| `daemon` | `struct daemon`; `over` is `assignments[]` as a map from names, a name without an entry being `NoOverride`; palettes are named by the image they come from |
| `out` | `struct sweetbg_output` with its surface: `live` is `layer_surface != NULL`, `dirty` `needs_repaint`, `content` what is on screen (`has_content` is `content # Nothing`), `moved` `layout_changed`, `gen` `generation`, `rank` the place in the list |
| `layoutDirty`, `listed` | `registry.layout_dirty`; how many outputs were created, to rank the next |
| `jobs` | the client processes at work, a bag because two may be in the same state |
| `plugs` | how often a name was plugged in (history only; also a bound) |

A picture is the record of what its pixels depend on: path, fit, buffer size,
the letterbox fill where the fit shows one, and for `span` the boxes of all
configured outputs. `Render` is what the client renders from a query,
`Wanted` what the daemon would show now.

A client job is a list of *stages* (default image, override, repaint); each
asks for the outputs and sends its frames in the order of the daemon's list.
Frames stay in the job until sent, so a frame in `InFlight` may be
arbitrarily old. A reply may be lost (the daemon served the frame, the client
takes it for failed after five seconds); since the backlog is a queue, nothing
of that client overtakes the frame. `Fail` is a stage or frame that fails
before it is sent, `Die` a client that is killed, `SendRefused` every error
reply. `ReconcilePaint` is called by actions with the daemon, outputs and jobs
as the handler left them, and is always part of the handler's action. A paint
that fails leaves the surface dirty, as in the code, so the next turn tries
again, whenever something wakes the loop.

`Wake` is `poll` returning, because of an event, a client, or something that
changes nothing in this model. What the roundtrips of `serve` dispatch is
different from what a turn dispatches: `ensure_surfaces` and `reconcile_paint` do
not follow at once. After the last roundtrip the loop enters `poll` first, so an
event dispatched there (phase `contents`) is acted on only after that wait.

Simplifications: outputs always have a name and a logical box (xdg-output),
images named by a command exist (`realpath` succeeds), a directory is some
image; the cap on outputs, allocation failures in surface creation and the
wrap of the 32-bit generation are left out; a helper that cannot be spawned
is one that dies.

### SurfaceBuffers and the code

`client` is `struct sweetbg_surface` with the proxies that exist (`owned`) and
their release flags, and `out` the requests on their way; `events` is the
other direction. `view`, `current` and `holds` are the compositor's: how far a
surface is in its configure sequence, the buffer last committed, the buffers
being read. Objects are used again once nothing on the connection is about
their predecessor. The operators `Retired`, `Collected`, `Destroyed`,
`Reconciled`, `Handled` are the functions of those names; `phase` follows
`serve` and `run_loop`, including the start, where the first images are painted
without collecting and the events of the last roundtrip are not acted on until
something wakes the loop. A buffer that cannot be created is the `None` that a
paint may pick.

### ControlSocket and the code

A frame is `none`, `part` or `all` bytes; with the first of them comes the
descriptor of a prepared image. `queue` is the kernel's listen queue, in which a
probe of a starting daemon is a connection like any other: it costs the running
daemon a turn, and it waits for room. `serving`, `got` and `fds` are the
daemon's one connection, what it has read of it, and the descriptors it has not
closed. `Refuse` is a frame that ends early or meets the daemon's deadline,
`GiveUp` the command's own. A command may fail after its request was obeyed
(its deadline races the reply, or it is killed): `AnswersAreTrue` says nothing of
commands that fail, and `Sweetbgd` has them as lost replies.

In `SocketLifecycle`, `at[d]` is the call process `d` is about to make and `file`
the daemon whose socket file is at the path. `connect` succeeds only on the
file of a process that has called `listen` and not closed. `chmod` names the
path, so it fails when somebody unlinked it; then the daemon gives up and
unlinks the path again. A missing `XDG_RUNTIME_DIR` is left out.

### ConfigPersist and the code

A text is a sequence of parts: the lines before the first header, then one part
per header. `Parse` and `Loadable` are `config_parse` (last value of a repeated
key, repeated sections, the rules of each key, the limit on sections, `auto`
that keeps the colour above it), `Patch` is `config_patch` (the first line with
the key is replaced, later ones dropped, a missing key or section added, the
missing last newline supplied). A runner is a command: the request to the
daemon, then for each edit `Read`, `Write` (with fsync), `Rename`; each call may
fail, and a runner may be killed or the machine lose power. Until a rename is
written back, a loss finds the file before it; if the data was not synced it may
find a torn one. `daemon` is what the running daemon remembers, from
`Sweetbgd`'s requests. Quoting and blanks within a line are not spelled out.

### PreparedBuffers and the code

A run of the client: `outputs` is the daemon's reply, of which the command
prepares the selected ones; the layout is that of all. `Load` decodes the file
once (a JPEG at a fraction of its size when that is enough for each selected
output), then one step per output skips it, shares a buffer made before or
renders one. A buffer is where its
pixels come from: the placement of `fit.c` and `layout.c`, and the source range
that `fill_spans` gives each column and row. `uint32_t` sums and differences are
`% Word`.

## 3. Runs

| run | module | result | shows |
|---|---|---|---|
| `requests` | `MCSweetbgd` | holds | `FreshIfSameGeneration`, `ShownOrComing`, `PaletteOfShownImage` under all set, clear and reload requests, unreadable images, lost replies |
| `hotplug` | `MCSweetbgd` | holds | `TypeOK`, `FramesSound`, `FreshIfSameGeneration` under plug, unplug, resize, scales, closed surfaces, paint failures, failing helpers, daemon restarts |
| `span` | `MCSweetbgd` | holds | the same and `ShownOrComing` for two outputs under `span` with moves and hotplug, and `OverridesLegal` with a table of one for two names |
| `converge` | `MCSweetbgd` | holds | liveness: `Converges`, for one output that is resized and closed, and waits in `poll` that need not end |
| `replug` | `MCSweetbgd` | violated | `NoStaleFit`: generation restarts at 0 on plug, so a stale first image is accepted |
| `late_output` | `MCSweetbgd` | violated | `EveryOutputShowsItsImage`: an output configured between query and frame keeps its background |
| `buffers` | `SurfaceBuffers` | holds | `KeptWhileRead`, `Accounted`, `ConfiguredFirst`, types, and the liveness `Drains` |
| `socket` | `ControlSocket` | holds | `AnswersAreTrue`, `DescriptorsClosed`, `ConnectionsOK`, `StaleOnlyByCrash`, `EstablishedStays`; liveness `LoopComesBack`, `CommandsEnd`, `RestartSucceeds` |
| `two_daemons` | `SocketLifecycle` | violated | `OnlyOneInstance`: a bound socket that does not listen yet is taken for stale |
| `persist` | `MCConfigPersist` | holds | `FileIsWhole`, `NothingLost`, and the refinement `SavesSettings` |
| `persist_full` | `MCConfigPersist` | violated | `ComesBack`: a section left empty by a saved clear counts towards the limit, and the next saved image makes a file that no daemon loads |
| `fit` | `MCPreparedBuffers` | holds | `InBounds`, `OwnPicture`, `Undistorted`, `SlicesMeet`, `RefusesOnlyThin` |

The four violated properties are what the manual, the README or a comment says;
the counterexamples are findings in `PROJECT.json`. The properties that hold take
them into account: freshness speaks of a frame prepared in the same plug-in
of its output; `ShownOrComing` and `Converges` are checked where no output
can be missed by a default image (one output, or override commands on two), and
without a helper that fails, since a failed helper is by design not retried;
`NothingLost` asks for the settings the daemon has, where `ComesBack` asks that a
start shows the same. The two also differ in what a saved setting for *all*
outputs does to single ones: the daemon drops their settings, the file keeps
their keys, so such a file shows the old ones again after a start. `ComesBack`
is checked on commands about single outputs, to show the limit on sections.
`NothingLost` is about commands that follow one another and succeed; what
commands that overlap, fail or are killed half way may do to the file is the
refinement, `SavesSettings`.

### Bounds

`Sweetbgd`: `MaxGeneration`, `MaxJobs` and `MaxPlugs` guard new requests and
events (`Room`); they never cut a handler short, and work in progress always
runs to its end. A failed paint leaves the surface dirty and would bump the
generation in every turn, so faults stop at `MaxGeneration` too. Generation 3
leaves room for: configured (1), a first image (2), a change while the next
client is at work (3), and its consequences. `MaxJobs = 2` lets requests and
events meet one client and allows two clients and more (repaint helpers come on
top of the bound). Two outputs are enough for span, whose only coupling is "some
other output", and for a table of one; two paths tell an image from another; one
override is enough to overflow the table. The override table and palettes do
not depend on sizes and scales, so those runs have one of each; `converge` has
two sizes, for there resizing is what the daemon may sleep through. `hotplug` with
`MaxPlugs = 2` includes `Stop` and `Boot`; the other runs that hold plug each
output once.

`SurfaceBuffers`: two surfaces (one closed, one new), three buffers (one shown,
one retired, one on its way), either side up to two messages behind
(`MaxRequests`, `MaxEvents` guard new messages; the several requests of one
call, replies and releases are never held back). That is enough for an event to be about a
surface destroyed and created again since.

`ControlSocket`: two commands, one with a descriptor, two daemons, and a queue
of one, so that a command, a probe and a frame cut short compete for one place.
`persist`: two runners with two commands, one loss; files with every kind of
repetition `Patch` distinguishes. `persist_full` has a limit of one section for
two outputs; the code has 64. `fit`: a word of 64 so that sums can wrap, images
of 0 to 17 pixels a side (too small, thin, square, just too large), every small
buffer and fit, and layouts of two and three outputs that meet, are apart, have
no place, or are not selected. The proofs are for any sizes.

Deadlock is checked where the daemon's loop can always turn (`Sweetbgd`,
`SurfaceBuffers`), not where all processes may have ended (socket, persist,
fit).

### Fairness

`Sweetbgd`: weak fairness of the loop outside `poll`, where nothing blocks it;
weak fairness of `Wake` only while a client is at work, because such a client
connects in the end; and strong fairness of client requests: a client that is
ready again and again whenever the daemon reaches `ipc` is served, because the
listen backlog is a queue and one waiting client is accepted in each turn.
Users, the compositor's events and faults have none, and with no client at work
the daemon may wait in `poll` for ever.

So `Converges` has to hold while the daemon waits, and it does, with one
explicit condition. An event that the last roundtrip of `serve`
(`sweetbgd.c:1349`) dispatches may ask for a repaint, and `run_loop` waits before
it reconciles: if nothing happens any more, the output is never repainted. This
is `Overslept(n)`; without it TLC finds that behaviour (an output resized right
after `Start`, then nothing). It is a condition on the first wait alone: after
any wake-up, and in every later wait, all outputs show what they should. That
the screen settles at all is because the bounds end the changes. An output
plugged in, or a surface closed, in that roundtrip waits for its new surface in
the same way; it is not configured, and `Converges` says nothing of it.

`SurfaceBuffers`: weak fairness of each step of the loop and strong fairness of
`Reconcile`, because a turn dispatches only what it has read: however fast
events come, it gets to the end. The compositor handles requests and gives back
a buffer it no longer *shows*; it owes no release of the one it shows.

`ControlSocket`: a daemon that is not stopped handles what has come and makes
the calls of its start and end; the kernel lets commands connect and tells them
of replies. Commands may stop at any point, between any two writes, and owe
nothing; starts, stops and crashes are up to the world. The daemon's deadline
is part of its handling, and `LoopComesBack` rests on it; `CommandsEnd` does not
need the command's own.

## 4. Proofs

Eight modules of proofs, each for any values of the constants that satisfy the
named assumptions of the module it extends.

**`SweetbgdProofs`**: `TypeCorrect` (`TypeOK`), `FramesAreSound` (`FramesSound`),
`GenerationSound` (`FreshIfSameGeneration`). The last only speaks of
`phase = "ipc"`, and is not inductive: during dispatch a surface may change its
size before anyone bumps the generation. `FramesSound` is the inductive
invariant: at every point of the loop a frame with the current generation is up
to date *unless* its output is already condemned (dirty, or for span a layout
change is pending). `ReconcilePaint` turns every condemned output into one with
a new generation. It needs three more facts: a frame's generation never exceeds
its output's; no override holds `span` (otherwise a slice would not be
repainted, since the code looks at the default fit only); and a new surface has
size 0, so its first configure event is always a change of size and makes it
dirty. There is one lemma per request, one per event, one for `ReconcilePaint`,
and one for the frames a query adds.

**`SweetbgdTableProofs`**: `TableIsLegal` (`OverridesLegal`),
`PaletteIsOfShownImage` (`PaletteOfShownImage`). Their invariant is `MemoryOK`:
the table has at most `MaxOverrides` entries and no empty one, the palette of an
entry that has an image is of that image or absent, and so is the palette of
the default image. `PaletteOfShownImage` alone is not inductive: it says nothing
of a default image that all outputs override, whose palette shows as soon as one
override is cleared. Two lemmas carry the argument: forgetting images or fits
keeps a table legal (`ForgetOK`), and so does an entry the table can hold
(`EntryOK`), by cardinalities of finite sets.

**`SweetbgdShownProofs`**: `NothingForgotten` and `NothingForgottenOncePlugged`
(`ShownOrComing`): whenever the daemon is about to serve a client, every
configured output shows what it should or a client that will repaint it is on
its way. The property speaks of one point of the loop; the invariant `Kept`
speaks of all: a configured output is condemned (the next reconcile repaints
it), or shows what it should, or has a helper on its way (`Served`). In between
it needs `FramesSound`: a frame counts as help when it has its output's
generation, and that it is up to date then, so that the daemon neither drops
nor refuses it, is what `FramesSound` says (`CurrentFrame`). So each request is
checked for the same thing: an output that wants another picture than before is
among those it marks (`RepaintKeeps`), and one that repaints nothing leaves
every picture wanted (`QuietKeeps`). A span picture may wait for a layout that
is about to change, and the reconcile that ends the wait repaints it. And each
step of a client must leave all other clients, and its own other frames, as
helpful as they were (`SentHelps`); `JobOK` is what makes a helper so: it skips
no output and renders the path it was sent for.

It holds under three hypotheses, and without any of them the code does leave an
output behind. `Reliable`: no reconcile fails to paint, and no helper and no
client dies; the daemon spawns a helper once and does not watch it. Two are
about the behaviour: `NoneFromBefore`, no frame prepared for an unplugged output
meets its successor (the finding of `replug`); and `DefaultsReach`, a default
image on its way has a fitting frame for every output that lacks it, or there is
one output (what happens otherwise is the finding of `late_output`). A frame
whose reply is lost, images of single outputs that fail, several commands at
once, hotplug, moves and scales are all in it. `NothingForgottenOncePlugged`
discharges both from the constants: if an output name is plugged in once at
most, and each command names its outputs or there is but one, no frame is from
before (`Once`) and no default image passes anything by (`AllNaming`). The runs
`requests` and `span` are instances of it.

**`SurfaceBuffersProofs`**: `SurfaceTypes` (`TypeOK`) and `NoBufferLeaks`
(`Accounted`), from one predicate `Sound` on the daemon's side, kept by every
function of `surface.c` and `shm.c` (a lemma each) and so by every action.

`PixelsKeptWhileRead` (`KeptWhileRead`) and `CommitsAreConfigured`
(`ConfiguredFirst`) relate the two ends of the connection, and neither is
inductive: both are about a request when it arrives, and what makes it harmless
was decided when it was sent. The invariant `Order` says of each buffer what can
be under way at once. A buffer has at most one commit on its way; one whose
release is known, or on its way, is neither read nor to be committed; one that
is read or about to be is still the daemon's, or its free is behind it on the
connection, and behind the free's own cause: the destruction of the surface that
showed it (`GoneBy`). Of each surface it says that what the daemon believes
configured is acknowledged by a request that comes before every commit, or has
been acknowledged. `Reconciled`, `Collected` and `Destroyed` append requests in
exactly the order that keeps it.

**`SocketLifecycleProofs`**: `NoFileLeftBehind` (`StaleOnlyByCrash`), inductive
with the types, and `EstablishedIsKept` (`EstablishedStays`), a step property:
whoever has not passed the probe finds the socket answering and gives up.

**`ControlSocketProofs`**: `ImplementsLifecycle` maps every step to a step of
`SocketLifecycle` or a stutter; `NoFileLeftUnderLoad` is `StaleOnlyByCrash`
through it. `RepliesAreTrue` (`AnswersAreTrue`) needs the invariant `IInv`: a
connection is in one place, either served or once in one queue, and that place
belongs to the daemon its command is connected to; a connection being served
whose frame was not read to the end has not been obeyed, and one with the
status `obeyed` has been, once. `NoDescriptorLeaks` (`DescriptorsClosed`) adds
that a daemon holds the descriptor of its one connection only while some of the
frame has been read and nothing has refused it. `ConnectionsAreOK`
(`ConnectionsOK`) adds where connections may be at all: a process that has not
called `listen`, or has closed its socket, has none, since a descriptor that was
accepted does not outlive the loop that accepted it.

**`PreparedBuffersProofs`**: `SharingIsUnseen` (`OwnPicture`): what a shared
buffer is keyed by is all a placement other than a span depends on.
`RenderingInBounds` (`InBounds`) and `ShapeIsKept` (`Undistorted`) rest on lemmas
about quotients (`QuotientAtMost`, `QuotientBelow`, `QuotientIsProportional`)
and show that cover, contain and centre, which the code does not check when it
runs, stay inside the image and the buffer; a span has its bounds checked when
it runs, so `InBounds` is the check's doing there. `SlicesShareTheirEdges`
(`SlicesMeet`) and `OnlyThinIsRefused` (`RefusesOnlyThin`) say that this check
never has work: for layouts of any size the sums of `layout.c` stay within the
word (`SliceTypes`, `SpanAxisAt`), a slice's edges are the quotients of its
place in the layout, whatever the output (`SpanAxesMeet`), and it lies inside
the crop (`SpanAxisInside`). So the only reason for an image to be refused is a
crop that rounds to nothing (`CoverIsThin`).

**`ConfigPersistProofs`** has three layers. The first is about texts: `Patch`
keeps a text one (`PatchKeepsText`), and after it every key of every part has
the value it had, except those the edit is about (`PatchedValue`, and
`PatchedColor` for the colour, which `auto` leaves as it is), however often a
key or a section is repeated. What the parser reads is the last line with a key
in the last part that has one, so most of this layer is about the greatest
element of a set of positions when lines are replaced, dropped, or added.
`LoadPatch` puts it together: loading a patched text gives the edit of what
loading the text gave. The second is the runners: `PersistInv(T)` says that the
path, the disk and every temporary file hold texts of `T`, for any set `T`
that edits stay within, and that what is renamed was synced and is the
edit of what its runner read. With all texts for `T` it gives
`FileIsAlwaysWhole` (`FileIsWhole`); with those that load, `PersistSavesSettings`
(the refinement of `SavedSettings`). The third is the daemon: while no two
commands overlapped and none failed, what is left to save, made of some
settings that agree with the file, gives what the daemon has (`InStep`), from
which `NothingSavedIsLost` (`NothingLost`) follows when nothing is left. A fold
over the edits of a stage is unrolled by one (`FoldHead`), without an induction
over texts.

The last two have two hypotheses. `SectionsFit`: the outputs are no more than
the sections a file may have; without it the finding of `persist_full` is a
counterexample. `FilesLoad`: the file loads at first; one that does not is
patched all the same, and then still does not load.

The assumptions: `DataAssumption` (finitely many output names, paths are not the
empty string, sizes are natural numbers, a user's values are legal),
`ConfigAssumption` (what the parser accepts), `ImgAssumption` (a command names an
image), `BoundAssumption`; `CommandAssumption` and `TextAssumption` (an edit is one
the daemon accepted; what a text is) of `ConfigPersist`; `ObjectAssumption`, `SocketAssumption`,
`ConnectionAssumption` (distinct names, a queue with room for one);
`WordAssumption` (twice the largest image and twice the largest buffer fit into a
word, as they do in the code) and `InputAssumption` (what 32-bit fields hold).

Every invariant that a run checks is proved. Only model-checked is what holds
under fairness (`Converges`, `Drains`, `LoopComesBack`, `CommandsEnd`, `RestartSucceeds`). Liveness and ENABLED
are out of the prover's reach, as are induction over data and RECURSIVE
operators, which the modules avoid.

## 5. What could come next

* `AssignmentTable`: the array with its compaction as a refinement of the map
  `over`.
* An abstract wallpaper register, what one user of the daemon observes, refined
  by `Sweetbgd`.

## 6. Not modelled

* Values of pixels: what libjpeg, libpng and libwebp decode, the averages a
  range has, the palette (sequential arithmetic over pixels; `Sweetbgd` keeps
  which image a palette is of).
* Text: the lines and the JSON of a query, which is cut at the size of a frame,
  messages, the parsing of arguments, quoting in the configuration file.
* The doctor (it reads and prints) and the choice of a random image of a
  directory (it ends before anything is sent).
* Frames that no command of the program sends: another protocol version, a
  length above the limit, several descriptors.
* Binding of Wayland globals, output names and modes, which are taken as given;
  the cap on outputs; the wrap of the 32-bit generation, which no one reaches
  while a frame is on its way.
* A reply that is written in part: it is at most a frame of 4 KiB, the first
  bytes on a non-blocking connection, and goes into the socket's buffer at once.
