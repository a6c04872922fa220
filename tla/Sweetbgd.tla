------------------------------ MODULE Sweetbgd ------------------------------
(***************************************************************************)
(* The wallpaper protocol of sweetbg: the daemon (src/src/sweetbgd.c), the *)
(* compositor that drives its outputs and surfaces, and the client         *)
(* processes that prepare images for it -- `sweetbg img` commands typed by *)
(* a user and the `sweetbg prepare-set` helpers the daemon spawns.         *)
(*                                                                         *)
(* The daemon is one thread.  Each turn of its loop waits (phase "poll"),  *)
(* dispatches Wayland events (phase "dispatch"), then creates missing      *)
(* surfaces and reconciles what needs repainting, then serves at most one  *)
(* client (phase "ipc").  The first wait comes right after the last        *)
(* roundtrip of the start (phase "contents"), whose events are reconciled  *)
(* only in the turn after that wait.                                       *)
(* A client asks for the outputs once, renders a picture per output from   *)
(* that snapshot, and sends the pictures one frame per connection; anything*)
(* may happen to the daemon between those requests.  A per-output          *)
(* generation number is what tells a frame that is still good from one     *)
(* that is not.                                                            *)
(*                                                                         *)
(* A picture is not its pixels but what its pixels depend on: path, fit,   *)
(* buffer size, letterbox fill and, for span, the layout it was cut from.  *)
(***************************************************************************)
EXTENDS Naturals, Sequences, FiniteSets, Bags

CONSTANTS
  Names,          \* output (connector) names
  Paths,          \* image files
  Colors,         \* background colours
  Boxes,          \* logical position and size of an output in the layout
  Widths,         \* surface sizes the compositor may configure
  Scales,         \* integer output scales (wl_output.scale)
  Fractions,      \* preferred fractional scales, in 120ths
  MaxOverrides,   \* SWEETBG_MAX_OVERRIDES
  UserFits,       \* fits a user sets
  UserColors,     \* colours a user sets; Unset stands for auto
  UserClears,     \* flag sets a user clears
  UserConfigs,    \* configuration files a reload or a start may find
  ImgCommands,    \* `sweetbg img` commands a user types
  ReadableSets,   \* sets of image files access(R_OK) may succeed on
  PaintFaults,    \* sets of outputs a reconcile may fail to paint
  JobFaults,      \* what goes wrong with clients, of FaultKinds
  MaxGeneration,  \* bound: no new request or event past this generation
  MaxJobs,        \* bound: no new request or event with this many clients
  MaxPlugs        \* bound: how often one output name may be plugged

Fits == {"cover", "contain", "center", "tile", "span"}
Blank == ""            \* the path of an output that shows no image
DefaultColor == "base"
FaultKinds == {"img", "helper", "lost", "die"}
Unset == "unset"       \* a NULL path, a fit that is not set, no palette

ASSUME DataAssumption ==
  /\ IsFiniteSet(Names)
  /\ Paths \cap {Blank, Unset} = {}
  /\ Widths \subseteq Nat \ {0} /\ Scales \subseteq Nat
  /\ Fractions \subseteq Nat \ {0}
  /\ UserFits \subseteq Fits
  /\ UserClears \subseteq SUBSET {"image", "fit", "blank"}
  /\ UserColors \subseteq Colors \cup {Unset}
  /\ DefaultColor \in Colors /\ Unset \notin Colors

Sections == [image : Paths \cup {Blank, Unset}, fit : (Fits \ {"span"}) \cup {Unset}]

\* config_parse refuses a file with more sections than the table holds
ASSUME ConfigAssumption ==
  /\ \A cfg \in UserConfigs :
       /\ cfg.bad \in BOOLEAN /\ cfg.color \in Colors /\ cfg.auto \in BOOLEAN
       /\ cfg.fit \in Fits /\ cfg.image \in Paths \cup {Blank, Unset}
       /\ cfg.outputs \in [Names -> Sections]
       /\ Cardinality({n \in Names : \/ cfg.outputs[n].image # Unset
                                    \/ cfg.outputs[n].fit # Unset}) <= MaxOverrides
  /\ ReadableSets \subseteq SUBSET Paths

\* a command names a default image, outputs with images, or both
ASSUME ImgAssumption ==
  \A cmd \in ImgCommands :
    /\ cmd.default \in Paths \cup {Unset}
    /\ cmd.overrides \in Seq([name : Names, path : Paths])
    /\ cmd.default # Unset \/ cmd.overrides # << >>

ASSUME BoundAssumption ==
  /\ MaxOverrides \in Nat
  /\ MaxGeneration \in Nat /\ MaxJobs \in Nat /\ MaxPlugs \in Nat
  /\ JobFaults \subseteq FaultKinds
  /\ {} \in PaintFaults /\ PaintFaults \subseteq SUBSET Names

VARIABLES
  phase,        \* where the daemon's loop is
  daemon,       \* struct daemon: colour, fit, default image, overrides
  out,          \* struct sweetbg_output and its surface, per name
  layoutDirty,  \* registry.layout_dirty
  listed,       \* outputs created so far; the newest heads the list
  jobs,         \* bag of client processes at work
  plugs         \* ghost: how often each name was plugged

vars == <<phase, daemon, out, layoutDirty, listed, jobs, plugs>>

-----------------------------------------------------------------------------
(* Pictures.                                                               *)

NoSpan == [n \in {} |-> Unset]
NoFill == <<FALSE, Unset>>

Nothing == [path |-> Unset, fit |-> Unset, buf |-> 0,
            fill |-> NoFill, span |-> NoSpan]

Background(c) == [path |-> Blank, fit |-> Unset, buf |-> 0,
                  fill |-> <<FALSE, c>>, span |-> NoSpan]

UsesColor(fit) == fit \in {"contain", "center"}
\* mutant: an output may be given the fit span
GlobalOnlyNever(fit) == FALSE

GlobalOnly(fit) == fit = "span"

Fill(d) == <<d.auto, d.color>>

BufferSize(o) ==
  IF o.frac > 0 THEN (o.width * o.frac + 60) \div 120
                ELSE o.width * (IF o.scale < 1 THEN 1 ELSE o.scale)

Layout(os) == [n \in {m \in Names : os[m].configured} |-> os[n].box]

Render(p, fit, d, os, n) ==
  [path |-> p, fit |-> fit, buf |-> BufferSize(os[n]),
   fill |-> IF UsesColor(fit) THEN Fill(d) ELSE NoFill,
   span |-> IF fit = "span" THEN Layout(os) ELSE NoSpan]

-----------------------------------------------------------------------------
(* The table of per-output overrides.  A name without an entry is          *)
(* NoOverride; an entry left with neither path nor fit is compacted away.  *)

NoOverride == [path |-> Unset, fit |-> Unset, palette |-> Unset]

HasEntry(over, n) == over[n].path # Unset \/ over[n].fit # Unset

Entries(over) == {n \in Names : HasEntry(over, n)}

TableFull(over) == Cardinality(Entries(over)) >= MaxOverrides

\* mutant: a new entry is added to a full table
CanHoldAlways(over, n) == TRUE

CanHold(over, n) == HasEntry(over, n) \/ ~TableFull(over)

Compact(over) ==
  [n \in Names |-> IF HasEntry(over, n) THEN over[n] ELSE NoOverride]

WithoutImages(over) == Compact([n \in Names |-> [over[n] EXCEPT !.path = Unset]])
WithoutFits(over) == Compact([n \in Names |-> [over[n] EXCEPT !.fit = Unset]])
WithoutImage(over, n) == Compact([over EXCEPT ![n].path = Unset])
WithoutFit(over, n) == Compact([over EXCEPT ![n].fit = Unset])

EffPath(d, n) ==
  IF d.over[n].path # Unset THEN d.over[n].path
  ELSE IF d.path # Unset THEN d.path ELSE Blank

EffFit(d, n) == IF d.over[n].fit # Unset THEN d.over[n].fit ELSE d.fit

EffPalette(d, n) ==
  IF d.over[n].path # Unset THEN d.over[n].palette ELSE d.palette

\* mutant: a palette always replaces the one of the default image
SetPaletteGlobal(d, n, p) == [d EXCEPT !.palette = p]

SetPalette(d, n, p) ==
  IF d.over[n].path # Unset THEN [d EXCEPT !.over[n].palette = p]
                            ELSE [d EXCEPT !.palette = p]

Wanted(d, os, n) ==
  IF EffPath(d, n) = Blank THEN Background(d.color)
  ELSE Render(EffPath(d, n), EffFit(d, n), d, os, n)

-----------------------------------------------------------------------------
(* Client processes.  A job runs stages one after the other; a stage asks  *)
(* for the outputs, then sends one frame for each output it selected, in   *)
(* the order of the daemon's list (highest rank first).                    *)

Stage(mode, p, names, skip) ==
  [mode |-> mode, path |-> p, names |-> names, skip |-> skip]

JobAt(stage, rest, fallback) ==
  [mode |-> stage.mode, path |-> stage.path,
   names |-> stage.names, skip |-> stage.skip,
   asked |-> FALSE, frames |-> {}, failed |-> FALSE,
   stages |-> rest, fallback |-> fallback]

Helper(p, names) == JobAt(Stage("repaint", p, names, {}), << >>, Unset)

Overridden(cmd) == {cmd.overrides[i].name : i \in DOMAIN cmd.overrides}

ImgStages(cmd) ==
  (IF cmd.default # Unset
   THEN <<Stage("default", cmd.default, Names, Overridden(cmd))>>
   ELSE << >>)
  \o [i \in DOMAIN cmd.overrides |->
        Stage("override", cmd.overrides[i].path, {cmd.overrides[i].name}, {})]

ImgJob(cmd) == JobAt(Head(ImgStages(cmd)), Tail(ImgStages(cmd)), cmd.default)

\* What becomes of a job after a step: nothing, the same stage or the next.
\* A failed override of a command with a default image restores the default.
Advance(j) ==
  IF ~j.asked \/ j.frames # {} THEN {j}
  ELSE IF j.mode = "override" /\ j.failed /\ j.fallback # Unset
  THEN {JobAt(Stage("repaint", j.fallback, j.names, {}), j.stages, j.fallback)}
  ELSE IF j.stages # << >>
  THEN {JobAt(Head(j.stages), Tail(j.stages), j.fallback)}
  ELSE {}

Replace(js, j, new) == (js (-) SetToBag({j})) (+) SetToBag(new)

Working == DOMAIN jobs

-----------------------------------------------------------------------------
(* reconcile_paint: repaint what is dirty.  Placeholders get the colour at *)
(* once; images are handed to one helper per path.  `d`, `os` and `js` are *)
(* the daemon, the outputs and the clients as the caller left them.        *)

\* mutants: a repaint of span misses outputs that moved, or those repainted
SpanDueInPlace(os, moved) == \E n \in Names : os[n].configured /\ os[n].dirty
SpanDueMoved(os, moved) == moved \/ \E n \in Names : os[n].moved

SpanDue(os, moved) ==
  \/ moved
  \/ \E n \in Names : os[n].moved
  \/ \E n \in Names : os[n].configured /\ os[n].dirty

SpreadSpan(d, os, moved) ==
  [n \in Names |->
     [os[n] EXCEPT
        !.moved = FALSE,
        !.dirty = @ \/ (d.fit = "span" /\ SpanDue(os, moved) /\ os[n].configured)]]

Due(os) == {n \in Names : os[n].configured /\ os[n].dirty}

\* mutant: a repaint keeps the generation
RepaintedSameGeneration(d, o, n, failed) ==
  LET blank == EffPath(d, n) = Blank
      paint == ~failed /\ (blank \/ o.content = Nothing)
  IN [o EXCEPT !.dirty = blank /\ failed,
               !.content = IF paint THEN Background(d.color) ELSE @]

Repainted(d, o, n, failed) ==
  LET blank == EffPath(d, n) = Blank
      paint == ~failed /\ (blank \/ o.content = Nothing)
  IN [o EXCEPT !.gen = @ + 1,
               !.dirty = blank /\ failed,
               !.content = IF paint THEN Background(d.color) ELSE @]

Helpers(d, due) ==
  {Helper(p, {n \in due : EffPath(d, n) = p}) :
     p \in {EffPath(d, n) : n \in due} \ {Blank}}

Reconciled(d, os, moved, faults) ==
  LET spread == SpreadSpan(d, os, moved)
  IN [n \in Names |-> IF n \in Due(spread)
                      THEN Repainted(d, spread[n], n, n \in faults)
                      ELSE spread[n]]

\* bound: an output stays dirty, and is repainted again, after a failure
GenerationRoom == \A n \in Names : out[n].gen < MaxGeneration

ReconcilePaint(d, os, js) ==
  /\ \E faults \in PaintFaults :
       /\ faults = {} \/ GenerationRoom
       /\ out' = Reconciled(d, os, layoutDirty, faults)
  /\ jobs' = js (+) SetToBag(Helpers(d, Due(SpreadSpan(d, os, layoutDirty))))
  /\ layoutDirty' = FALSE

MarkDirty(os, S) ==
  [n \in Names |-> [os[n] EXCEPT !.dirty = @ \/ n \in S]]

NextGeneration(os, S) ==
  [n \in Names |-> [os[n] EXCEPT !.gen = IF n \in S THEN @ + 1 ELSE @]]

Configured == {n \in Names : out[n].configured}

-----------------------------------------------------------------------------
(* Outputs and surfaces.                                                   *)

Unplugged ==
  [plugged |-> FALSE, live |-> FALSE, configured |-> FALSE, dirty |-> FALSE,
   content |-> Nothing, width |-> 0, frac |-> 0, scale |-> 1,
   box |-> Unset, moved |-> FALSE, gen |-> 0, rank |-> 0]

NewOutput(b, rank) ==
  [Unplugged EXCEPT !.plugged = TRUE, !.box = b, !.moved = TRUE, !.rank = rank]

\* mutant: a new surface starts with the size of the last one
NewSurfaceKeepsSize(o) ==
  [o EXCEPT !.live = TRUE, !.configured = FALSE, !.dirty = FALSE,
            !.content = Nothing, !.frac = 0]

\* sweetbg_surface_create clears the whole struct before it fills it
NewSurface(o) ==
  [o EXCEPT !.live = TRUE, !.configured = FALSE, !.dirty = FALSE,
            !.content = Nothing, !.width = 0, !.frac = 0]

\* mutant: a closed surface stays configured
ClosedSurfaceConfigured(o) == [o EXCEPT !.live = FALSE, !.content = Nothing]

ClosedSurface(o) ==
  [o EXCEPT !.live = FALSE, !.configured = FALSE, !.content = Nothing]

EnsureSurfaces(os) ==
  [n \in Names |-> IF os[n].plugged /\ ~os[n].live THEN NewSurface(os[n])
                                                   ELSE os[n]]

NoDaemon ==
  [color |-> DefaultColor, auto |-> FALSE, fit |-> "cover", path |-> Unset,
   palette |-> Unset, over |-> [n \in Names |-> NoOverride]]

Init ==
  /\ phase = "registry"
  /\ daemon = NoDaemon
  /\ out = [n \in Names |-> Unplugged]
  /\ layoutDirty = FALSE
  /\ listed = 0
  /\ jobs = EmptyBag
  /\ plugs = [n \in Names |-> 0]

\* The bounds: no new event or request when a counter is at its limit.
Room == GenerationRoom /\ BagCardinality(jobs) < MaxJobs

Dispatching ==
  phase \in {"registry", "surfaces", "contents", "dispatch"} /\ Room

Plug(n, b) ==
  /\ Dispatching
  /\ ~out[n].plugged /\ plugs[n] < MaxPlugs
  /\ listed' = listed + 1
  /\ out' = [out EXCEPT ![n] = NewOutput(b, listed + 1)]
  /\ layoutDirty' = TRUE
  /\ plugs' = [plugs EXCEPT ![n] = @ + 1]
  /\ UNCHANGED <<phase, daemon, jobs>>

Unplug(n) ==
  /\ Dispatching
  /\ out[n].plugged
  /\ out' = [out EXCEPT ![n] = Unplugged]
  /\ layoutDirty' = TRUE
  /\ UNCHANGED <<phase, daemon, listed, jobs, plugs>>

Move(n, b) ==
  /\ Dispatching
  /\ out[n].plugged /\ out[n].box # b
  /\ out' = [out EXCEPT ![n].box = b, ![n].moved = TRUE]
  /\ UNCHANGED <<phase, daemon, layoutDirty, listed, jobs, plugs>>

Scale(n, s) ==
  /\ Dispatching
  /\ out[n].plugged /\ out[n].scale # s
  /\ out' = [out EXCEPT ![n].scale = s, ![n].dirty = TRUE]
  /\ UNCHANGED <<phase, daemon, layoutDirty, listed, jobs, plugs>>

PreferredScale(n, f) ==
  /\ Dispatching
  /\ out[n].live /\ out[n].frac # f
  /\ out' = [out EXCEPT ![n].frac = f, ![n].dirty = TRUE]
  /\ UNCHANGED <<phase, daemon, layoutDirty, listed, jobs, plugs>>

Configure(n, w) ==
  /\ Dispatching
  /\ out[n].live
  /\ out' = [out EXCEPT ![n].dirty = @ \/ out[n].width # w,
                        ![n].width = w, ![n].configured = TRUE]
  /\ UNCHANGED <<phase, daemon, layoutDirty, listed, jobs, plugs>>

Closed(n) ==
  /\ Dispatching
  /\ out[n].live
  /\ out' = [out EXCEPT ![n] = ClosedSurface(out[n])]
  /\ UNCHANGED <<phase, daemon, layoutDirty, listed, jobs, plugs>>

CompositorEvent ==
  \E n \in Names :
    \/ \E b \in Boxes : Plug(n, b) \/ Move(n, b)
    \/ Unplug(n)
    \/ \E s \in Scales : Scale(n, s)
    \/ \E f \in Fractions : PreferredScale(n, f)
    \/ \E w \in Widths : Configure(n, w)
    \/ Closed(n)

-----------------------------------------------------------------------------
(* Configuration: the values a config.toml holds.  A file that does not    *)
(* parse (BadConfig) loads as the defaults.                                *)

DefaultConfig ==
  [bad |-> FALSE, color |-> DefaultColor, auto |-> FALSE, fit |-> "cover", image |-> Unset,
   outputs |-> [n \in Names |-> [image |-> Unset, fit |-> Unset]]]

BadConfig == [DefaultConfig EXCEPT !.bad = TRUE]

Images(cfg) ==
  {cfg.image} \cup {cfg.outputs[n].image : n \in Names}

Readable(p, readable) == p \in {Unset, Blank} \/ p \in readable

LoadedOverride(section, readable) ==
  [NoOverride EXCEPT
     !.path = IF Readable(section.image, readable) THEN section.image ELSE Unset,
     !.fit = section.fit]

Loaded(cfg, readable) ==
  [color |-> cfg.color, auto |-> cfg.auto, fit |-> cfg.fit,
   path |-> IF cfg.image \in readable THEN cfg.image ELSE Unset,
   palette |-> Unset,
   over |-> [n \in Names |-> LoadedOverride(cfg.outputs[n], readable)]]

-----------------------------------------------------------------------------
(* Start and the main loop.                                                *)

FirstSurfaces ==
  /\ phase = "registry"
  /\ phase' = "surfaces"
  /\ out' = EnsureSurfaces(out)
  /\ UNCHANGED <<daemon, layoutDirty, listed, jobs, plugs>>

Start(cfg, readable) ==
  LET d == Loaded(cfg, readable)
  IN /\ phase = "surfaces"
     /\ phase' = "contents"
     /\ daemon' = d
     /\ ReconcilePaint(d, out, jobs)
     /\ UNCHANGED <<listed, plugs>>

\* poll returns: an event or a client is there.  What wakes the daemon may
\* change nothing here, such as the release of a buffer.
Wake ==
  /\ phase \in {"contents", "poll"}
  /\ phase' = "dispatch"
  /\ UNCHANGED <<daemon, out, layoutDirty, listed, jobs, plugs>>

Reconcile ==
  /\ phase = "dispatch"
  /\ phase' = "ipc"
  /\ ReconcilePaint(daemon, EnsureSurfaces(out), jobs)
  /\ UNCHANGED <<daemon, listed, plugs>>

NoRequest ==
  /\ phase = "ipc"
  /\ phase' = "poll"
  /\ UNCHANGED <<daemon, out, layoutDirty, listed, jobs, plugs>>

\* A request that is served ends the turn of the loop.
Serve ==
  /\ phase = "ipc"
  /\ phase' = "poll"
  /\ UNCHANGED <<listed, plugs>>

\* The daemon ends (stop command, signal, crash, lost compositor); its
\* clients do not.
Stop ==
  /\ phase # "down"
  /\ \A n \in Names : plugs[n] < MaxPlugs
  /\ phase' = "down"
  /\ daemon' = NoDaemon
  /\ out' = [n \in Names |-> Unplugged]
  /\ layoutDirty' = FALSE
  /\ listed' = 0
  /\ UNCHANGED <<jobs, plugs>>

Boot ==
  /\ phase = "down"
  /\ phase' = "registry"
  /\ UNCHANGED <<daemon, out, layoutDirty, listed, jobs, plugs>>

-----------------------------------------------------------------------------
(* set, clear and reload requests.  A request the daemon rejects changes   *)
(* nothing and is not distinguished from NoRequest.                        *)

NoRepaint == UNCHANGED <<out, layoutDirty, jobs>>

RepaintAfterChange(d, colorChanged, fitChanged) ==
  LET blank == {n \in Configured : EffPath(d, n) = Blank}
      stale == {n \in Configured \ blank :
                  fitChanged \/ (colorChanged /\ UsesColor(EffFit(d, n)))}
  IN IF colorChanged
     THEN ReconcilePaint(d, MarkDirty(out, blank \cup stale), jobs)
     ELSE ReconcilePaint(d, MarkDirty(NextGeneration(out, blank), stale), jobs)

\* mutant: the fit of an output without an image changes silently
RepaintAfterFitSilent(d, n) ==
  IF ~out[n].configured \/ EffFit(d, n) = EffFit(daemon, n) \/ EffPath(d, n) = Blank
  THEN NoRepaint
  ELSE ReconcilePaint(d, MarkDirty(out, {n}), jobs)

RepaintAfterFit(d, n) ==
  IF ~out[n].configured \/ EffFit(d, n) = EffFit(daemon, n)
  THEN NoRepaint
  ELSE IF EffPath(d, n) = Blank
  THEN out' = NextGeneration(out, {n}) /\ UNCHANGED <<layoutDirty, jobs>>
  ELSE ReconcilePaint(d, MarkDirty(out, {n}), jobs)

AnyFit(over) == \E n \in Names : over[n].fit # Unset
AnyImage(over) == \E n \in Names : over[n].path # Unset

SetFit(f) ==
  LET d == [daemon EXCEPT !.fit = f, !.over = WithoutFits(@)]
  IN /\ Serve /\ Room
     /\ daemon' = d
     /\ IF f # daemon.fit \/ AnyFit(daemon.over)
        THEN RepaintAfterChange(d, FALSE, TRUE) ELSE NoRepaint

SetOutputFit(n, f) ==
  LET d == [daemon EXCEPT !.over[n].fit = f]
  IN /\ Serve /\ Room
     /\ ~GlobalOnly(f) /\ out[n].plugged /\ CanHold(daemon.over, n)
     /\ daemon' = d
     /\ RepaintAfterFit(d, n)

SetColor(c) ==
  LET d == [daemon EXCEPT !.auto = (c = Unset),
                          !.color = IF c = Unset THEN @ ELSE c]
  IN /\ Serve /\ Room
     /\ daemon' = d
     /\ IF d # daemon THEN RepaintAfterChange(d, TRUE, FALSE) ELSE NoRepaint

ClearAll(flags) ==
  LET image == "image" \in flags
      fit == "fit" \in flags
      d1 == IF image THEN [daemon EXCEPT !.path = Unset, !.palette = Unset,
                                         !.over = WithoutImages(@)]
                     ELSE daemon
      d == IF fit THEN [d1 EXCEPT !.fit = "cover", !.over = WithoutFits(@)]
                  ELSE d1
  IN /\ Serve /\ Room
     /\ "blank" \notin flags
     /\ daemon' = d
     /\ IF image /\ (daemon.path # Unset \/ AnyImage(daemon.over))
        THEN ReconcilePaint(d, MarkDirty(out, Configured), jobs)
        ELSE IF fit /\ (daemon.fit # "cover" \/ AnyFit(daemon.over))
        THEN RepaintAfterChange(d, FALSE, TRUE)
        ELSE NoRepaint

ClearOutput(flags, n) ==
  LET over1 == IF "blank" \in flags
               THEN [daemon.over EXCEPT ![n].path = Blank, ![n].palette = Unset]
               ELSE IF "image" \in flags THEN WithoutImage(daemon.over, n)
               ELSE daemon.over
      over2 == IF "fit" \in flags THEN WithoutFit(over1, n) ELSE over1
      d == [daemon EXCEPT !.over = over2]
  IN /\ Serve /\ Room
     /\ ~({"blank", "image"} \subseteq flags)
     /\ out[n].plugged
     /\ "blank" \in flags => CanHold(daemon.over, n)
     /\ daemon' = d
     /\ IF \/ "blank" \in flags /\ EffPath(daemon, n) # Blank
           \/ "image" \in flags /\ daemon.over[n].path # Unset
        THEN ReconcilePaint(d, MarkDirty(out, {n}), jobs)
        ELSE RepaintAfterFit(d, n)

\* `checked` and `readable`: what access() finds when the images are
\* validated, and again when the configuration is applied.
Reload(cfg, checked, readable) ==
  LET d == Loaded(cfg, readable)
  IN /\ Serve /\ Room
     /\ ~cfg.bad
     /\ \A p \in Images(cfg) : Readable(p, checked)
     /\ daemon' = d
     /\ ReconcilePaint(d, MarkDirty(out, Configured), jobs)

UserRequest ==
  \/ \E f \in UserFits : SetFit(f) \/ \E n \in Names : SetOutputFit(n, f)
  \/ \E c \in UserColors : SetColor(c)
  \/ \E flags \in UserClears :
       ClearAll(flags) \/ \E n \in Names : ClearOutput(flags, n)
  \/ \E cfg \in UserConfigs, r1, r2 \in ReadableSets : Reload(cfg, r1, r2)

-----------------------------------------------------------------------------
(* Clients: `sweetbg img` commands and prepare-set helpers.                *)

StartImg(cmd) ==
  /\ Room
  /\ jobs' = jobs (+) SetToBag({ImgJob(cmd)})
  /\ UNCHANGED <<phase, daemon, out, layoutDirty, listed, plugs>>

FrameFor(j, n) ==
  [name |-> n, plug |-> plugs[n], gen |-> out[n].gen, rank |-> out[n].rank,
   pic |-> Render(j.path, EffFit(daemon, n), daemon, out, n)]

\* A default image is also carried by a frame for the first output when
\* every output is skipped.
Selected(j) ==
  LET chosen == (Configured \cap j.names) \ j.skip
  IN IF chosen = {} /\ j.mode = "default"
     THEN {n \in Configured : \A m \in Configured : out[m].rank <= out[n].rank}
     ELSE chosen

Answered(j) ==
  [j EXCEPT !.asked = TRUE,
            !.frames = {FrameFor(j, n) : n \in Selected(j)},
            !.failed = Selected(j) = {} /\ j.mode # "repaint"]

Query(j) ==
  /\ Serve
  /\ ~j.asked
  /\ jobs' = Replace(jobs, j, Advance(Answered(j)))
  /\ UNCHANGED <<daemon, out, layoutDirty>>

IsNext(j, f) == f \in j.frames /\ \A g \in j.frames : g.rank <= f.rank

Sent(j, f, ok) == [j EXCEPT !.frames = @ \ {f}, !.failed = @ \/ ~ok]

\* A reply may be lost (the client waits five seconds for it): the frame is
\* served, and the client takes it for failed.  The backlog is served in
\* order, so nothing later from that client overtakes the frame.
Replies == IF "lost" \in JobFaults THEN BOOLEAN ELSE {TRUE}

\* mutant: no frame is ever stale
StaleNever(f) == FALSE

Stale(f) == f.gen # out[f.name].gen

Attachable(f) ==
  /\ out[f.name].configured
  /\ f.pic.buf = BufferSize(out[f.name])

Superseded(j, f) ==
  /\ j.mode = "repaint"
  /\ Stale(f) \/ j.path # EffPath(daemon, f.name)

SendRefused(j, f) ==
  /\ Serve
  /\ IsNext(j, f)
  /\ \/ ~Attachable(f)
     \/ j.mode = "override" /\ ~CanHold(daemon.over, f.name)
     \/ ~Superseded(j, f) /\ f.name \in UNION PaintFaults
  /\ jobs' = Replace(jobs, j, Advance(Sent(j, f, FALSE)))
  /\ UNCHANGED <<daemon, out, layoutDirty>>

SendSuperseded(j, f) ==
  /\ Serve
  /\ IsNext(j, f)
  /\ Attachable(f) /\ Superseded(j, f)
  /\ \E ok \in Replies : jobs' = Replace(jobs, j, Advance(Sent(j, f, ok)))
  /\ UNCHANGED <<daemon, out, layoutDirty>>

\* mutant: a default image leaves the images of single outputs
RememberedBeside(d, mode, n, p) ==
  IF mode = "default" THEN [d EXCEPT !.path = p]
  ELSE IF mode = "override" THEN [d EXCEPT !.over[n].path = p]
  ELSE d

Remembered(d, mode, n, p) ==
  IF mode = "default"
  THEN [d EXCEPT !.path = p, !.over = WithoutImages(@)]
  ELSE IF mode = "override" THEN [d EXCEPT !.over[n].path = p]
  ELSE d

Attached(o, f, mode) ==
  [o EXCEPT !.content = f.pic, !.dirty = FALSE,
            !.gen = IF mode = "repaint" THEN @ ELSE @ + 1]

SendApplied(j, f, ok) ==
  LET n == f.name
      d == SetPalette(Remembered(daemon, j.mode, n, j.path), n, j.path)
      os == [out EXCEPT ![n] = Attached(out[n], f, j.mode)]
      js == Replace(jobs, j, Advance(Sent(j, f, ok)))
  IN /\ Serve
     /\ IsNext(j, f)
     /\ Attachable(f) /\ ~Superseded(j, f)
     /\ j.mode = "override" => CanHold(daemon.over, n)
     /\ daemon' = d
     /\ IF j.mode # "repaint" /\ Stale(f)
        THEN ReconcilePaint(d, MarkDirty(os, {n}), js)
        ELSE out' = os /\ jobs' = js /\ UNCHANGED layoutDirty

ClientRequest ==
  \E j \in Working :
    \/ Query(j)
    \/ \E f \in j.frames :
         \/ SendRefused(j, f)
         \/ SendSuperseded(j, f)
         \/ \E ok \in Replies : SendApplied(j, f, ok)

\* A stage or a frame fails before it reaches the daemon: there is none, or
\* the image does not decode or render.
Fail(j) ==
  /\ \/ phase = "down"
     \/ (IF j.mode = "repaint" THEN "helper" ELSE "img") \in JobFaults
  /\ \/ /\ ~j.asked
        /\ jobs' = Replace(jobs, j,
                           Advance([j EXCEPT !.asked = TRUE, !.failed = TRUE]))
     \/ \E f \in j.frames :
          IsNext(j, f) /\ jobs' = Replace(jobs, j, Advance(Sent(j, f, FALSE)))
  /\ UNCHANGED <<phase, daemon, out, layoutDirty, listed, plugs>>

Die(j) ==
  /\ "die" \in JobFaults
  /\ jobs' = jobs (-) SetToBag({j})
  /\ UNCHANGED <<phase, daemon, out, layoutDirty, listed, plugs>>

ClientFault == \E j \in Working : Fail(j) \/ Die(j)

Loop ==
  \/ FirstSurfaces
  \/ \E cfg \in UserConfigs, r \in ReadableSets : Start(cfg, r)
  \/ Reconcile
  \/ NoRequest

Next ==
  \/ CompositorEvent
  \/ Loop
  \/ Wake
  \/ UserRequest
  \/ \E cmd \in ImgCommands : StartImg(cmd)
  \/ ClientRequest
  \/ ClientFault
  \/ Stop
  \/ Boot

Spec == Init /\ [][Next]_vars

(* The loop is never idle outside poll.  Nothing wakes it there but events, *)
(* users and clients, and only clients come on their own: one that is at    *)
(* work connects in the end.  The backlog is served in order, so a client   *)
(* that keeps being ready to ask or send is served in the end.              *)
Fairness ==
  /\ WF_vars(Loop)
  /\ WF_vars(Wake /\ Working # {})
  /\ SF_vars(ClientRequest)

FairSpec == Spec /\ Fairness

-----------------------------------------------------------------------------
(* Properties.                                                             *)

Image == Paths \cup {Blank, Unset}
Spans == UNION {[S -> Boxes \cup {Unset}] : S \in SUBSET Names}

Pictures == [path : Image, fit : Fits \cup {Unset}, buf : Nat,
             fill : BOOLEAN \X (Colors \cup {Unset}), span : Spans]

Override == [path : Image, fit : Fits \cup {Unset}, palette : Paths \cup {Unset}]

Daemon == [color : Colors, auto : BOOLEAN, fit : Fits,
           path : Paths \cup {Unset}, palette : Paths \cup {Unset},
           over : [Names -> Override]]

Output == [plugged : BOOLEAN, live : BOOLEAN, configured : BOOLEAN,
           dirty : BOOLEAN, moved : BOOLEAN, content : Pictures,
           width : Nat, frac : Nat, scale : Nat, box : Boxes \cup {Unset},
           gen : Nat, rank : Nat]

Modes == {"default", "override", "repaint"}

Stages == [mode : Modes, path : Paths, names : SUBSET Names, skip : SUBSET Names]

Frames == [name : Names, plug : Nat, gen : Nat, rank : Nat, pic : Pictures]

Jobs == [mode : Modes, path : Paths, names : SUBSET Names, skip : SUBSET Names,
         asked : BOOLEAN, frames : SUBSET Frames, failed : BOOLEAN,
         stages : Seq(Stages), fallback : Paths \cup {Unset}]

\* a surface is configured only while it exists, and it exists only while
\* its output does
OutputsOK(os) ==
  /\ os \in [Names -> Output]
  /\ \A n \in Names : /\ os[n].configured => os[n].live
                      /\ os[n].live => os[n].plugged

ClientsOK(js) == IsABag(js) /\ DOMAIN js \subseteq Jobs

\* The type invariant of the daemon, its outputs and its clients.
TypeOK ==
  /\ phase \in {"registry", "surfaces", "contents", "poll", "dispatch", "ipc", "down"}
  /\ daemon \in Daemon
  /\ OutputsOK(out)
  /\ layoutDirty \in BOOLEAN /\ listed \in Nat
  /\ ClientsOK(jobs)
  /\ plugs \in [Names -> Nat]

FramesOf(js) == UNION {j.frames : j \in DOMAIN js}
InFlight == FramesOf(jobs)

\* The frame was prepared for the output as it is plugged in now.
SamePlug(f) == f.plug = plugs[f.name]

\* While a surface waits to be configured the layout is about to change, and
\* then every configured output is repainted.
Settled == \A n \in Names : out[n].plugged => out[n].configured

SamePicture(pic, wanted) ==
  pic = wanted \/ (~Settled /\ [pic EXCEPT !.span = wanted.span] = wanted)

(* The generation number is sound: whenever the daemon is about to serve a  *)
(* client, a prepared frame still on its way that carries its output's      *)
(* current generation is pixel for pixel what the daemon would have         *)
(* rendered now for that path -- same fit, buffer size, letterbox colour    *)
(* and, for span, same layout.  Only generation, size and path are compared *)
(* by handle_img_prepared; every handler that changes anything else has to  *)
(* bump the generation for this to hold.                                    *)
FreshIfSameGeneration ==
  phase = "ipc" =>
    \A f \in InFlight :
      LET n == f.name IN
      SamePlug(f) /\ out[n].configured /\ f.gen = out[n].gen =>
        SamePicture(f.pic, Render(f.pic.path, EffFit(daemon, n), daemon, out, n))

\* Between two reconciliations an output that is dirty, and for span a layout
\* that moved, already condemn the frames that carry the current generation.
Condemned(n) == phase # "ipc" /\ out[n].dirty
LayoutPending ==
  /\ phase # "ipc"
  /\ layoutDirty \/ \E n \in Names : out[n].moved \/ (out[n].configured /\ out[n].dirty)

UpToDate(f, n) ==
  /\ f.pic.fit = EffFit(daemon, n)
  /\ f.pic.buf = BufferSize(out[n])
  /\ f.pic.fill = IF UsesColor(f.pic.fit) THEN Fill(daemon) ELSE NoFill
  /\ f.pic.fit # "span" => f.pic.span = NoSpan
  /\ f.pic.fit = "span" /\ Settled /\ ~LayoutPending => f.pic.span = Layout(out)

FrameSound(f) ==
  /\ f.plug <= plugs[f.name]
  /\ SamePlug(f) /\ out[f.name].plugged =>
       phase \in {"contents", "poll", "dispatch", "ipc"} /\ f.gen <= out[f.name].gen
  /\ /\ SamePlug(f) /\ out[f.name].configured
     /\ f.gen = out[f.name].gen /\ ~Condemned(f.name)
     => UpToDate(f, f.name)

NoSpanOverride == \A n \in Names : ~GlobalOnly(daemon.over[n].fit)

\* a surface has no size before its first configure event
SizedByConfigure ==
  \A n \in Names : out[n].live /\ ~out[n].configured => out[n].width = 0

(* The inductive strengthening of FreshIfSameGeneration: it holds at every *)
(* point of the loop, not only when a client is about to be served.        *)
FramesSound ==
  /\ NoSpanOverride
  /\ SizedByConfigure
  /\ \A f \in InFlight : FrameSound(f)

(* The palette reported for an output was taken from the image it shows:   *)
(* never one of a replaced image, and none at all for a blank output.      *)
PaletteOfShownImage ==
  \A n \in Names :
    EffPalette(daemon, n) \in {Unset, EffPath(daemon, n)} \ {Blank}

(* The override table never outgrows its array, and no entry holds a fit   *)
(* that only makes sense for all outputs at once, whatever mix of requests,*)
(* frames and reloads built it.                                            *)
OverridesLegal ==
  /\ Cardinality(Entries(daemon.over)) <= MaxOverrides
  /\ \A n \in Names : ~GlobalOnly(daemon.over[n].fit)
  /\ \A n \in Names : ~HasEntry(daemon.over, n) => daemon.over[n] = NoOverride

\* A frame on its way to n that the daemon will attach as things stand, or a
\* helper that has not asked yet and will prepare n's image.
Coming(n) ==
  \E j \in Working :
    \/ j.mode = "repaint" /\ ~j.asked /\ n \in j.names /\ j.path = EffPath(daemon, n)
    \/ \E f \in j.frames :
         /\ f.name = n /\ SamePlug(f) /\ Attachable(f)
         /\ j.mode = "repaint" => f.gen = out[n].gen /\ j.path = EffPath(daemon, n)

(* Nothing is forgotten: whenever the daemon is about to serve a client,   *)
(* every configured output shows what it should show, or a client that     *)
(* will repaint it is on its way.  Helpers are spawned once, never         *)
(* retried, and dropped when superseded, so each step that outdates a      *)
(* picture or a helper has to send for a new one.                          *)
ShownOrComing ==
  phase = "ipc" =>
    \A n \in Names :
      out[n].configured =>
        SamePicture(out[n].content, Wanted(daemon, out, n)) \/ Coming(n)

(* A picture prepared with a fit that has since changed does not stay on   *)
(* screen: once no client is at work every image shown has the fit of its  *)
(* output.  The daemon bumps the generation of an output without an image  *)
(* for this ("an in-flight first image is stale").                         *)
NoStaleFit ==
  phase = "ipc" /\ Working = {} =>
    \A n \in Names :
      out[n].content.path \in Paths => out[n].content.fit = EffFit(daemon, n)

(* `img <path>` "Set the default wallpaper on every output": once no client *)
(* is at work, every output shows the image the daemon remembers for it.   *)
EveryOutputShowsItsImage ==
  phase = "ipc" /\ Working = {} =>
    \A n \in Configured : out[n].content.path = EffPath(daemon, n)

\* The last roundtrip of the start has dispatched events that call for a
\* repaint of the output, and nothing has woken the daemon since.
Overslept(n) ==
  phase = "contents" /\ n \in Due(SpreadSpan(daemon, out, layoutDirty))

(* The screen converges: once the user and the compositor leave the outputs *)
(* alone, every configured output comes to show what the daemon wants on   *)
(* it, and keeps showing it, also while the daemon waits in poll; except   *)
(* an output whose event was overslept, until anything wakes the daemon.   *)
(* The bounds end the changes.                                             *)
Converges ==
  <>[](phase \in {"contents", "poll", "ipc"} =>
         \A n \in Configured :
           SamePicture(out[n].content, Wanted(daemon, out, n)) \/ Overslept(n))

=============================================================================
