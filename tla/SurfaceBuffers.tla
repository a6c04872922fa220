--------------------------- MODULE SurfaceBuffers ---------------------------
(***************************************************************************)
(* The pixels of a background surface (src/src/wayland/surface.c, shm.c):  *)
(* which wl_buffers the daemon owns, when it frees them, and what the      *)
(* compositor does with them meanwhile.                                    *)
(*                                                                         *)
(* Daemon and compositor only talk through the two directions of a         *)
(* connection: requests are handled, and events dispatched, in the order   *)
(* they were sent and any time later.  The module follows one surface of   *)
(* one output, since surfaces share no buffers.  How the daemon decides    *)
(* what to show is in Sweetbgd; here it may show anything.                 *)
(***************************************************************************)
EXTENDS Naturals, Sequences

CONSTANTS
  Surfaces,     \* wl_surface objects
  Buffers,      \* wl_buffer objects there is memory for
  None,         \* NULL
  MaxRequests,  \* bound: requests the compositor may be behind
  MaxEvents     \* bound: events the daemon may be behind

ASSUME ObjectAssumption ==
  /\ Surfaces # {} /\ None \notin Surfaces \cup Buffers
  /\ MaxRequests \in Nat /\ MaxEvents \in Nat

VARIABLES
  client,   \* struct sweetbg_surface, the daemon's proxies and its requests
  events,   \* events sent and not yet dispatched
  phase,    \* where the daemon is in `serve` or in a turn of `run_loop`
  view,     \* how far the compositor is with a surface
  current,  \* the buffer last committed to a surface
  holds     \* the surface for which the compositor reads a buffer

vars == <<client, events, phase, view, current, holds>>

Phases == {"configures", "paint", "contents", "poll", "dispatch", "serve"}

Request(op, s, bufs) == [op |-> op, surface |-> s, buffers |-> bufs]
Event(op, s, b) == [op |-> op, surface |-> s, buffer |-> b]

\* a commit has its one buffer, a free any number, the rest none
Requests ==
  {r \in [op : {"create", "ack", "commit", "destroy", "free", "sync"},
         surface : Surfaces \cup {None}, buffers : SUBSET Buffers] :
     r.op = "commit" => r.buffers # {}}
Events ==
  [op : {"configure", "resize", "closed"}, surface : Surfaces, buffer : {None}]
  \cup [op : {"release"}, surface : {None}, buffer : Buffers]
  \cup [op : {"done"}, surface : {None}, buffer : {None}]

\* `owned` and `released`: proxies that exist, and those with the flag set;
\* `out`: requests written and not yet handled
Clients ==
  [surface : Surfaces \cup {None}, configured : BOOLEAN, content : BOOLEAN,
   repaint : BOOLEAN, buffer : Buffers \cup {None}, retired : SUBSET Buffers,
   owned : SUBSET Buffers, released : SUBSET Buffers, out : Seq(Requests)]

-----------------------------------------------------------------------------
(* surface.c and shm.c.  Each operator takes the daemon's side before a    *)
(* call and is its side after.                                             *)

Sent(c, request) == [c EXCEPT !.out = Append(@, request)]

\* sweetbg_buffer_destroy: the proxy goes, and what is still on its way to
\* it is ignored
Freed(c, bufs) ==
  IF bufs = {} THEN c
  ELSE Sent([c EXCEPT !.owned = @ \ bufs, !.released = @ \ bufs],
            Request("free", None, bufs))

\* collect_retired_buffers
CollectRetired(c) ==
  Freed([c EXCEPT !.retired = @ \ c.released], c.retired \cap c.released)

Current(c) == {c.buffer} \ {None}

\* retire_buffer: freed if released, else kept in the list
Retired(c) ==
  LET d == CollectRetired(c)
  IN Freed([d EXCEPT !.buffer = None, !.retired = @ \cup (Current(d) \ d.released)],
           Current(d) \cap d.released)

\* mutant: released buffers wait for the next one
CollectedRarely(c) == c

\* sweetbg_surface_collect
Collected(c) ==
  LET d == CollectRetired(c)
  IN IF Current(d) \cap d.released = {} THEN d
     ELSE Freed([d EXCEPT !.buffer = None], Current(d))

\* mutant: a prepared image does not wait for the first configure
PaintableExisting(c) == c.surface # None

Paintable(c) == c.configured /\ c.surface # None

\* a buffer is created (sweetbg_buffer_create, _wrap, _from_fd), takes the
\* place of the last one and is presented
Shown(c, b) ==
  LET d == Retired(c)
  IN Sent([d EXCEPT !.owned = @ \cup {b}, !.buffer = b,
                    !.repaint = FALSE, !.content = TRUE],
          Request("commit", c.surface, {b}))

\* mutants: the pixels go before the surface, the retired buffers are left,
\* the configure of the surface outlives it
DestroyedPixelsFirst(c) ==
  IF c.surface = None THEN c
  ELSE Sent(Freed([c EXCEPT !.surface = None, !.buffer = None, !.retired = {},
                            !.configured = FALSE, !.content = FALSE],
                  Current(c) \cup c.retired),
            Request("destroy", c.surface, {}))

DestroyedCurrentOnly(c) ==
  IF c.surface = None THEN c
  ELSE Freed([Sent(c, Request("destroy", c.surface, {})) EXCEPT
                !.surface = None, !.buffer = None, !.retired = {},
                !.configured = FALSE, !.content = FALSE],
             Current(c))

DestroyedConfigured(c) ==
  IF c.surface = None THEN c
  ELSE Freed([Sent(c, Request("destroy", c.surface, {})) EXCEPT
                !.surface = None, !.buffer = None, !.retired = {}, !.content = FALSE],
             Current(c) \cup c.retired)

\* sweetbg_surface_destroy
Destroyed(c) ==
  IF c.surface = None THEN c
  ELSE Freed([Sent(c, Request("destroy", c.surface, {})) EXCEPT
                !.surface = None, !.buffer = None, !.retired = {},
                !.configured = FALSE, !.content = FALSE],
             Current(c) \cup c.retired)

\* sweetbg_surface_create, for an output that has no surface; with None the
\* creation fails
Ensured(c, s) ==
  IF c.surface # None \/ s = None THEN c
  ELSE Sent([c EXCEPT !.surface = s, !.configured = FALSE, !.content = FALSE,
                      !.repaint = FALSE, !.buffer = None, !.retired = {}],
            Request("create", s, {}))

\* reconcile_paint: `blank` is an output without an image; with None there
\* is no memory for a buffer
Reconciled(c, blank, b) ==
  IF ~c.configured \/ ~c.repaint THEN c
  ELSE LET d == IF b # None /\ (blank \/ ~c.content) THEN Shown(c, b) ELSE c
       IN [d EXCEPT !.repaint = @ /\ blank]

\* handle_configure, handle_closed and handle_release
Handled(c, e) ==
  CASE e.op \in {"configure", "resize"} ->
         IF e.surface # c.surface THEN c
         ELSE Sent([c EXCEPT !.configured = TRUE, !.repaint = @ \/ e.op = "resize"],
                   Request("ack", c.surface, {}))
    [] e.op = "closed" -> IF e.surface # c.surface THEN c ELSE Destroyed(c)
    [] e.op = "release" -> [c EXCEPT !.released = @ \cup ({e.buffer} \cap c.owned)]
    [] OTHER -> c

-----------------------------------------------------------------------------
(* The daemon.  An object is used again once nothing on the connection is  *)
(* about the one before it (wl_display.delete_id).                         *)

FreshBuffers ==
  {b \in Buffers :
     /\ b \notin client.owned
     /\ \A i \in DOMAIN client.out : b \notin client.out[i].buffers
     /\ \A i \in DOMAIN events : b # events[i].buffer}

FreshSurfaces ==
  {s \in Surfaces :
     /\ s # client.surface
     /\ view[s] = "none"
     /\ \A i \in DOMAIN client.out : s # client.out[i].surface
     /\ \A i \in DOMAIN events : s # events[i].surface}

Sync == Request("sync", None, {})

First == CHOOSE s \in Surfaces : TRUE

\* `serve` has created the surface and waits in a roundtrip
Init ==
  /\ client = [surface |-> First, configured |-> FALSE, content |-> FALSE,
               repaint |-> FALSE, buffer |-> None, retired |-> {},
               owned |-> {}, released |-> {},
               out |-> <<Request("create", First, {}), Sync>>]
  /\ events = << >>
  /\ phase = "configures"
  /\ view = [s \in Surfaces |-> "none"]
  /\ current = [s \in Surfaces |-> None]
  /\ holds = [b \in Buffers |-> None]

MayWrite == Len(client.out) < MaxRequests

\* where an event leaves the daemon: a roundtrip ends with its answer, and
\* an event wakes a daemon that waits in poll
After(p, e) ==
  IF e.op = "done" THEN IF p = "configures" THEN "paint" ELSE "poll"
  ELSE IF p = "poll" THEN "dispatch" ELSE p

Dispatch ==
  /\ phase \notin {"paint", "serve"}
  /\ MayWrite
  /\ events # << >>
  /\ client' = Handled(client, Head(events))
  /\ phase' = After(phase, Head(events))
  /\ events' = Tail(events)
  /\ UNCHANGED <<view, current, holds>>

\* the first images are painted, and nothing collected, before the loop
FirstPaint ==
  /\ phase = "paint"
  /\ MayWrite
  /\ \E blank \in BOOLEAN, b \in FreshBuffers \cup {None} :
       client' = Sent(Reconciled(client, blank, b), Sync)
  /\ phase' = "contents"
  /\ UNCHANGED <<events, view, current, holds>>

\* a client connects and there is nothing to read from the compositor
Connect ==
  /\ phase = "poll"
  /\ events = << >>
  /\ phase' = "dispatch"
  /\ UNCHANGED <<client, events, view, current, holds>>

\* ensure_surfaces, reconcile_paint, collect_buffers
Reconcile ==
  /\ phase = "dispatch"
  /\ MayWrite
  /\ \E s \in FreshSurfaces \cup {None}, b \in FreshBuffers \cup {None}, blank \in BOOLEAN :
       client' = Collected(Reconciled(Ensured(client, s), blank, b))
  /\ phase' = "serve"
  /\ UNCHANGED <<events, view, current, holds>>

\* a request that shows a prepared image
Attach ==
  /\ phase = "serve"
  /\ MayWrite
  /\ Paintable(client)
  /\ \E b \in FreshBuffers : client' = Shown(client, b)
  /\ phase' = "poll"
  /\ UNCHANGED <<events, view, current, holds>>

\* a request after which the output is repainted
Repaint ==
  /\ phase = "serve"
  /\ MayWrite
  /\ \E blank \in BOOLEAN, b \in FreshBuffers \cup {None} :
       client' = Reconciled([client EXCEPT !.repaint = TRUE], blank, b)
  /\ phase' = "poll"
  /\ UNCHANGED <<events, view, current, holds>>

\* no request, or one that changes no surface
NoRequest ==
  /\ phase = "serve"
  /\ phase' = "poll"
  /\ UNCHANGED <<client, events, view, current, holds>>

-----------------------------------------------------------------------------
(* The compositor.                                                         *)

MaySend == Len(events) < MaxEvents

\* what it has read for a surface that is gone, or from a buffer that is
\* gone, it does not read again
Handle ==
  LET r == Head(client.out)
  IN /\ client.out # << >>
     /\ client' = [client EXCEPT !.out = Tail(@)]
     /\ view' = CASE r.op = "create" -> [view EXCEPT ![r.surface] = "new"]
                  [] r.op = "ack" /\ view[r.surface] = "told" ->
                       [view EXCEPT ![r.surface] = "acked"]
                  [] r.op = "destroy" -> [view EXCEPT ![r.surface] = "none"]
                  [] OTHER -> view
     /\ current' = [s \in Surfaces |->
                      CASE r.op = "commit" /\ s = r.surface -> CHOOSE b \in r.buffers : TRUE
                        [] r.op = "destroy" /\ s = r.surface -> None
                        [] r.op = "free" /\ current[s] \in r.buffers -> None
                        [] OTHER -> current[s]]
     /\ holds' = [b \in Buffers |->
                    CASE r.op = "commit" /\ b \in r.buffers -> r.surface
                      [] r.op = "destroy" /\ holds[b] = r.surface -> None
                      [] r.op = "free" /\ b \in r.buffers -> None
                      [] OTHER -> holds[b]]
     /\ events' = IF r.op = "sync" THEN Append(events, Event("done", None, None)) ELSE events
     /\ UNCHANGED phase

\* the first size is new; later ones may be the same
Configure(s) ==
  /\ view[s] \in {"new", "told", "acked"}
  /\ MaySend
  /\ view' = IF view[s] = "new" THEN [view EXCEPT ![s] = "told"] ELSE view
  /\ \E op \in {"configure", "resize"} :
       /\ view[s] = "new" => op = "resize"
       /\ events' = Append(events, Event(op, s, None))
  /\ UNCHANGED <<client, phase, current, holds>>

Close(s) ==
  /\ view[s] \in {"new", "told", "acked"}
  /\ MaySend
  /\ view' = [view EXCEPT ![s] = "closed"]
  /\ events' = Append(events, Event("closed", s, None))
  /\ UNCHANGED <<client, phase, current, holds>>

\* at once if it keeps a copy, else when it shows another buffer
Release(b) ==
  /\ holds[b] # None
  /\ holds' = [holds EXCEPT ![b] = None]
  /\ events' = Append(events, Event("release", None, b))
  /\ UNCHANGED <<client, phase, view, current>>

Replaced(b) == \A s \in Surfaces : current[s] # b

-----------------------------------------------------------------------------
Serve == Attach \/ Repaint \/ NoRequest

Next ==
  \/ Dispatch \/ FirstPaint \/ Connect \/ Reconcile \/ Serve
  \/ Handle
  \/ \E s \in Surfaces : Configure(s) \/ Close(s)
  \/ \E b \in Buffers : Release(b)

Spec == Init /\ [][Next]_vars

\* The daemon runs when it is not in poll, or has something to read there.
\* A turn dispatches only what it has read, so however fast events come it
\* gets to the end.  The compositor handles requests and gives back what it
\* no longer shows.
Fairness ==
  /\ WF_vars(Dispatch) /\ WF_vars(FirstPaint) /\ SF_vars(Reconcile) /\ WF_vars(Serve)
  /\ WF_vars(Handle)
  /\ \A b \in Buffers : WF_vars(Release(b) /\ Replaced(b))

FairSpec == Spec /\ Fairness

-----------------------------------------------------------------------------
(* Properties.                                                             *)

\* Types; a daemon without a surface has no buffers and is not configured.
TypeOK ==
  /\ client \in Clients
  /\ client.surface = None => client.buffer = None /\ ~client.configured
  /\ events \in Seq(Events)
  /\ phase \in Phases
  /\ view \in [Surfaces -> {"none", "new", "told", "acked", "closed"}]
  /\ current \in [Surfaces -> Buffers \cup {None}]
  /\ holds \in [Buffers -> Surfaces \cup {None}]

\* "Free pixels only after the surface stops referencing the buffer": when
\* the compositor learns that buffers are gone, it has given each of them
\* back, or the surface that showed it is gone.
KeptWhileRead ==
  client.out # << >> /\ Head(client.out).op = "free" =>
    \A b \in Head(client.out).buffers : holds[b] = None

\* No buffer leaks and none is in the list twice: what the daemon has not
\* freed is the buffer of the surface or a retired one, through closed
\* surfaces and failures to paint.
Accounted ==
  /\ client.owned = Current(client) \cup client.retired
  /\ client.buffer \notin client.retired
  /\ client.released \subseteq client.owned

\* An image is only ever committed to a surface the compositor knows, and
\* after the daemon has acknowledged its first configure: else the
\* compositor ends the connection.
ConfiguredFirst ==
  client.out # << >> /\ Head(client.out).op = "commit" =>
    view[Head(client.out).surface] \in {"acked", "closed"}

\* Retired buffers do not pile up: each is freed in the end, without the
\* help of a further image, once the compositor no longer shows it.
Drains == \A b \in Buffers : b \in client.retired ~> b \notin client.owned
=============================================================================
