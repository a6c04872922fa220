------------------------- MODULE SurfaceBuffersProofs -------------------------
(* What the daemon owns, for any number of surfaces and buffers and however *)
(* far daemon and compositor are behind each other.                         *)
EXTENDS SurfaceBuffers, TLAPS

\* a daemon as TypeOK and Accounted have it; without a surface it owns nothing
Sound(c) ==
  /\ c \in Clients
  /\ c.surface = None => c.owned = {} /\ ~c.configured
  /\ c.owned = Current(c) \cup c.retired
  /\ c.buffer \notin c.retired
  /\ c.released \subseteq c.owned

LEMMA SentFields ==
  ASSUME NEW c \in Clients, NEW r \in Requests
  PROVE  /\ Sent(c, r) \in Clients
         /\ Sent(c, r).surface = c.surface /\ Sent(c, r).configured = c.configured
         /\ Sent(c, r).buffer = c.buffer /\ Sent(c, r).retired = c.retired
         /\ Sent(c, r).owned = c.owned /\ Sent(c, r).released = c.released
<1>1. Append(c.out, r) \in Seq(Requests)
  BY DEF Clients
<1>2. QED  BY <1>1 DEF Sent, Clients

LEMMA SentSound ==
  ASSUME NEW c, Sound(c), NEW r \in Requests PROVE Sound(Sent(c, r))
BY SentFields DEF Sound, Current

LEMMA FreedFields ==
  ASSUME NEW c \in Clients, NEW bufs \in SUBSET Buffers
  PROVE  /\ Freed(c, bufs) \in Clients
         /\ Freed(c, bufs).surface = c.surface /\ Freed(c, bufs).configured = c.configured
         /\ Freed(c, bufs).buffer = c.buffer /\ Freed(c, bufs).retired = c.retired
         /\ Freed(c, bufs).owned = c.owned \ bufs /\ Freed(c, bufs).released = c.released \ bufs
<1>1. CASE bufs = {}
  BY <1>1 DEF Freed, Clients
<1>2. CASE bufs # {}
  <2> DEFINE d == [c EXCEPT !.owned = @ \ bufs, !.released = @ \ bufs]
  <2>1. /\ d \in Clients /\ d.surface = c.surface /\ d.configured = c.configured
        /\ d.buffer = c.buffer /\ d.retired = c.retired
        /\ d.owned = c.owned \ bufs /\ d.released = c.released \ bufs
    BY DEF Clients
  <2>2. Request("free", None, bufs) \in Requests
    BY DEF Request, Requests
  <2>3. Freed(c, bufs) = Sent(d, Request("free", None, bufs))
    BY <1>2 DEF Freed
  <2> HIDE DEF d
  <2>4. QED  BY <2>1, <2>2, <2>3, SentFields
<1>3. QED  BY <1>1, <1>2

LEMMA CollectRetiredSound ==
  ASSUME NEW c, Sound(c)
  PROVE  /\ Sound(CollectRetired(c))
         /\ CollectRetired(c).surface = c.surface /\ CollectRetired(c).buffer = c.buffer
         /\ CollectRetired(c).configured = c.configured
         /\ CollectRetired(c).owned \subseteq c.owned
<1> DEFINE d == [c EXCEPT !.retired = @ \ c.released]
           bufs == c.retired \cap c.released
<1>1. /\ d \in Clients /\ d.surface = c.surface /\ d.configured = c.configured
      /\ d.buffer = c.buffer /\ d.retired = c.retired \ c.released
      /\ d.owned = c.owned /\ d.released = c.released
  BY DEF Sound, Clients
<1>2. bufs \in SUBSET Buffers
  BY DEF Sound, Clients
<1>3. CollectRetired(c) = Freed(d, bufs)
  BY DEF CollectRetired
<1>4. c.owned = Current(c) \cup c.retired /\ c.buffer \notin c.retired /\ c.released \subseteq c.owned
  BY DEF Sound
<1> HIDE DEF d
<1>5. /\ Freed(d, bufs) \in Clients
      /\ Freed(d, bufs).surface = c.surface /\ Freed(d, bufs).configured = c.configured
      /\ Freed(d, bufs).buffer = c.buffer /\ Freed(d, bufs).retired = c.retired \ c.released
      /\ Freed(d, bufs).owned = c.owned \ bufs /\ Freed(d, bufs).released = c.released \ bufs
  BY <1>1, <1>2, FreedFields
<1>6. QED  BY <1>3, <1>4, <1>5 DEF Sound, Current

LEMMA RetiredSound ==
  ASSUME NEW c, Sound(c)
  PROVE  /\ Sound(Retired(c))
         /\ Retired(c).surface = c.surface /\ Retired(c).configured = c.configured
         /\ Retired(c).buffer = None
         /\ Retired(c).owned \subseteq c.owned
<1> DEFINE d == CollectRetired(c)
           e == [d EXCEPT !.buffer = None, !.retired = @ \cup (Current(d) \ d.released)]
           bufs == Current(d) \cap d.released
<1>1. /\ Sound(d) /\ d.surface = c.surface /\ d.configured = c.configured
      /\ d.owned \subseteq c.owned
  BY CollectRetiredSound
<1>2. Retired(c) = Freed(e, bufs)
  BY DEF Retired
<1> HIDE DEF d
<1>3. /\ d \in Clients /\ Current(d) \in SUBSET Buffers /\ d.owned = Current(d) \cup d.retired
      /\ d.buffer \notin d.retired /\ d.released \subseteq d.owned
      /\ Current(d) = {d.buffer} \ {None}
  BY <1>1 DEF Sound, Clients, Current
<1>4. /\ e \in Clients /\ e.surface = d.surface /\ e.configured = d.configured
      /\ e.buffer = None /\ e.retired = d.retired \cup (Current(d) \ d.released)
      /\ e.owned = d.owned /\ e.released = d.released
  BY <1>3 DEF Clients
<1> HIDE DEF e
<1>5. /\ Freed(e, bufs) \in Clients
      /\ Freed(e, bufs).surface = d.surface /\ Freed(e, bufs).configured = d.configured
      /\ Freed(e, bufs).buffer = None
      /\ Freed(e, bufs).retired = d.retired \cup (Current(d) \ d.released)
      /\ Freed(e, bufs).owned = d.owned \ bufs /\ Freed(e, bufs).released = d.released \ bufs
  BY <1>3, <1>4, FreedFields
<1>6. None \notin d.retired
  BY <1>3, ObjectAssumption DEF Clients
<1>7. d.surface = None => d.owned = {} /\ ~d.configured
  BY <1>1 DEF Sound
<1> DEFINE f == Freed(e, bufs)
<1> HIDE DEF f
<1>8. None \notin f.retired
  BY <1>3, <1>5, <1>6 DEF f
<1>9. f.owned = f.retired
  BY <1>3, <1>5 DEF f
<1>10. f.released \subseteq f.owned
  BY <1>3, <1>5 DEF f
<1>11. Sound(f)
  BY <1>5, <1>7, <1>8, <1>9, <1>10 DEF f, Sound, Current
<1>12. f.owned \subseteq c.owned
  BY <1>1, <1>5 DEF f
<1>13. QED  BY <1>1, <1>2, <1>5, <1>11, <1>12 DEF f

LEMMA CollectedSound ==
  ASSUME NEW c, Sound(c) PROVE Sound(Collected(c))
<1> DEFINE d == CollectRetired(c)
           e == [d EXCEPT !.buffer = None]
<1>1. Sound(d)
  BY CollectRetiredSound
<1>2. Collected(c) = IF Current(d) \cap d.released = {} THEN d ELSE Freed(e, Current(d))
  BY DEF Collected
<1> HIDE DEF d
<1>3. /\ d \in Clients /\ Current(d) \in SUBSET Buffers /\ d.owned = Current(d) \cup d.retired
      /\ d.buffer \notin d.retired /\ d.released \subseteq d.owned
      /\ Current(d) = {d.buffer} \ {None} /\ None \notin d.retired
  BY <1>1, ObjectAssumption DEF Sound, Clients, Current
<1>4. /\ e \in Clients /\ e.surface = d.surface /\ e.configured = d.configured
      /\ e.buffer = None /\ e.retired = d.retired
      /\ e.owned = d.owned /\ e.released = d.released
  BY <1>3 DEF Clients
<1> HIDE DEF e
<1> DEFINE f == Freed(e, Current(d))
<1>5. /\ f \in Clients /\ f.surface = d.surface /\ f.configured = d.configured
      /\ f.buffer = None /\ f.retired = d.retired
      /\ f.owned = d.owned \ Current(d) /\ f.released = d.released \ Current(d)
  BY <1>3, <1>4, FreedFields
<1> HIDE DEF f
<1>6. f.owned = f.retired /\ f.released \subseteq f.owned
  BY <1>3, <1>5
<1>7. Sound(f)
  BY <1>1, <1>3, <1>5, <1>6 DEF Sound, Current
<1>8. QED  BY <1>1, <1>2, <1>7 DEF f

LEMMA ShownSound ==
  ASSUME NEW c, Sound(c), c.surface # None, NEW b \in Buffers, b \notin c.owned
  PROVE  Sound(Shown(c, b)) /\ Shown(c, b).surface = c.surface
<1> DEFINE d == Retired(c)
           e == [d EXCEPT !.owned = @ \cup {b}, !.buffer = b,
                          !.repaint = FALSE, !.content = TRUE]
           r == Request("commit", c.surface, {b})
<1>1. Sound(d) /\ d.surface = c.surface /\ d.buffer = None /\ b \notin d.owned
  BY RetiredSound
<1>2. Shown(c, b) = Sent(e, r)
  BY DEF Shown
<1> HIDE DEF d
<1>3. /\ e \in Clients /\ e.surface = d.surface /\ e.configured = d.configured
      /\ e.buffer = b /\ e.retired = d.retired
      /\ e.owned = d.owned \cup {b} /\ e.released = d.released
  BY <1>1 DEF Sound, Clients
<1> HIDE DEF e
<1>4. d.owned = d.retired /\ d.released \subseteq d.owned
  BY <1>1 DEF Sound, Current
<1>5. Current(e) = {b}
  BY <1>3, ObjectAssumption DEF Current
<1>6. Sound(e)
  BY <1>1, <1>3, <1>4, <1>5 DEF Sound
<1>7. r \in Requests
  BY DEF Sound, Clients, Request, Requests
<1> HIDE DEF r
<1>8. Sent(e, r).surface = e.surface
  BY <1>3, <1>7, SentFields
<1>9. QED  BY <1>1, <1>2, <1>3, <1>6, <1>7, <1>8, SentSound

LEMMA DestroyedSound ==
  ASSUME NEW c, Sound(c) PROVE Sound(Destroyed(c))
<1>1. CASE c.surface = None
  BY <1>1 DEF Destroyed
<1>2. CASE c.surface # None
  <2> DEFINE r == Request("destroy", c.surface, {})
             d == Sent(c, r)
             e == [d EXCEPT !.surface = None, !.buffer = None, !.retired = {},
                            !.configured = FALSE, !.content = FALSE]
             bufs == Current(c) \cup c.retired
             f == Freed(e, bufs)
  <2>1. Destroyed(c) = f
    BY <1>2 DEF Destroyed
  <2>2. r \in Requests
    BY DEF Sound, Clients, Request, Requests
  <2> HIDE DEF r
  <2>3. c \in Clients /\ bufs = c.owned /\ c.released \subseteq c.owned
    BY DEF Sound
  <2>4. d \in Clients /\ d.owned = c.owned /\ d.released = c.released
    BY <2>2, <2>3, SentFields
  <2> HIDE DEF d
  <2>5. /\ e \in Clients /\ e.surface = None /\ ~e.configured /\ e.buffer = None
        /\ e.retired = {} /\ e.owned = c.owned /\ e.released = c.released
    BY <2>4 DEF Clients
  <2> HIDE DEF e
  <2>6. bufs \in SUBSET Buffers
    BY <2>3 DEF Clients
  <2> HIDE DEF bufs
  <2>7. /\ f \in Clients /\ f.surface = None /\ f.configured = e.configured /\ f.buffer = None
        /\ f.retired = {} /\ f.owned = {} /\ f.released = {}
    BY <2>3, <2>5, <2>6, FreedFields
  <2> HIDE DEF f
  <2>8. QED  BY <2>1, <2>5, <2>7 DEF Sound, Current
<1>3. QED  BY <1>1, <1>2

LEMMA EnsuredSound ==
  ASSUME NEW c, Sound(c), NEW s \in Surfaces \cup {None}
  PROVE  Sound(Ensured(c, s)) /\ Ensured(c, s).owned = c.owned
<1>1. CASE c.surface # None \/ s = None
  BY <1>1 DEF Ensured
<1>2. CASE c.surface = None /\ s # None
  <2> DEFINE d == [c EXCEPT !.surface = s, !.configured = FALSE, !.content = FALSE,
                            !.repaint = FALSE, !.buffer = None, !.retired = {}]
             r == Request("create", s, {})
  <2>1. Ensured(c, s) = Sent(d, r)
    BY <1>2 DEF Ensured
  <2>2. r \in Requests
    BY DEF Request, Requests
  <2> HIDE DEF r
  <2>3. /\ d \in Clients /\ d.surface = s /\ ~d.configured /\ d.buffer = None
        /\ d.retired = {} /\ d.owned = c.owned /\ d.released = c.released
    BY DEF Sound, Clients
  <2> HIDE DEF d
  <2>4. c.owned = {} /\ c.released = {}
    BY <1>2 DEF Sound
  <2>5. Sound(d)
    BY <1>2, <2>3, <2>4 DEF Sound, Current
  <2>6. QED  BY <2>1, <2>2, <2>3, <2>5, SentFields, SentSound
<1>3. QED  BY <1>1, <1>2

\* a buffer that did not exist, if there is memory for one
LEMMA ReconciledSound ==
  ASSUME NEW c, Sound(c), NEW blank \in BOOLEAN,
         NEW b \in Buffers \cup {None}, b \notin c.owned
  PROVE  Sound(Reconciled(c, blank, b))
<1>1. CASE ~c.configured \/ ~c.repaint
  BY <1>1 DEF Reconciled
<1>2. CASE c.configured /\ c.repaint
  <2> DEFINE d == IF b # None /\ (blank \/ ~c.content) THEN Shown(c, b) ELSE c
             dirty == d.repaint /\ blank
             e == [d EXCEPT !.repaint = dirty]
  <2>1. Reconciled(c, blank, b) = e
    BY <1>2 DEF Reconciled
  <2>2. Sound(d)
    BY <1>2, ShownSound DEF Sound
  <2> HIDE DEF d
  <2>3. dirty \in BOOLEAN
    BY <2>2 DEF Sound, Clients
  <2> HIDE DEF dirty
  <2>4. Sound(e)
    BY <2>2, <2>3 DEF Sound, Clients, Current
  <2>5. QED  BY <2>1, <2>4
<1>3. QED  BY <1>1, <1>2

LEMMA HandledSound ==
  ASSUME NEW c, Sound(c), NEW ev \in Events PROVE Sound(Handled(c, ev))
<1>1. CASE ev.op \in {"configure", "resize"} /\ ev.surface = c.surface /\ c.surface # None
  <2> DEFINE dirty == c.repaint \/ ev.op = "resize"
             d == [c EXCEPT !.configured = TRUE, !.repaint = dirty]
             r == Request("ack", c.surface, {})
  <2>1. Handled(c, ev) = Sent(d, r)
    BY <1>1 DEF Handled
  <2>2. r \in Requests
    BY DEF Sound, Clients, Request, Requests
  <2>3. dirty \in BOOLEAN
    BY DEF Sound, Clients
  <2> HIDE DEF dirty, r
  <2>4. Sound(d)
    BY <1>1, <2>3 DEF Sound, Clients, Current
  <2> HIDE DEF d
  <2>5. QED  BY <2>1, <2>2, <2>4, SentSound
<1>2. CASE ev.op = "release"
  <2> DEFINE d == [c EXCEPT !.released = @ \cup ({ev.buffer} \cap c.owned)]
  <2>1. Handled(c, ev) = d
    BY <1>2 DEF Handled
  <2>2. Sound(d)
    BY DEF Sound, Clients, Current
  <2>3. QED  BY <2>1, <2>2
<1>3. CASE ev.op = "closed"
  BY <1>3, DestroyedSound DEF Handled
<1>4. CASE ev.op = "done" \/ (ev.op \in {"configure", "resize"} /\ ev.surface # c.surface)
  BY <1>4 DEF Handled
<1>5. \/ ev.op \in {"configure", "resize"} /\ ev.surface # None
      \/ ev.op \in {"closed", "release", "done"}
  BY ObjectAssumption DEF Events
<1>6. QED  BY <1>1, <1>2, <1>3, <1>4, <1>5

-----------------------------------------------------------------------------
(* The daemon and the compositor.                                          *)

Rest ==
  /\ events \in Seq(Events)
  /\ phase \in Phases
  /\ view \in [Surfaces -> {"none", "new", "told", "acked", "closed"}]
  /\ current \in [Surfaces -> Buffers \cup {None}]
  /\ holds \in [Buffers -> Surfaces \cup {None}]

IInv == Sound(client) /\ Rest

LEMMA InvariantImplies == IInv => TypeOK /\ Accounted
<1> SUFFICES ASSUME IInv PROVE TypeOK /\ Accounted
  OBVIOUS
<1>1. client.surface = None => client.buffer = None
  BY ObjectAssumption DEF IInv, Sound, Current
<1>2. QED  BY <1>1 DEF IInv, Rest, Sound, TypeOK, Accounted

LEMMA InitialSound == Init => IInv
<1> SUFFICES ASSUME Init PROVE IInv
  OBVIOUS
<1>1. First \in Surfaces
  BY ObjectAssumption DEF First
<1>2. Request("create", First, {}) \in Requests /\ Sync \in Requests
  BY <1>1 DEF Request, Requests, Sync
<1>3. <<Request("create", First, {}), Sync>> \in Seq(Requests)
  BY <1>2
<1>4. Sound(client)
  BY <1>1, <1>3, ObjectAssumption DEF Init, Sound, Clients, Current
<1>5. Rest
  BY DEF Init, Rest, Phases
<1>6. QED  BY <1>4, <1>5 DEF IInv

\* steps of the daemon
LEMMA DaemonKeepsSound ==
  ASSUME IInv, Dispatch \/ FirstPaint \/ Connect \/ Reconcile \/ Serve
  PROVE  IInv'
<1>1. ASSUME NEW b \in FreshBuffers \cup {None}
      PROVE  b \in Buffers \cup {None} /\ b \notin client.owned
  BY ObjectAssumption DEF FreshBuffers, IInv, Sound, Clients
<1>2. CASE Dispatch
  <2>1. Head(events) \in Events /\ Tail(events) \in Seq(Events)
    BY <1>2 DEF Dispatch, IInv, Rest
  <2>2. Sound(client')
    BY <1>2, <2>1, HandledSound DEF Dispatch, IInv
  <2>3. phase' \in Phases
    BY <1>2 DEF Dispatch, After, IInv, Rest, Phases
  <2>4. QED  BY <1>2, <2>1, <2>2, <2>3 DEF Dispatch, IInv, Rest
<1>3. CASE FirstPaint
  <2>1. PICK blank \in BOOLEAN, b \in FreshBuffers \cup {None} :
          client' = Sent(Reconciled(client, blank, b), Sync)
    BY <1>3 DEF FirstPaint
  <2>2. Sound(Reconciled(client, blank, b))
    BY <1>1, ReconciledSound DEF IInv
  <2>3. Sync \in Requests
    BY DEF Sync, Request, Requests
  <2>4. Sound(client')
    BY <2>1, <2>2, <2>3, SentSound
  <2>5. QED  BY <1>3, <2>4 DEF FirstPaint, IInv, Rest, Phases
<1>4. CASE Connect
  BY <1>4 DEF Connect, IInv, Rest, Phases
<1>5. CASE Reconcile
  <2>1. PICK s \in FreshSurfaces \cup {None}, b \in FreshBuffers \cup {None}, blank \in BOOLEAN :
          client' = Collected(Reconciled(Ensured(client, s), blank, b))
    BY <1>5 DEF Reconcile
  <2>2. s \in Surfaces \cup {None}
    BY DEF FreshSurfaces
  <2> DEFINE c == Ensured(client, s)
             d == Reconciled(c, blank, b)
  <2>3. Sound(c) /\ c.owned = client.owned
    BY <2>2, EnsuredSound DEF IInv
  <2> HIDE DEF c
  <2>4. Sound(d)
    BY <1>1, <2>3, ReconciledSound
  <2> HIDE DEF d
  <2>5. Sound(client')
    BY <2>1, <2>4, CollectedSound DEF c, d
  <2>6. QED  BY <1>5, <2>5 DEF Reconcile, IInv, Rest, Phases
<1>6. CASE Attach
  <2>1. PICK b \in FreshBuffers : client' = Shown(client, b)
    BY <1>6 DEF Attach
  <2>2. b \in Buffers /\ b \notin client.owned /\ client.surface # None
    BY <1>6 DEF FreshBuffers, Attach, Paintable
  <2>3. Sound(client')
    BY <2>1, <2>2, ShownSound DEF IInv
  <2>4. QED  BY <1>6, <2>3 DEF Attach, IInv, Rest, Phases
<1>7. CASE Repaint
  <2>1. PICK blank \in BOOLEAN, b \in FreshBuffers \cup {None} :
          client' = Reconciled([client EXCEPT !.repaint = TRUE], blank, b)
    BY <1>7 DEF Repaint
  <2> DEFINE c == [client EXCEPT !.repaint = TRUE]
  <2>2. Sound(c) /\ c.owned = client.owned
    BY DEF IInv, Sound, Clients, Current
  <2> HIDE DEF c
  <2>3. Sound(client')
    BY <1>1, <2>1, <2>2, ReconciledSound DEF c
  <2>4. QED  BY <1>7, <2>3 DEF Repaint, IInv, Rest, Phases
<1>8. CASE NoRequest
  BY <1>8 DEF NoRequest, IInv, Rest, Phases
<1>9. QED  BY <1>2, <1>3, <1>4, <1>5, <1>6, <1>7, <1>8 DEF Serve

\* steps of the compositor
LEMMA CompositorKeepsSound ==
  ASSUME IInv,
         \/ Handle
         \/ \E s \in Surfaces : Configure(s) \/ Close(s)
         \/ \E b \in Buffers : Release(b)
  PROVE  IInv'
<1>1. CASE Handle
  <2> DEFINE r == Head(client.out)
  <2>1. r \in Requests /\ Tail(client.out) \in Seq(Requests)
    BY <1>1 DEF Handle, IInv, Sound, Clients
  <2>2. Sound(client')
    BY <1>1, <2>1 DEF Handle, IInv, Sound, Clients, Current
  <2>3. view' \in [Surfaces -> {"none", "new", "told", "acked", "closed"}]
    BY <1>1 DEF Handle, IInv, Rest
  <2>4. current' \in [Surfaces -> Buffers \cup {None}]
    <3>1. r.op = "commit" => (CHOOSE b \in r.buffers : TRUE) \in Buffers
      BY <2>1 DEF Requests
    <3> HIDE DEF r
    <3>2. \A s \in Surfaces : current'[s] \in Buffers \cup {None}
      BY <1>1, <3>1 DEF Handle, IInv, Rest, r
    <3>3. QED  BY <1>1, <3>2 DEF Handle
  <2>5. holds' \in [Buffers -> Surfaces \cup {None}]
    BY <1>1, <2>1 DEF Handle, IInv, Rest, Requests
  <2>6. events' \in Seq(Events)
    <3>1. Event("done", None, None) \in Events
      BY DEF Event, Events
    <3>2. QED  BY <1>1, <3>1 DEF Handle, IInv, Rest
  <2>7. QED  BY <1>1, <2>2, <2>3, <2>4, <2>5, <2>6 DEF Handle, IInv, Rest
<1>2. ASSUME NEW s \in Surfaces, Configure(s) PROVE IInv'
  <2>1. PICK op \in {"configure", "resize"} : events' = Append(events, Event(op, s, None))
    BY <1>2 DEF Configure
  <2>2. Event(op, s, None) \in Events
    BY DEF Event, Events
  <2>3. events' \in Seq(Events)
    BY <2>1, <2>2 DEF IInv, Rest
  <2>4. QED  BY <1>2, <2>3 DEF Configure, IInv, Rest
<1>3. ASSUME NEW s \in Surfaces, Close(s) PROVE IInv'
  <2>1. Event("closed", s, None) \in Events
    BY DEF Event, Events
  <2>2. events' \in Seq(Events)
    BY <1>3, <2>1 DEF Close, IInv, Rest
  <2>3. QED  BY <1>3, <2>2 DEF Close, IInv, Rest
<1>4. ASSUME NEW b \in Buffers, Release(b) PROVE IInv'
  <2>1. Event("release", None, b) \in Events
    BY DEF Event, Events
  <2>2. events' \in Seq(Events)
    BY <1>4, <2>1 DEF Release, IInv, Rest
  <2>3. QED  BY <1>4, <2>2 DEF Release, IInv, Rest
<1>5. QED  BY <1>1, <1>2, <1>3, <1>4

LEMMA InvariantHolds == Spec => []IInv
<1>1. IInv /\ [Next]_vars => IInv'
  <2>1. CASE UNCHANGED vars
    BY <2>1 DEF vars, IInv, Rest
  <2>2. QED  BY <2>1, DaemonKeepsSound, CompositorKeepsSound DEF Next
<1>2. QED  BY <1>1, InitialSound, PTL DEF Spec

\* Types, and a daemon without a surface has nothing of one.
THEOREM SurfaceTypes == Spec => []TypeOK
BY InvariantHolds, InvariantImplies, PTL

\* No buffer leaks and none is freed twice, however the compositor configures,
\* closes and releases while requests and events are on their way.
THEOREM NoBufferLeaks == Spec => []Accounted
BY InvariantHolds, InvariantImplies, PTL

-----------------------------------------------------------------------------
(* The order of requests and events, buffer by buffer.                     *)

\* q is the daemon's requests, own and rel its proxies and those with the
\* flag, s its surface, h what the compositor reads, ev the events
Does(q, i, op, s) == q[i].op = op /\ q[i].surface = s
Commits(q, b) == {i \in DOMAIN q : q[i].op = "commit" /\ b \in q[i].buffers}
Frees(q, b) == {i \in DOMAIN q : q[i].op = "free" /\ b \in q[i].buffers}
Returned(ev, b) == \E i \in DOMAIN ev : ev[i].op = "release" /\ ev[i].buffer = b

\* when request i is handled, the surface that shows or will show b is gone
GoneBy(q, h, b, i) ==
  /\ h[b] # None => \E k \in DOMAIN q : k < i /\ Does(q, k, "destroy", h[b])
  /\ \A j \in Commits(q, b) :
       \E k \in DOMAIN q : j < k /\ k < i /\ Does(q, k, "destroy", q[j].surface)

BufferOK(q, own, rel, s, h, ev, b) ==
  /\ \A i, j \in Commits(q, b) : i = j
  /\ b \in rel \/ Returned(ev, b) => h[b] = None /\ Commits(q, b) = {}
  /\ h[b] # None => Commits(q, b) = {}
  /\ h[b] # None \/ Commits(q, b) # {} => b \in own \/ Frees(q, b) # {}
  /\ b \in own => /\ Frees(q, b) = {} /\ h[b] \in {s, None}
                  /\ \A i \in Commits(q, b) : q[i].surface = s
  /\ \A i \in Frees(q, b) : GoneBy(q, h, b, i)

LEMMA AppendAt ==
  ASSUME NEW q \in Seq(Requests), NEW r \in Requests
  PROVE  LET n == Len(q) + 1
             new == Append(q, r)
         IN /\ new \in Seq(Requests) /\ n \in Nat
            /\ DOMAIN new = DOMAIN q \cup {n} /\ new[n] = r
            /\ \A i \in DOMAIN q : new[i] = q[i] /\ i \in Nat /\ i < n /\ i # n /\ ~(n < i)
OBVIOUS

LEMMA AppendSets ==
  ASSUME NEW q \in Seq(Requests), NEW r \in Requests, NEW b
  PROVE  LET n == Len(q) + 1
             new == Append(q, r)
         IN /\ Commits(new, b) = Commits(q, b) \cup (IF r.op = "commit" /\ b \in r.buffers THEN {n} ELSE {})
            /\ Frees(new, b) = Frees(q, b) \cup (IF r.op = "free" /\ b \in r.buffers THEN {n} ELSE {})
BY AppendAt DEF Commits, Frees

LEMMA GoneByAppend ==
  ASSUME NEW q \in Seq(Requests), NEW r \in Requests, NEW h, NEW b, NEW i \in DOMAIN q,
         GoneBy(q, h, b, i), r.op = "commit" => b \notin r.buffers
  PROVE  GoneBy(Append(q, r), h, b, i)
<1> DEFINE n == Len(q) + 1
           new == Append(q, r)
<1>1. /\ DOMAIN new = DOMAIN q \cup {n}
      /\ \A k \in DOMAIN q : new[k] = q[k] /\ ~(n < k)
  BY AppendAt
<1>2. \A j \in Commits(new, b) : j \in Commits(q, b)
  BY AppendSets
<1>3. \A j \in Commits(q, b) : j \in DOMAIN q
  BY DEF Commits
<1> HIDE DEF n, new
<1>4. \A s : \A k \in DOMAIN q : Does(q, k, "destroy", s) => k \in DOMAIN new /\ Does(new, k, "destroy", s)
  BY <1>1 DEF Does
<1>5. h[b] # None => \E k \in DOMAIN new : k < i /\ Does(new, k, "destroy", h[b])
  BY <1>4 DEF GoneBy
<1>6. ASSUME NEW j \in Commits(new, b)
      PROVE  \E k \in DOMAIN new : j < k /\ k < i /\ Does(new, k, "destroy", new[j].surface)
  <2>1. j \in Commits(q, b) /\ new[j] = q[j]
    BY <1>1, <1>2, <1>3, <1>6
  <2>2. QED  BY <1>4, <1>6, <2>1 DEF GoneBy
<1>7. GoneBy(new, h, b, i)
  BY <1>5, <1>6 DEF GoneBy
<1>8. QED  BY <1>7 DEF new

\* a request that is not about b
LEMMA BufferAppend ==
  ASSUME NEW q \in Seq(Requests), NEW r \in Requests, NEW own, NEW rel, NEW s, NEW h, NEW ev, NEW b,
         BufferOK(q, own, rel, s, h, ev, b), NEW own2, NEW rel2,
         b \in own2 <=> b \in own, b \in rel2 <=> b \in rel,
         r.op \in {"commit", "free"} => b \notin r.buffers
  PROVE  BufferOK(Append(q, r), own2, rel2, s, h, ev, b)
<1> DEFINE new == Append(q, r)
<1>1. Commits(new, b) = Commits(q, b) /\ Frees(new, b) = Frees(q, b)
  <2>1. /\ Commits(new, b) = Commits(q, b) \cup (IF r.op = "commit" /\ b \in r.buffers THEN {Len(q) + 1} ELSE {})
        /\ Frees(new, b) = Frees(q, b) \cup (IF r.op = "free" /\ b \in r.buffers THEN {Len(q) + 1} ELSE {})
    BY AppendSets
  <2> HIDE DEF new
  <2>2. QED  BY <2>1
<1>2. /\ \A i \in Frees(q, b) : i \in DOMAIN q
      /\ \A i \in Commits(q, b) : i \in DOMAIN q
  BY DEF Frees, Commits
<1>3. \A i \in DOMAIN q : new[i] = q[i]
  BY AppendAt
<1>4. \A i \in Frees(q, b) : GoneBy(new, h, b, i)
  BY <1>2, GoneByAppend DEF BufferOK
<1> HIDE DEF new
<1>5. BufferOK(new, own2, rel2, s, h, ev, b)
  BY <1>1, <1>2, <1>3, <1>4 DEF BufferOK
<1>6. QED  BY <1>5 DEF new

\* b is freed: it was given back, or its surface is gone by then
LEMMA BufferFreed ==
  ASSUME NEW q \in Seq(Requests), NEW r \in Requests, NEW own, NEW rel, NEW s, NEW h, NEW ev, NEW b,
         BufferOK(q, own, rel, s, h, ev, b), NEW own2, NEW rel2, NEW s2,
         b \notin own2, b \notin rel2, r.op = "free", b \in r.buffers,
         \/ h[b] = None /\ Commits(q, b) = {}
         \/ /\ h[b] # None => \E k \in DOMAIN q : Does(q, k, "destroy", h[b])
            /\ \A j \in Commits(q, b) : \E k \in DOMAIN q : j < k /\ Does(q, k, "destroy", q[j].surface)
  PROVE  BufferOK(Append(q, r), own2, rel2, s2, h, ev, b)
<1> DEFINE n == Len(q) + 1
           new == Append(q, r)
<1>1. Commits(new, b) = Commits(q, b) /\ Frees(new, b) = Frees(q, b) \cup {n}
  <2>1. /\ Commits(new, b) = Commits(q, b) \cup (IF r.op = "commit" /\ b \in r.buffers THEN {Len(q) + 1} ELSE {})
        /\ Frees(new, b) = Frees(q, b) \cup (IF r.op = "free" /\ b \in r.buffers THEN {Len(q) + 1} ELSE {})
    BY AppendSets
  <2> HIDE DEF new
  <2>2. QED  BY <2>1
<1>2. /\ \A i \in Frees(q, b) : i \in DOMAIN q
      /\ \A i \in Commits(q, b) : i \in DOMAIN q
  BY DEF Frees, Commits
<1>3. /\ DOMAIN new = DOMAIN q \cup {n}
      /\ \A i \in DOMAIN q : new[i] = q[i] /\ i < n
  BY AppendAt
<1>4. \A i \in Frees(q, b) : GoneBy(new, h, b, i)
  BY <1>2, GoneByAppend DEF BufferOK
<1> HIDE DEF new, n
<1>5. GoneBy(new, h, b, n)
  <2>1. \A t : \A k \in DOMAIN q : Does(q, k, "destroy", t) => Does(new, k, "destroy", t)
    BY <1>3 DEF Does
  <2>2. h[b] # None => \E k \in DOMAIN new : k < n /\ Does(new, k, "destroy", h[b])
    BY <1>3, <2>1
  <2>3. ASSUME NEW j \in Commits(new, b)
        PROVE  \E k \in DOMAIN new : j < k /\ k < n /\ Does(new, k, "destroy", new[j].surface)
    BY <1>1, <1>2, <1>3, <2>1
  <2>4. QED  BY <2>2, <2>3 DEF GoneBy
<1>6. BufferOK(new, own2, rel2, s2, h, ev, b)
  BY <1>1, <1>4, <1>5 DEF BufferOK
<1>7. QED  BY <1>6 DEF new

\* b has just been created
LEMMA BufferShown ==
  ASSUME NEW q \in Seq(Requests), NEW r \in Requests, NEW own, NEW rel, NEW s, NEW h, NEW ev, NEW b,
         BufferOK(q, own, rel, s, h, ev, b), NEW own2,
         b \notin own, b \notin rel, \A i \in DOMAIN q : b \notin q[i].buffers, ~Returned(ev, b),
         b \in own2, r.op = "commit", r.buffers = {b}, r.surface = s
  PROVE  BufferOK(Append(q, r), own2, rel, s, h, ev, b)
<1> DEFINE n == Len(q) + 1
           new == Append(q, r)
<1>1. Commits(q, b) = {} /\ Frees(q, b) = {}
  BY DEF Commits, Frees
<1>2. Commits(new, b) = {n} /\ Frees(new, b) = {} /\ new[n] = r
  BY <1>1, AppendSets, AppendAt
<1> HIDE DEF new, n
<1>3. BufferOK(new, own2, rel, s, h, ev, b)
  BY <1>1, <1>2 DEF BufferOK
<1>4. QED  BY <1>3 DEF new

LEMMA BufferUnowned ==
  ASSUME NEW q, NEW own, NEW rel, NEW s, NEW s2, NEW h, NEW ev, NEW b,
         BufferOK(q, own, rel, s, h, ev, b), b \notin own
  PROVE  BufferOK(q, own, rel, s2, h, ev, b)
BY DEF BufferOK

-----------------------------------------------------------------------------
(* The order of requests and events, surface by surface.                   *)

\* s is the daemon's surface, conf whether it is configured, v how far the
\* compositor is; s has acknowledged a size when request i is handled
AckedBy(q, v, s, i) ==
  \/ v[s] \in {"acked", "closed"}
  \/ v[s] = "told" /\ \E k \in DOMAIN q : k < i /\ Does(q, k, "ack", s)

RequestOK(q, i, s, v) ==
  /\ q[i].op \in {"create", "ack", "commit", "destroy"} => q[i].surface \in Surfaces
  /\ q[i].op = "destroy" => q[i].surface # s
  /\ q[i].op = "create" => /\ v[q[i].surface] = "none"
                           /\ \A j \in DOMAIN q : Does(q, j, "create", q[i].surface) => i = j
  /\ q[i].op = "commit" => /\ AckedBy(q, v, q[i].surface, i)
                           /\ \A j \in DOMAIN q : Does(q, j, "destroy", q[i].surface) => i < j

ToldOK(s, v, ev) ==
  \A i \in DOMAIN ev :
    ev[i].op \in {"configure", "resize"} /\ ev[i].surface = s => v[s] \in {"told", "acked", "closed"}

SurfacesOK(q, s, conf, v, ev) ==
  /\ \A i \in DOMAIN q : RequestOK(q, i, s, v)
  /\ conf => AckedBy(q, v, s, Len(q) + 1)
  /\ ToldOK(s, v, ev)

LEMMA AckedByAppend ==
  ASSUME NEW q \in Seq(Requests), NEW r \in Requests, NEW v, NEW s, NEW i \in Nat, NEW j \in Nat,
         AckedBy(q, v, s, i), i <= j
  PROVE  AckedBy(Append(q, r), v, s, j)
<1> DEFINE new == Append(q, r)
<1>1. \A k \in DOMAIN q : k \in DOMAIN new /\ new[k] = q[k] /\ k \in Nat
  BY AppendAt
<1> HIDE DEF new
<1>2. AckedBy(new, v, s, j)
  BY <1>1 DEF AckedBy, Does
<1>3. QED  BY <1>2 DEF new

LEMMA RequestAppend ==
  ASSUME NEW q \in Seq(Requests), NEW r \in Requests, NEW v, NEW s, NEW t, NEW i \in DOMAIN q,
         RequestOK(q, i, s, v), q[i].op = "destroy" => q[i].surface # t,
         r.op = "create" => ~Does(q, i, "create", r.surface)
  PROVE  RequestOK(Append(q, r), i, t, v)
<1> DEFINE n == Len(q) + 1
           new == Append(q, r)
<1>1. /\ DOMAIN new = DOMAIN q \cup {n} /\ new[n] = r /\ n \in Nat
      /\ \A k \in DOMAIN q : new[k] = q[k] /\ k \in Nat /\ k < n
  BY AppendAt
<1>2. q[i].op = "commit" => AckedBy(new, v, q[i].surface, i)
  <2>1. i \in Nat /\ i <= i
    BY <1>1
  <2>2. QED  BY <2>1, AckedByAppend DEF RequestOK
<1> HIDE DEF new, n
<1>3. /\ new[i] = q[i] /\ i < n
      /\ \A op, u : \A k \in DOMAIN new :
           Does(new, k, op, u) => (k = n /\ Does(new, n, op, u)) \/ (k \in DOMAIN q /\ Does(q, k, op, u))
  <2>1. ASSUME NEW k \in DOMAIN q, NEW op, NEW u, Does(new, k, op, u) PROVE Does(q, k, op, u)
    BY <1>1, <2>1 DEF Does
  <2>2. QED  BY <1>1, <2>1
<1>4. ASSUME q[i].op = "create"
      PROVE  \A j \in DOMAIN new : Does(new, j, "create", q[i].surface) => i = j
  BY <1>1, <1>3, <1>4 DEF RequestOK, Does
<1>5. ASSUME q[i].op = "commit"
      PROVE  \A j \in DOMAIN new : Does(new, j, "destroy", q[i].surface) => i < j
  BY <1>3, <1>5 DEF RequestOK
<1>6. RequestOK(new, i, t, v)
  BY <1>2, <1>3, <1>4, <1>5 DEF RequestOK
<1>7. QED  BY <1>6 DEF new

\* what a request r changes when the daemon's surface is t after it
LEMMA SurfacesAppend ==
  ASSUME NEW q \in Seq(Requests), NEW r \in Requests, NEW v, NEW ev, NEW s, NEW t, NEW conf, NEW conf2,
         SurfacesOK(q, s, conf, v, ev), ToldOK(t, v, ev),
         \A i \in DOMAIN q : /\ q[i].op = "destroy" => q[i].surface # t
                             /\ r.op = "create" => ~Does(q, i, "create", r.surface),
         RequestOK(Append(q, r), Len(q) + 1, t, v),
         conf2 => AckedBy(Append(q, r), v, t, Len(q) + 2)
  PROVE  SurfacesOK(Append(q, r), t, conf2, v, ev)
<1> DEFINE n == Len(q) + 1
           new == Append(q, r)
<1>1. DOMAIN new = DOMAIN q \cup {n} /\ Len(new) + 1 = Len(q) + 2
  OBVIOUS
<1>2. \A i \in DOMAIN q : RequestOK(new, i, t, v)
  BY RequestAppend DEF SurfacesOK
<1>3. RequestOK(new, n, t, v) /\ (conf2 => AckedBy(new, v, t, Len(q) + 2))
  OBVIOUS
<1> HIDE DEF new, n
<1>4. SurfacesOK(new, t, conf2, v, ev)
  BY <1>1, <1>2, <1>3 DEF SurfacesOK
<1>5. QED  BY <1>4 DEF new

\* sync and free
LEMMA SurfacesUntouched ==
  ASSUME NEW q \in Seq(Requests), NEW r \in Requests, NEW v, NEW ev, NEW s, NEW conf,
         SurfacesOK(q, s, conf, v, ev), r.op \in {"sync", "free"}
  PROVE  SurfacesOK(Append(q, r), s, conf, v, ev)
<1>1. Append(q, r)[Len(q) + 1] = r /\ Len(q) + 1 \in Nat /\ Len(q) + 2 \in Nat
  OBVIOUS
<1>2. RequestOK(Append(q, r), Len(q) + 1, s, v)
  BY <1>1 DEF RequestOK
<1>3. conf => AckedBy(Append(q, r), v, s, Len(q) + 2)
  <2>1. Len(q) + 1 <= Len(q) + 2
    OBVIOUS
  <2>2. QED  BY <1>1, <2>1, AckedByAppend DEF SurfacesOK
<1>4. \A i \in DOMAIN q : q[i].op = "destroy" => q[i].surface # s
  BY DEF SurfacesOK, RequestOK
<1>5. QED  BY <1>2, <1>3, <1>4, SurfacesAppend DEF SurfacesOK

LEMMA SurfacesAck ==
  ASSUME NEW q \in Seq(Requests), NEW r \in Requests, NEW v, NEW ev, NEW s \in Surfaces, NEW conf,
         SurfacesOK(q, s, conf, v, ev), r.op = "ack", r.surface = s, v[s] \in {"told", "acked", "closed"}
  PROVE  SurfacesOK(Append(q, r), s, TRUE, v, ev)
<1> DEFINE n == Len(q) + 1
           new == Append(q, r)
<1>1. /\ new[n] = r /\ n \in DOMAIN new /\ n \in Nat /\ Len(q) + 2 \in Nat /\ n < Len(q) + 2
  OBVIOUS
<1>2. \A i \in DOMAIN q : q[i].op = "destroy" => q[i].surface # s
  BY DEF SurfacesOK, RequestOK
<1> HIDE DEF new
<1>3. RequestOK(new, n, s, v)
  BY <1>1 DEF RequestOK
<1>4. AckedBy(new, v, s, Len(q) + 2)
  <2> DEFINE m == Len(q) + 2
  <2>1. n < m
    BY <1>1
  <2> HIDE DEF n, m
  <2>2. AckedBy(new, v, s, m)
    BY <1>1, <2>1 DEF AckedBy, Does
  <2>3. QED  BY <2>2 DEF m
<1>5. QED  BY <1>1, <1>2, <1>3, <1>4, SurfacesAppend DEF SurfacesOK, new

LEMMA SurfacesCommit ==
  ASSUME NEW q \in Seq(Requests), NEW r \in Requests, NEW v, NEW ev, NEW s \in Surfaces, NEW conf, conf,
         SurfacesOK(q, s, conf, v, ev), r.op = "commit", r.surface = s
  PROVE  SurfacesOK(Append(q, r), s, conf, v, ev)
<1> DEFINE n == Len(q) + 1
           new == Append(q, r)
<1>1. /\ new[n] = r /\ n \in Nat /\ Len(q) + 2 \in Nat /\ n <= n /\ n <= Len(q) + 2
      /\ DOMAIN new = DOMAIN q \cup {n} /\ \A i \in DOMAIN q : new[i] = q[i]
  OBVIOUS
<1>2. \A i \in DOMAIN q : q[i].op = "destroy" => q[i].surface # s
  BY DEF SurfacesOK, RequestOK
<1>3. AckedBy(new, v, s, n) /\ AckedBy(new, v, s, Len(q) + 2)
  BY <1>1, AckedByAppend DEF SurfacesOK
<1> HIDE DEF new
<1>4. \A j \in DOMAIN new : ~Does(new, j, "destroy", s)
  BY <1>1, <1>2 DEF Does
<1>5. RequestOK(new, n, s, v)
  BY <1>1, <1>3, <1>4 DEF RequestOK
<1>6. QED  BY <1>1, <1>2, <1>3, <1>5, SurfacesAppend DEF SurfacesOK, new

LEMMA SurfacesDestroy ==
  ASSUME NEW q \in Seq(Requests), NEW r \in Requests, NEW v, NEW ev \in Seq(Events), NEW s \in Surfaces,
         NEW conf, SurfacesOK(q, s, conf, v, ev), r.op = "destroy", r.surface = s
  PROVE  SurfacesOK(Append(q, r), None, FALSE, v, ev)
<1> DEFINE n == Len(q) + 1
           new == Append(q, r)
<1>1. new[n] = r
  OBVIOUS
<1>2. \A i \in DOMAIN q : q[i].op = "destroy" => q[i].surface # None
  BY ObjectAssumption DEF SurfacesOK, RequestOK
<1>3. ToldOK(None, v, ev)
  <2>1. \A i \in DOMAIN ev : ev[i] \in Events
    OBVIOUS
  <2>2. \A e \in Events : e.op \in {"configure", "resize"} => e.surface # None
    BY ObjectAssumption DEF Events
  <2>3. QED  BY <2>1, <2>2 DEF ToldOK
<1> HIDE DEF new
<1>4. RequestOK(new, n, None, v)
  BY <1>1, ObjectAssumption DEF RequestOK
<1>5. QED  BY <1>1, <1>2, <1>3, <1>4, SurfacesAppend DEF new

LEMMA SurfacesCreate ==
  ASSUME NEW q \in Seq(Requests), NEW r \in Requests, NEW v, NEW ev, NEW s, NEW t \in Surfaces,
         NEW conf, SurfacesOK(q, s, conf, v, ev), r.op = "create", r.surface = t, v[t] = "none",
         \A i \in DOMAIN q : q[i].surface # t, \A i \in DOMAIN ev : ev[i].surface # t
  PROVE  SurfacesOK(Append(q, r), t, FALSE, v, ev)
<1> DEFINE n == Len(q) + 1
           new == Append(q, r)
<1>1. /\ new[n] = r
      /\ DOMAIN new = DOMAIN q \cup {n} /\ \A i \in DOMAIN q : new[i] = q[i]
  OBVIOUS
<1>2. \A i \in DOMAIN q : q[i].op = "destroy" => q[i].surface # t
  OBVIOUS
<1>3. \A i \in DOMAIN q : ~Does(q, i, "create", r.surface)
  BY <1>1 DEF Does
<1>4. ToldOK(t, v, ev)
  BY DEF ToldOK
<1> HIDE DEF new
<1>5. \A j \in DOMAIN new : Does(new, j, "create", t) => n = j
  BY <1>1 DEF Does
<1>6. RequestOK(new, n, t, v)
  BY <1>1, <1>5 DEF RequestOK
<1>7. QED  BY <1>1, <1>2, <1>3, <1>4, <1>6, SurfacesAppend DEF new

-----------------------------------------------------------------------------
(* The daemon's calls keep the order.                                      *)

InOrder(c) ==
  /\ \A b \in Buffers : BufferOK(c.out, c.owned, c.released, c.surface, holds, events, b)
  /\ SurfacesOK(c.out, c.surface, c.configured, view, events)

\* nothing on the connection is about b
Unused(c, b) ==
  b \notin c.owned /\ ~Returned(events, b) /\ \A i \in DOMAIN c.out : b \notin c.out[i].buffers

LEMMA SameOrder ==
  ASSUME NEW c, NEW d, InOrder(c), d.out = c.out, d.owned = c.owned, d.released = c.released,
         d.surface = c.surface, d.configured = c.configured
  PROVE  InOrder(d) /\ \A b : Unused(c, b) => Unused(d, b)
BY DEF InOrder, Unused

LEMMA SentOut ==
  ASSUME NEW c \in Clients, NEW r \in Requests
  PROVE  /\ c.out \in Seq(Requests) /\ Sent(c, r).out = Append(c.out, r)
         /\ \A b : Unused(c, b) /\ b \notin r.buffers => Unused(Sent(c, r), b)
<1>1. c.out \in Seq(Requests) /\ Sent(c, r).out = Append(c.out, r) /\ Sent(c, r).owned = c.owned
  BY DEF Sent, Clients
<1>2. /\ DOMAIN Append(c.out, r) = DOMAIN c.out \cup {Len(c.out) + 1}
      /\ Append(c.out, r)[Len(c.out) + 1] = r
      /\ \A i \in DOMAIN c.out : Append(c.out, r)[i] = c.out[i]
  BY <1>1, AppendAt
<1>3. QED  BY <1>1, <1>2 DEF Unused

\* requests that are about no buffer
LEMMA SentOrder ==
  ASSUME NEW c \in Clients, InOrder(c), NEW r \in Requests, r.buffers = {}, NEW conf,
         NEW d, d.out = Append(c.out, r), d.owned = c.owned, d.released = c.released,
         d.surface = c.surface, d.configured = conf,
         SurfacesOK(Append(c.out, r), c.surface, conf, view, events)
  PROVE  InOrder(d)
<1>1. c.out \in Seq(Requests)
  BY SentOut
<1>2. \A b \in Buffers : BufferOK(Append(c.out, r), c.owned, c.released, c.surface, holds, events, b)
  BY <1>1, BufferAppend DEF InOrder
<1>3. QED  BY <1>2 DEF InOrder

LEMMA FreedOrder ==
  ASSUME NEW c \in Clients, InOrder(c), NEW bufs \in SUBSET Buffers,
         bufs \subseteq c.released
  PROVE  InOrder(Freed(c, bufs)) /\ \A b \in Buffers : Unused(c, b) /\ b \notin bufs => Unused(Freed(c, bufs), b)
<1>1. CASE bufs = {}
  BY <1>1 DEF Freed
<1>2. CASE bufs # {}
  <2> DEFINE r == Request("free", None, bufs)
             d == [c EXCEPT !.owned = @ \ bufs, !.released = @ \ bufs]
             f == Freed(c, bufs)
  <2>1. r \in Requests /\ r.op = "free" /\ r.buffers = bufs
    BY DEF Request, Requests
  <2>2. f = Sent(d, r)
    BY <1>2 DEF Freed
  <2>3. d \in Clients /\ d.out = c.out /\ d.owned \subseteq c.owned
    BY DEF Clients
  <2> HIDE DEF r, d, f
  <2>4. c.out \in Seq(Requests) /\ f.out = Append(c.out, r)
    BY <2>1, <2>2, <2>3, SentOut
  <2>5. /\ f.surface = c.surface /\ f.configured = c.configured
        /\ f.owned = c.owned \ bufs /\ f.released = c.released \ bufs
    BY FreedFields DEF f
  <2>6. ASSUME NEW b \in Buffers
        PROVE  BufferOK(Append(c.out, r), c.owned \ bufs, c.released \ bufs, c.surface, holds, events, b)
    <3> DEFINE own2 == c.owned \ bufs
               rel2 == c.released \ bufs
    <3>1. BufferOK(c.out, c.owned, c.released, c.surface, holds, events, b)
      BY DEF InOrder
    <3>2. CASE b \in bufs
      <4>1. holds[b] = None /\ Commits(c.out, b) = {}
        BY <3>1, <3>2 DEF BufferOK
      <4>2. b \notin own2 /\ b \notin rel2
        BY <3>2
      <4> HIDE DEF own2, rel2
      <4>3. BufferOK(Append(c.out, r), own2, rel2, c.surface, holds, events, b)
        BY <2>1, <2>4, <3>1, <3>2, <4>1, <4>2, BufferFreed
      <4>4. QED  BY <4>3 DEF own2, rel2
    <3>3. CASE b \notin bufs
      <4>1. (b \in own2 <=> b \in c.owned) /\ (b \in rel2 <=> b \in c.released)
        BY <3>3
      <4> HIDE DEF own2, rel2
      <4>2. BufferOK(Append(c.out, r), own2, rel2, c.surface, holds, events, b)
        BY <2>1, <2>4, <3>1, <3>3, <4>1, BufferAppend
      <4>3. QED  BY <4>2 DEF own2, rel2
    <3>4. QED  BY <3>2, <3>3
  <2>7. SurfacesOK(Append(c.out, r), c.surface, c.configured, view, events)
    BY <2>1, <2>4, SurfacesUntouched DEF InOrder
  <2>8. InOrder(f)
    BY <2>4, <2>5, <2>6, <2>7 DEF InOrder
  <2>9. ASSUME NEW b \in Buffers, Unused(c, b), b \notin bufs PROVE Unused(f, b)
    <3>1. Unused(d, b)
      BY <2>3, <2>9 DEF Unused
    <3>2. QED  BY <2>1, <2>2, <2>3, <2>9, <3>1, SentOut
  <2>10. QED  BY <2>8, <2>9 DEF f
<1>3. QED  BY <1>1, <1>2

LEMMA CollectRetiredOrder ==
  ASSUME NEW c, Sound(c), InOrder(c)
  PROVE  InOrder(CollectRetired(c)) /\ \A b \in Buffers : Unused(c, b) => Unused(CollectRetired(c), b)
<1> DEFINE d == [c EXCEPT !.retired = @ \ c.released]
           bufs == c.retired \cap c.released
<1>1. /\ d \in Clients /\ d.out = c.out /\ d.owned = c.owned /\ d.released = c.released
      /\ d.surface = c.surface /\ d.configured = c.configured
      /\ bufs \in SUBSET Buffers /\ bufs \subseteq d.released /\ c.released \subseteq c.owned
  BY DEF Sound, Clients
<1>2. CollectRetired(c) = Freed(d, bufs)
  BY DEF CollectRetired
<1> HIDE DEF d
<1>3. InOrder(d) /\ \A b : Unused(c, b) => Unused(d, b)
  BY <1>1, SameOrder
<1>4. \A b : Unused(c, b) => b \notin bufs
  BY <1>1 DEF Unused
<1> HIDE DEF bufs
<1>5. InOrder(Freed(d, bufs)) /\ \A b \in Buffers : Unused(d, b) /\ b \notin bufs => Unused(Freed(d, bufs), b)
  BY <1>1, <1>3, FreedOrder
<1>6. QED  BY <1>2, <1>3, <1>4, <1>5

LEMMA RetiredOrder ==
  ASSUME NEW c, Sound(c), InOrder(c)
  PROVE  InOrder(Retired(c)) /\ \A b \in Buffers : Unused(c, b) => Unused(Retired(c), b)
<1> DEFINE d == CollectRetired(c)
           e == [d EXCEPT !.buffer = None, !.retired = @ \cup (Current(d) \ d.released)]
           bufs == Current(d) \cap d.released
<1>1. Sound(d) /\ InOrder(d) /\ \A b \in Buffers : Unused(c, b) => Unused(d, b)
  BY CollectRetiredSound, CollectRetiredOrder
<1>2. Retired(c) = Freed(e, bufs)
  BY DEF Retired
<1> HIDE DEF d
<1>3. /\ d \in Clients /\ Current(d) \in SUBSET Buffers /\ d.released \subseteq d.owned
  BY <1>1 DEF Sound, Clients, Current
<1>4. /\ e \in Clients /\ e.out = d.out /\ e.owned = d.owned /\ e.released = d.released
      /\ e.surface = d.surface /\ e.configured = d.configured
      /\ bufs \in SUBSET Buffers /\ bufs \subseteq e.released
  BY <1>3 DEF Clients
<1>5. \A b : Unused(d, b) => b \notin bufs
  BY <1>3 DEF Unused
<1> HIDE DEF e, bufs
<1>6. InOrder(e) /\ \A b : Unused(d, b) => Unused(e, b)
  BY <1>1, <1>4, SameOrder
<1>7. InOrder(Freed(e, bufs)) /\ \A b \in Buffers : Unused(e, b) /\ b \notin bufs => Unused(Freed(e, bufs), b)
  BY <1>4, <1>6, FreedOrder
<1>8. QED  BY <1>1, <1>2, <1>5, <1>6, <1>7

LEMMA CollectedOrder ==
  ASSUME NEW c, Sound(c), InOrder(c) PROVE InOrder(Collected(c))
<1> DEFINE d == CollectRetired(c)
           e == [d EXCEPT !.buffer = None]
           bufs == Current(d)
<1>1. Sound(d) /\ InOrder(d)
  BY CollectRetiredSound, CollectRetiredOrder
<1>2. Collected(c) = IF Current(d) \cap d.released = {} THEN d ELSE Freed(e, bufs)
  BY DEF Collected
<1> HIDE DEF d
<1>3. CASE Current(d) \cap d.released # {}
  <2>1. /\ e \in Clients /\ e.out = d.out /\ e.owned = d.owned /\ e.released = d.released
        /\ e.surface = d.surface /\ e.configured = d.configured
        /\ bufs \in SUBSET Buffers /\ bufs \subseteq e.released
    BY <1>1, <1>3 DEF Clients, Sound, Current
  <2> HIDE DEF e, bufs
  <2>2. InOrder(e)
    BY <1>1, <2>1, SameOrder
  <2>3. InOrder(Freed(e, bufs))
    BY <2>1, <2>2, FreedOrder
  <2>4. QED  BY <1>2, <1>3, <2>3
<1>4. QED  BY <1>1, <1>2, <1>3

LEMMA ShownOrder ==
  ASSUME NEW c, Sound(c), InOrder(c), c.configured, NEW b \in Buffers, Unused(c, b)
  PROVE  InOrder(Shown(c, b))
<1> DEFINE d == Retired(c)
           e == [d EXCEPT !.owned = @ \cup {b}, !.buffer = b,
                          !.repaint = FALSE, !.content = TRUE]
           r == Request("commit", c.surface, {b})
           f == Sent(e, r)
<1>1. /\ Sound(d) /\ InOrder(d) /\ Unused(d, b) /\ d.surface = c.surface
      /\ d.configured /\ c.surface \in Surfaces
  <2>1. c.surface \in Surfaces
    BY DEF Sound, Clients
  <2>2. QED  BY <2>1, RetiredSound, RetiredOrder
<1>2. Shown(c, b) = f
  BY DEF Shown
<1> HIDE DEF d
<1>3. /\ d \in Clients /\ e \in Clients /\ e.out = d.out /\ e.surface = d.surface
      /\ e.configured = d.configured /\ e.owned = d.owned \cup {b} /\ e.released = d.released
  BY <1>1 DEF Sound, Clients
<1>4. r \in Requests /\ r.op = "commit" /\ r.surface = c.surface /\ r.buffers = {b}
  BY <1>1 DEF Request, Requests
<1> HIDE DEF e, r
<1>5. /\ f.out = Append(d.out, r) /\ d.out \in Seq(Requests) /\ f.surface = d.surface
      /\ f.configured = d.configured /\ f.owned = d.owned \cup {b} /\ f.released = d.released
  BY <1>3, <1>4, SentOut, SentFields
<1> HIDE DEF f
<1>6. ASSUME NEW x \in Buffers
      PROVE  BufferOK(f.out, f.owned, f.released, f.surface, holds, events, x)
  <2>1. BufferOK(d.out, d.owned, d.released, d.surface, holds, events, x)
    BY <1>1 DEF InOrder
  <2> DEFINE own2 == d.owned \cup {b}
  <2>2. CASE x = b
    <3>1. b \in own2 /\ b \notin d.owned /\ b \notin d.released
      BY <1>1 DEF Unused, Sound
    <3> HIDE DEF own2
    <3>2. BufferOK(Append(d.out, r), own2, d.released, d.surface, holds, events, b)
      BY <1>1, <1>4, <1>5, <2>1, <2>2, <3>1, BufferShown DEF Unused
    <3>3. QED  BY <1>5, <2>2, <3>2 DEF own2
  <2>3. CASE x # b
    <3>1. x \in own2 <=> x \in d.owned
      BY <2>3
    <3> HIDE DEF own2
    <3>2. BufferOK(Append(d.out, r), own2, d.released, d.surface, holds, events, x)
      BY <1>4, <1>5, <2>1, <2>3, <3>1, BufferAppend
    <3>3. QED  BY <1>5, <3>2 DEF own2
  <2>4. QED  BY <2>2, <2>3
<1>7. SurfacesOK(f.out, f.surface, f.configured, view, events)
  <2>1. SurfacesOK(Append(d.out, r), c.surface, d.configured, view, events)
    BY <1>1, <1>4, <1>5, SurfacesCommit DEF InOrder
  <2>2. QED  BY <1>1, <1>5, <2>1
<1>8. InOrder(f)
  BY <1>6, <1>7 DEF InOrder
<1>9. QED  BY <1>2, <1>8

\* every buffer goes, after the surface that may show it
LEMMA DestroyedOrder ==
  ASSUME NEW c, Sound(c), InOrder(c), events \in Seq(Events)
  PROVE  InOrder(Destroyed(c))
<1>1. CASE c.surface = None
  BY <1>1 DEF Destroyed
<1>2. CASE c.surface # None
  <2> DEFINE s == c.surface
             r == Request("destroy", s, {})
             d == Sent(c, r)
             e == [d EXCEPT !.surface = None, !.buffer = None, !.retired = {},
                            !.configured = FALSE, !.content = FALSE]
             bufs == Current(c) \cup c.retired
             free == Request("free", None, bufs)
             f == Freed(e, bufs)
             n == Len(c.out) + 1
             q == Append(c.out, r)
  <2>1. Destroyed(c) = f
    BY <1>2 DEF Destroyed
  <2>2. /\ c \in Clients /\ s \in Surfaces /\ bufs = c.owned /\ c.released \subseteq c.owned
        /\ c.owned \in SUBSET Buffers
    BY <1>2 DEF Sound, Clients
  <2>3. r \in Requests /\ r.op = "destroy" /\ r.surface = s /\ r.buffers = {}
    BY <2>2 DEF Request, Requests
  <2>4. free \in Requests /\ free.op = "free" /\ free.buffers = bufs
    BY <2>2 DEF Request, Requests
  <2> HIDE DEF r, free
  <2>5. d \in Clients /\ d.out = q /\ d.owned = c.owned /\ d.released = c.released /\ c.out \in Seq(Requests)
    BY <2>2, <2>3, SentFields, SentOut
  <2> HIDE DEF d, s
  <2>6. /\ e \in Clients /\ e.out = q /\ e.surface = None /\ e.configured = FALSE
        /\ e.owned = c.owned /\ e.released = c.released
    BY <2>5 DEF Clients
  <2> HIDE DEF e, bufs
  <2>7. /\ q \in Seq(Requests) /\ n \in DOMAIN q /\ q[n] = r
        /\ \A j \in DOMAIN c.out : j < n /\ q[j] = c.out[j]
    BY <2>3, <2>5, AppendAt
  <2> HIDE DEF q, n
  <2>8. /\ f.surface = None /\ f.configured = FALSE /\ f.owned = {} /\ f.released = {}
        /\ f.out = IF bufs = {} THEN q ELSE Append(q, free)
    <3>1. bufs \in SUBSET Buffers
      BY <2>2
    <3>2. /\ f.surface = e.surface /\ f.configured = e.configured
          /\ f.owned = e.owned \ bufs /\ f.released = e.released \ bufs
      BY <2>6, <3>1, FreedFields
    <3>3. f.out = IF bufs = {} THEN q ELSE Append(q, free)
      <4> DEFINE g == [e EXCEPT !.owned = @ \ bufs, !.released = @ \ bufs]
      <4>1. g \in Clients /\ g.out = q
        BY <2>6 DEF Clients
      <4>2. f = IF bufs = {} THEN e ELSE Sent(g, free)
        BY DEF Freed, free
      <4> HIDE DEF f, g
      <4>3. QED  BY <2>4, <2>6, <4>1, <4>2, SentOut
    <3>4. QED  BY <2>2, <2>6, <3>2, <3>3
  <2> HIDE DEF f
  <2>9. SurfacesOK(f.out, f.surface, f.configured, view, events)
    <3>1. SurfacesOK(q, None, FALSE, view, events)
      BY <2>2, <2>3, <2>5, SurfacesDestroy DEF InOrder, q, s
    <3>2. QED  BY <2>4, <2>7, <2>8, <3>1, SurfacesUntouched
  <2>10. ASSUME NEW b \in Buffers PROVE BufferOK(f.out, f.owned, f.released, f.surface, holds, events, b)
    <3>1. BufferOK(q, c.owned, c.released, s, holds, events, b)
      BY <2>3, <2>5, BufferAppend DEF InOrder, q, s
    <3> DEFINE none == {}
    <3>2. b \notin none
      OBVIOUS
    <3>3. CASE b \in bufs
      <4>1. Commits(q, b) = Commits(c.out, b) /\ \A j \in Commits(c.out, b) : j \in DOMAIN c.out /\ c.out[j].surface = s
        <5>1. \A j \in Commits(c.out, b) : j \in DOMAIN c.out /\ c.out[j].surface = s
          BY <2>2, <3>3 DEF InOrder, BufferOK, Commits, s
        <5>2. Commits(q, b) = Commits(c.out, b)
            \cup (IF r.op = "commit" /\ b \in r.buffers THEN {Len(c.out) + 1} ELSE {})
          BY <2>3, <2>5, AppendSets DEF q
        <5>3. QED  BY <2>3, <5>1, <5>2
      <4>2. Does(q, n, "destroy", s)
        BY <2>3, <2>7 DEF Does
      <4>3. holds[b] # None => \E k \in DOMAIN q : Does(q, k, "destroy", holds[b])
        BY <2>2, <2>7, <3>1, <3>3, <4>2 DEF BufferOK
      <4>4. \A j \in Commits(q, b) : \E k \in DOMAIN q : j < k /\ Does(q, k, "destroy", q[j].surface)
        BY <2>7, <4>1, <4>2
      <4> HIDE DEF none
      <4>5. BufferOK(Append(q, free), none, none, None, holds, events, b)
        BY <2>4, <2>7, <3>1, <3>2, <3>3, <4>3, <4>4, BufferFreed
      <4>6. bufs # {}
        BY <3>3
      <4>7. QED  BY <2>8, <4>5, <4>6 DEF none
    <3>4. CASE b \notin bufs
      <4>1. BufferOK(q, c.owned, c.released, None, holds, events, b)
        BY <2>2, <3>1, <3>4, BufferUnowned
      <4>2. (b \in none <=> b \in c.owned) /\ (b \in none <=> b \in c.released)
        BY <2>2, <3>4
      <4> HIDE DEF none
      <4>3. BufferOK(Append(q, free), none, none, None, holds, events, b)
        BY <2>4, <2>7, <3>4, <4>1, <4>2, BufferAppend
      <4>4. bufs = {} => BufferOK(q, none, none, None, holds, events, b)
        BY <2>2, <4>1 DEF none
      <4>5. QED  BY <2>8, <4>3, <4>4 DEF none
    <3>5. QED  BY <3>3, <3>4
  <2>11. InOrder(f)
    BY <2>9, <2>10 DEF InOrder
  <2>12. QED  BY <2>1, <2>11
<1>3. QED  BY <1>1, <1>2

LEMMA EnsuredOrder ==
  ASSUME NEW c, Sound(c), InOrder(c), NEW s \in Surfaces \cup {None},
         s # None => /\ view[s] = "none"
                     /\ \A i \in DOMAIN c.out : c.out[i].surface # s
                     /\ \A i \in DOMAIN events : events[i].surface # s
  PROVE  InOrder(Ensured(c, s)) /\ \A b : Unused(c, b) => Unused(Ensured(c, s), b)
<1>1. CASE c.surface # None \/ s = None
  BY <1>1 DEF Ensured
<1>2. CASE c.surface = None /\ s # None
  <2> DEFINE d == [c EXCEPT !.surface = s, !.configured = FALSE, !.content = FALSE,
                            !.repaint = FALSE, !.buffer = None, !.retired = {}]
             r == Request("create", s, {})
             f == Sent(d, r)
  <2>1. Ensured(c, s) = f
    BY <1>2 DEF Ensured
  <2>2. r \in Requests /\ r.op = "create" /\ r.surface = s /\ r.buffers = {} /\ s \in Surfaces
    BY <1>2 DEF Request, Requests
  <2>3. /\ c \in Clients /\ d \in Clients /\ d.out = c.out /\ d.surface = s /\ d.configured = FALSE
        /\ d.owned = c.owned /\ d.released = c.released /\ c.owned = {} /\ c.released = {}
    BY <1>2 DEF Sound, Clients
  <2> HIDE DEF d, r
  <2>4. /\ f.out = Append(c.out, r) /\ c.out \in Seq(Requests) /\ f.surface = s /\ f.configured = FALSE
        /\ f.owned = c.owned /\ f.released = c.released
        /\ \A b : Unused(d, b) => Unused(f, b)
    BY <2>2, <2>3, SentOut, SentFields
  <2>5. \A b : Unused(c, b) => Unused(d, b)
    BY <2>3 DEF Unused
  <2> HIDE DEF f
  <2>6. SurfacesOK(f.out, f.surface, f.configured, view, events)
    <3>1. SurfacesOK(Append(c.out, r), s, FALSE, view, events)
      BY <1>2, <2>2, <2>4, SurfacesCreate DEF InOrder
    <3>2. QED  BY <2>4, <3>1
  <2>7. ASSUME NEW b \in Buffers
        PROVE  BufferOK(f.out, f.owned, f.released, f.surface, holds, events, b)
    <3>1. BufferOK(c.out, c.owned, c.released, s, holds, events, b)
      BY <2>3, BufferUnowned DEF InOrder
    <3>2. BufferOK(Append(c.out, r), c.owned, c.released, s, holds, events, b)
      BY <2>2, <2>4, <3>1, BufferAppend
    <3>3. QED  BY <2>4, <3>2
  <2>8. InOrder(f)
    BY <2>6, <2>7 DEF InOrder
  <2>9. QED  BY <2>1, <2>4, <2>5, <2>8
<1>3. QED  BY <1>1, <1>2

LEMMA ReconciledOrder ==
  ASSUME NEW c, Sound(c), InOrder(c), NEW blank \in BOOLEAN,
         NEW b \in Buffers \cup {None}, b # None => Unused(c, b)
  PROVE  InOrder(Reconciled(c, blank, b))
<1>1. CASE ~c.configured \/ ~c.repaint
  BY <1>1 DEF Reconciled
<1>2. CASE c.configured /\ c.repaint
  <2> DEFINE d == IF b # None /\ (blank \/ ~c.content) THEN Shown(c, b) ELSE c
             dirty == d.repaint /\ blank
             e == [d EXCEPT !.repaint = dirty]
  <2>1. Reconciled(c, blank, b) = e
    BY <1>2 DEF Reconciled
  <2>2. InOrder(d)
    BY <1>2, ShownOrder
  <2>3. Sound(d)
    <3>1. b # None => b \notin c.owned
      BY DEF Unused
    <3>2. QED  BY <1>2, <3>1, ShownSound DEF Sound
  <2> HIDE DEF d, dirty
  <2>4. /\ e.out = d.out /\ e.owned = d.owned /\ e.released = d.released
        /\ e.surface = d.surface /\ e.configured = d.configured
    BY <2>3 DEF Sound, Clients
  <2>5. QED  BY <2>1, <2>2, <2>4, SameOrder
<1>3. QED  BY <1>1, <1>2

\* the event at the head of those sent is dispatched
LEMMA HandledOrder ==
  ASSUME NEW c, Sound(c), InOrder(c), events \in Seq(Events), events # << >>
  PROVE  InOrder(Handled(c, Head(events)))
<1> DEFINE ev == Head(events)
<1>1. ev \in Events /\ 1 \in DOMAIN events /\ ev = events[1] /\ c \in Clients
  BY DEF Sound
<1> HIDE DEF ev
<1>2. CASE ev.op \in {"configure", "resize"} /\ ev.surface = c.surface /\ c.surface # None
  <2> DEFINE s == c.surface
             dirty == c.repaint \/ ev.op = "resize"
             d == [c EXCEPT !.configured = TRUE, !.repaint = dirty]
             r == Request("ack", s, {})
             f == Sent(d, r)
  <2>1. Handled(c, ev) = f
    BY <1>2 DEF Handled
  <2>2. r \in Requests /\ r.op = "ack" /\ r.surface = s /\ r.buffers = {} /\ s \in Surfaces
    BY <1>1, <1>2 DEF Clients, Request, Requests
  <2>3. dirty \in BOOLEAN
    BY <1>1 DEF Clients
  <2> HIDE DEF dirty, r
  <2>4. /\ d \in Clients /\ d.out = c.out /\ d.surface = s /\ d.configured = TRUE
        /\ d.owned = c.owned /\ d.released = c.released
    BY <1>1, <2>3 DEF Clients
  <2> HIDE DEF d
  <2>5. /\ f.out = Append(c.out, r) /\ c.out \in Seq(Requests) /\ f.surface = s /\ f.configured = TRUE
        /\ f.owned = c.owned /\ f.released = c.released
    BY <2>2, <2>4, SentOut, SentFields
  <2> HIDE DEF f
  <2>6. view[s] \in {"told", "acked", "closed"}
    BY <1>1, <1>2 DEF InOrder, SurfacesOK, ToldOK
  <2>7. SurfacesOK(Append(c.out, r), s, TRUE, view, events)
    BY <2>2, <2>5, <2>6, SurfacesAck DEF InOrder
  <2>8. InOrder(f)
    BY <1>1, <2>2, <2>5, <2>7, SentOrder
  <2>9. QED  BY <2>1, <2>8 DEF ev
<1>3. CASE ev.op = "release"
  <2> DEFINE rel == c.released \cup ({ev.buffer} \cap c.owned)
             d == [c EXCEPT !.released = rel]
  <2>1. Handled(c, ev) = d
    BY <1>3 DEF Handled
  <2>2. /\ d.out = c.out /\ d.owned = c.owned /\ d.released = rel
        /\ d.surface = c.surface /\ d.configured = c.configured
    BY <1>1 DEF Clients
  <2> HIDE DEF d
  <2>3. ASSUME NEW b \in Buffers
        PROVE  BufferOK(c.out, c.owned, rel, c.surface, holds, events, b)
    <3>1. BufferOK(c.out, c.owned, c.released, c.surface, holds, events, b)
      BY DEF InOrder
    <3>2. b \in rel => b \in c.released \/ Returned(events, b)
      BY <1>1, <1>3 DEF Returned
    <3> HIDE DEF rel
    <3>3. QED  BY <3>1, <3>2 DEF BufferOK
  <2> HIDE DEF rel
  <2>4. InOrder(d)
    BY <2>2, <2>3 DEF InOrder
  <2>5. QED  BY <2>1, <2>4 DEF ev
<1>4. CASE ev.op = "closed"
  BY <1>4, DestroyedOrder DEF Handled, ev
<1>5. CASE ev.op = "done" \/ (ev.op \in {"configure", "resize"} /\ ev.surface # c.surface)
  BY <1>5 DEF Handled, ev
<1>6. \/ ev.op \in {"configure", "resize"} /\ ev.surface # None
      \/ ev.op \in {"closed", "release", "done"}
  BY <1>1, ObjectAssumption DEF Events
<1>7. QED  BY <1>2, <1>3, <1>4, <1>5, <1>6

-----------------------------------------------------------------------------
(* Every step keeps the order.                                             *)

Order == InOrder(client)

LEMMA DaemonOrder ==
  ASSUME InOrder(client'), UNCHANGED <<view, holds, events>> PROVE Order'
BY DEF Order, InOrder

\* an event less, or one that is about no buffer and no size
LEMMA BufferSame ==
  ASSUME NEW q, NEW own, NEW rel, NEW s, NEW h, NEW ev, NEW b, BufferOK(q, own, rel, s, h, ev, b),
         NEW h2, NEW ev2, h2[b] = h[b], Returned(ev2, b) => Returned(ev, b)
  PROVE  BufferOK(q, own, rel, s, h2, ev2, b)
BY DEF BufferOK, GoneBy

LEMMA FreshIsUnused ==
  ASSUME NEW b \in FreshBuffers PROVE b \in Buffers /\ Unused(client, b)
BY DEF FreshBuffers, Unused, Returned

LEMMA DispatchOrder == IInv /\ Order /\ Dispatch => Order'
<1> SUFFICES ASSUME IInv, Order, Dispatch PROVE Order'
  OBVIOUS
<1> DEFINE ev == Tail(events)
<1>1. InOrder(Handled(client, Head(events)))
  BY HandledOrder DEF Dispatch, Order, IInv, Rest
<1>2. client' = Handled(client, Head(events)) /\ events' = ev /\ view' = view /\ holds' = holds
  BY DEF Dispatch
<1>3. InOrder(client')
  BY <1>1, <1>2
<1>4. \A i \in DOMAIN ev : i + 1 \in DOMAIN events /\ ev[i] = events[i + 1]
  BY DEF Dispatch, IInv, Rest
<1> HIDE DEF ev
<1>5. \A b : Returned(ev, b) => Returned(events, b)
  BY <1>4 DEF Returned
<1>6. \A s : ToldOK(s, view, events) => ToldOK(s, view, ev)
  BY <1>4 DEF ToldOK
<1>7. \A b \in Buffers : BufferOK(client'.out, client'.owned, client'.released, client'.surface, holds, ev, b)
  BY <1>3, <1>5, BufferSame DEF InOrder
<1>8. SurfacesOK(client'.out, client'.surface, client'.configured, view, ev)
  BY <1>3, <1>6 DEF InOrder, SurfacesOK
<1>9. QED  BY <1>2, <1>7, <1>8 DEF Order, InOrder

LEMMA FirstPaintOrder == IInv /\ Order /\ FirstPaint => Order'
<1> SUFFICES ASSUME IInv, Order, FirstPaint PROVE Order'
  OBVIOUS
<1>1. PICK blank \in BOOLEAN, b \in FreshBuffers \cup {None} :
        client' = Sent(Reconciled(client, blank, b), Sync)
  BY DEF FirstPaint
<1>2. b \in Buffers \cup {None} /\ (b # None => b \notin client.owned /\ Unused(client, b))
  BY FreshIsUnused DEF Unused
<1> DEFINE c == Reconciled(client, blank, b)
           d == Sent(c, Sync)
<1>3. Sound(c) /\ InOrder(c)
  <2>1. Sound(client) /\ InOrder(client)
    BY DEF IInv, Order
  <2>2. None \notin client.owned
    BY <2>1, ObjectAssumption DEF Sound, Clients
  <2>3. b \notin client.owned
    BY <1>2, <2>2
  <2>4. Sound(c)
    BY <1>2, <2>1, <2>3, ReconciledSound
  <2>5. InOrder(c)
    BY <1>2, <2>1, ReconciledOrder
  <2>6. QED  BY <2>4, <2>5
<1> HIDE DEF c
<1>4. Sync \in Requests /\ Sync.op = "sync" /\ Sync.buffers = {} /\ c \in Clients
  BY <1>3 DEF Sync, Request, Requests, Sound
<1>5. /\ d.out = Append(c.out, Sync) /\ c.out \in Seq(Requests) /\ d.owned = c.owned
      /\ d.released = c.released /\ d.surface = c.surface /\ d.configured = c.configured
  BY <1>4, SentOut, SentFields
<1> HIDE DEF d
<1>6. SurfacesOK(Append(c.out, Sync), c.surface, c.configured, view, events)
  BY <1>3, <1>4, <1>5, SurfacesUntouched DEF InOrder
<1>7. InOrder(d)
  BY <1>3, <1>4, <1>5, <1>6, SentOrder
<1>8. InOrder(client')
  BY <1>1, <1>7 DEF c, d
<1>9. QED  BY <1>8, DaemonOrder DEF FirstPaint

LEMMA ReconcileOrder == IInv /\ Order /\ Reconcile => Order'
<1> SUFFICES ASSUME IInv, Order, Reconcile PROVE Order'
  OBVIOUS
<1>1. PICK s \in FreshSurfaces \cup {None}, b \in FreshBuffers \cup {None}, blank \in BOOLEAN :
        client' = Collected(Reconciled(Ensured(client, s), blank, b))
  BY DEF Reconcile
<1>2. /\ s \in Surfaces \cup {None}
      /\ s # None => /\ view[s] = "none"
                     /\ \A i \in DOMAIN client.out : client.out[i].surface # s
                     /\ \A i \in DOMAIN events : events[i].surface # s
  BY DEF FreshSurfaces
<1>3. b \in Buffers \cup {None} /\ (b # None => Unused(client, b))
  BY FreshIsUnused
<1> DEFINE c == Ensured(client, s)
           d == Reconciled(c, blank, b)
<1>4. Sound(c) /\ InOrder(c) /\ (b # None => Unused(c, b))
  BY <1>2, <1>3, EnsuredSound, EnsuredOrder DEF IInv, Order
<1> HIDE DEF c
<1>5. b # None => b \notin c.owned
  BY <1>4 DEF Unused
<1>6. None \notin c.owned
  BY <1>4, ObjectAssumption DEF Sound, Clients
<1>7. Sound(d) /\ InOrder(d)
  BY <1>3, <1>4, <1>5, <1>6, ReconciledSound, ReconciledOrder
<1> HIDE DEF d
<1>8. InOrder(Collected(d))
  BY <1>7, CollectedOrder
<1>9. InOrder(client')
  BY <1>1, <1>8 DEF c, d
<1>10. QED  BY <1>9, DaemonOrder DEF Reconcile

LEMMA ServeOrder == IInv /\ Order /\ Serve => Order'
<1> SUFFICES ASSUME IInv, Order, Serve PROVE Order'
  OBVIOUS
<1>1. UNCHANGED <<view, holds, events>>
  BY DEF Serve, Attach, Repaint, NoRequest
<1>2. CASE Attach
  <2>1. PICK b \in FreshBuffers : client' = Shown(client, b)
    BY <1>2 DEF Attach
  <2>2. InOrder(client')
    BY <1>2, <2>1, FreshIsUnused, ShownOrder DEF Attach, Paintable, IInv, Order
  <2>3. QED  BY <1>1, <2>2, DaemonOrder
<1>3. CASE Repaint
  <2>1. PICK blank \in BOOLEAN, b \in FreshBuffers \cup {None} :
          client' = Reconciled([client EXCEPT !.repaint = TRUE], blank, b)
    BY <1>3 DEF Repaint
  <2> DEFINE c == [client EXCEPT !.repaint = TRUE]
  <2>2. /\ Sound(c) /\ c.out = client.out /\ c.owned = client.owned /\ c.released = client.released
        /\ c.surface = client.surface /\ c.configured = client.configured
    BY DEF IInv, Sound, Clients, Current
  <2> HIDE DEF c
  <2>3. InOrder(c) /\ \A x : Unused(client, x) => Unused(c, x)
    BY <2>2, SameOrder DEF Order
  <2>4. b \in Buffers \cup {None} /\ (b # None => Unused(c, b))
    BY <2>3, FreshIsUnused
  <2>5. InOrder(client')
    BY <2>1, <2>2, <2>3, <2>4, ReconciledOrder DEF c
  <2>6. QED  BY <1>1, <2>5, DaemonOrder
<1>4. CASE NoRequest
  BY <1>4 DEF NoRequest, Order, InOrder
<1>5. QED  BY <1>2, <1>3, <1>4 DEF Serve

LEMMA TailAt ==
  ASSUME NEW q \in Seq(Requests), q # << >>
  PROVE  /\ 1 \in DOMAIN q /\ q[1] = Head(q) /\ Tail(q) \in Seq(Requests)
         /\ \A i \in DOMAIN Tail(q) : i \in Nat /\ i + 1 \in DOMAIN q /\ Tail(q)[i] = q[i + 1]
         /\ \A j \in DOMAIN q : j \in Nat /\ (j # 1 => \E i \in DOMAIN Tail(q) : j = i + 1)
         /\ Len(Tail(q)) + 1 = Len(q)
<1> DEFINE t == Tail(q)
<1>1. q \in [1..Len(q) -> Requests] /\ Len(q) \in Nat /\ Len(q) > 0
  OBVIOUS
<1>2. t \in Seq(Requests) /\ Len(t) = Len(q) - 1 /\ q[1] = Head(q)
      /\ \A i \in 1..(Len(q) - 1) : t[i] = q[i + 1]
  OBVIOUS
<1>3. DOMAIN t = 1..(Len(q) - 1) /\ DOMAIN q = 1..Len(q)
  BY <1>2
<1> HIDE DEF t
<1>4. ASSUME NEW j \in DOMAIN q, j # 1 PROVE \E i \in DOMAIN t : j = i + 1
  <2>1. j - 1 \in 1..(Len(q) - 1) /\ j = (j - 1) + 1
    BY <1>1, <1>3, <1>4
  <2>2. QED  BY <1>3, <2>1
<1>5. QED  BY <1>1, <1>2, <1>3, <1>4 DEF t

\* how requests are numbered once the first is handled
LEMMA TailSets ==
  ASSUME NEW q \in Seq(Requests), q # << >>, NEW b
  PROVE  /\ \A i \in Commits(Tail(q), b) : i \in Nat /\ i + 1 \in Commits(q, b) /\ Tail(q)[i] = q[i + 1]
         /\ \A i \in Frees(Tail(q), b) : i \in Nat /\ i + 1 \in Frees(q, b)
         /\ \A j \in Frees(q, b) : j # 1 => Frees(Tail(q), b) # {}
         /\ 1 \in Commits(q, b) <=> Head(q).op = "commit" /\ b \in Head(q).buffers
         /\ 1 \in Frees(q, b) <=> Head(q).op = "free" /\ b \in Head(q).buffers
BY TailAt DEF Commits, Frees

\* a surface was destroyed between two requests, or before one
LEMMA TailDestroy ==
  ASSUME NEW q \in Seq(Requests), q # << >>, NEW i \in Nat, NEW s,
         NEW k \in DOMAIN q, k # 1, k < i + 1, Does(q, k, "destroy", s)
  PROVE  \E m \in DOMAIN Tail(q) : k = m + 1 /\ m < i /\ Does(Tail(q), m, "destroy", s)
<1>1. PICK m \in DOMAIN Tail(q) : k = m + 1
  BY TailAt
<1>2. m \in Nat /\ Tail(q)[m] = q[k]
  BY <1>1, TailAt
<1>3. m < i
  BY <1>1, <1>2
<1>4. QED  BY <1>1, <1>2, <1>3 DEF Does

\* the compositor handles a request
LEMMA BufferHandled ==
  ASSUME NEW q \in Seq(Requests), q # << >>, NEW own, NEW rel, NEW s, NEW h, NEW h2, NEW ev, NEW ev2,
         NEW b, BufferOK(q, own, rel, s, h, ev, b), Returned(ev2, b) => Returned(ev, b),
         h2[b] = CASE Head(q).op = "commit" /\ b \in Head(q).buffers -> Head(q).surface
                   [] Head(q).op = "destroy" /\ h[b] = Head(q).surface -> None
                   [] Head(q).op = "free" /\ b \in Head(q).buffers -> None
                   [] OTHER -> h[b]
  PROVE  BufferOK(Tail(q), own, rel, s, h2, ev2, b)
<1> DEFINE t == Tail(q)
           r == Head(q)
<1>1. /\ \A i \in Commits(t, b) : i \in Nat /\ i + 1 \in Commits(q, b) /\ t[i] = q[i + 1]
      /\ \A i \in Frees(t, b) : i \in Nat /\ i + 1 \in Frees(q, b)
      /\ \A j \in Frees(q, b) : j # 1 => Frees(t, b) # {}
      /\ 1 \in Commits(q, b) <=> r.op = "commit" /\ b \in r.buffers
      /\ 1 \in Frees(q, b) <=> r.op = "free" /\ b \in r.buffers
  BY TailSets
<1>2. 1 \in DOMAIN q /\ q[1] = r
  BY TailAt
<1>3. /\ r.op = "commit" /\ b \in r.buffers => h2[b] = r.surface
      /\ ~(r.op = "commit" /\ b \in r.buffers) => h2[b] = None \/ h2[b] = h[b]
      /\ r.op = "destroy" /\ h[b] = r.surface => h2[b] = None
      /\ r.op = "free" /\ b \in r.buffers => h2[b] = None
  BY <1>1, <1>2
<1>4. \A i \in Commits(t, b) : \A i2 \in Commits(t, b) : i = i2
  <2>1. \A i, i2 \in Commits(q, b) : i = i2
    BY DEF BufferOK
  <2> HIDE DEF t
  <2>2. QED  BY <1>1, <2>1
<1>5. 1 \in Commits(q, b) => Commits(t, b) = {}
  <2>1. \A i, i2 \in Commits(q, b) : i = i2
    BY DEF BufferOK
  <2>2. \A n \in Nat : n + 1 = 1 => n = 0
    OBVIOUS
  <2>3. 0 \notin DOMAIN t
    BY TailAt
  <2>4. 0 \notin Commits(t, b)
    BY <2>3 DEF Commits
  <2> HIDE DEF t
  <2>5. QED  BY <1>1, <2>1, <2>2, <2>4
<1>6. /\ Commits(q, b) = {} => Commits(t, b) = {}
      /\ Frees(q, b) = {} => Frees(t, b) = {}
  BY <1>1
<1> HIDE DEF t, r
<1>7. b \in rel \/ Returned(ev2, b) => h2[b] = None /\ Commits(t, b) = {}
  BY <1>1, <1>3, <1>6 DEF BufferOK
<1>8. h2[b] # None => Commits(t, b) = {}
  BY <1>1, <1>3, <1>5, <1>6 DEF BufferOK
<1>9. ASSUME NEW i \in Frees(t, b) PROVE GoneBy(t, h2, b, i)
  <2>1. i \in Nat /\ i + 1 \in Frees(q, b) /\ GoneBy(q, h, b, i + 1)
    BY <1>1, <1>9 DEF BufferOK
  <2>2. ASSUME h2[b] # None PROVE \E k \in DOMAIN t : k < i /\ Does(t, k, "destroy", h2[b])
    <3>1. \E k \in DOMAIN q : k # 1 /\ k < i + 1 /\ Does(q, k, "destroy", h2[b])
      <4>1. CASE r.op = "commit" /\ b \in r.buffers
        <5>1. \E k \in DOMAIN q : 1 < k /\ k < i + 1 /\ Does(q, k, "destroy", q[1].surface)
          BY <1>1, <2>1, <4>1 DEF GoneBy
        <5>2. \A k \in DOMAIN q : 1 < k => k # 1
          BY TailAt
        <5>3. QED  BY <1>2, <1>3, <4>1, <5>1, <5>2
      <4>2. CASE ~(r.op = "commit" /\ b \in r.buffers)
        <5>1. h2[b] = h[b] /\ ~(r.op = "destroy" /\ h[b] = r.surface)
          BY <1>3, <2>2, <4>2
        <5>2. ~Does(q, 1, "destroy", h[b])
          BY <1>2, <5>1 DEF Does
        <5>3. QED  BY <2>1, <2>2, <5>1, <5>2 DEF GoneBy
      <4>3. QED  BY <4>1, <4>2
    <3>2. QED  BY <2>1, <3>1, TailDestroy DEF t
  <2>3. ASSUME NEW j \in Commits(t, b)
        PROVE  \E k \in DOMAIN t : j < k /\ k < i /\ Does(t, k, "destroy", t[j].surface)
    <3>1. j \in Nat /\ j + 1 \in Commits(q, b) /\ t[j] = q[j + 1]
      BY <1>1
    <3>2. PICK k \in DOMAIN q : j + 1 < k /\ k < i + 1 /\ Does(q, k, "destroy", t[j].surface)
      BY <2>1, <3>1 DEF GoneBy
    <3>3. k \in Nat /\ k # 1
      BY <3>1, <3>2, TailAt
    <3>4. PICK m \in DOMAIN t : k = m + 1 /\ m < i /\ Does(t, m, "destroy", t[j].surface)
      BY <2>1, <3>2, <3>3, TailDestroy DEF t
    <3>5. m \in Nat
      BY TailAt DEF t
    <3>6. j < m
      BY <3>1, <3>2, <3>4, <3>5
    <3>7. QED  BY <3>4, <3>6
  <2>4. QED  BY <2>2, <2>3 DEF GoneBy
<1>10. h2[b] # None \/ Commits(t, b) # {} => b \in own \/ Frees(t, b) # {}
  <2>1. ASSUME h2[b] # None \/ Commits(t, b) # {}, b \notin own PROVE Frees(t, b) # {}
    <3>1. h[b] # None \/ Commits(q, b) # {}
      BY <1>1, <1>3, <1>6, <2>1
    <3>2. Frees(q, b) # {}
      BY <2>1, <3>1 DEF BufferOK
    <3>3. PICK j \in Frees(q, b) : TRUE
      BY <3>2
    <3>4. CASE j = 1
      <4>1. r.op = "free" /\ b \in r.buffers
        BY <1>1, <3>4
      <4>2. h2[b] = None
        BY <1>3, <4>1
      <4>3. PICK i \in Commits(t, b) : TRUE
        BY <2>1, <4>2
      <4>4. i \in Nat /\ i + 1 \in Commits(q, b)
        BY <1>1
      <4>5. \E k \in DOMAIN q : i + 1 < k /\ k < 1
        BY <3>3, <3>4, <4>4 DEF BufferOK, GoneBy
      <4>6. FALSE
        BY <4>4, <4>5, TailAt
      <4>7. QED  BY <4>6
    <3>5. CASE j # 1
      BY <1>1, <3>3, <3>5
    <3>6. QED  BY <3>4, <3>5
  <2>2. QED  BY <2>1
<1>11. b \in own => /\ Frees(t, b) = {} /\ h2[b] \in {s, None}
                    /\ \A i \in Commits(t, b) : t[i].surface = s
  <2>1. ASSUME b \in own
        PROVE  /\ Frees(q, b) = {} /\ h[b] \in {s, None}
               /\ \A i \in Commits(q, b) : q[i].surface = s
    BY <2>1 DEF BufferOK
  <2>2. b \in own => h2[b] \in {s, None}
    BY <1>1, <1>2, <1>3, <2>1
  <2>3. QED  BY <1>1, <1>6, <2>1, <2>2
<1>12. BufferOK(t, own, rel, s, h2, ev2, b)
  BY <1>4, <1>7, <1>8, <1>9, <1>10, <1>11 DEF BufferOK
<1>13. QED  BY <1>12 DEF t

\* v2 is how far the compositor is after it has handled r
Seen(v, v2, r, t) ==
  v2[t] = CASE r.op = "create" /\ r.surface = t -> "new"
            [] r.op = "ack" /\ r.surface = t /\ v[t] = "told" -> "acked"
            [] r.op = "destroy" /\ r.surface = t -> "none"
            [] OTHER -> v[t]

LEMMA AckedByHandled ==
  ASSUME NEW q \in Seq(Requests), q # << >>, NEW v, NEW v2, NEW t, NEW i \in Nat,
         Seen(v, v2, Head(q), t), AckedBy(q, v, t, i + 1), ~Does(q, 1, "destroy", t),
         Does(q, 1, "create", t) => v[t] = "none"
  PROVE  AckedBy(Tail(q), v2, t, i)
<1> DEFINE r == Head(q)
<1>1. q[1] = r
  BY TailAt
<1>2. v[t] \in {"acked", "closed"} => v2[t] = v[t]
  BY <1>1 DEF Seen, Does
<1>3. v[t] = "told" => v2[t] = IF Does(q, 1, "ack", t) THEN "acked" ELSE "told"
  BY <1>1 DEF Seen, Does
<1>4. CASE v[t] = "told" /\ ~Does(q, 1, "ack", t)
  <2>1. PICK k \in DOMAIN q : k < i + 1 /\ Does(q, k, "ack", t)
    BY <1>4 DEF AckedBy
  <2>2. k # 1
    BY <1>4, <2>1
  <2>3. PICK m \in DOMAIN Tail(q) : k = m + 1
    BY <2>1, <2>2, TailAt
  <2>4. m \in Nat /\ Tail(q)[m] = q[k] /\ m < i
    BY <2>1, <2>3, TailAt
  <2>5. Does(Tail(q), m, "ack", t)
    BY <2>1, <2>4 DEF Does
  <2>6. QED  BY <1>3, <1>4, <2>4, <2>5 DEF AckedBy
<1>5. QED  BY <1>2, <1>3, <1>4 DEF AckedBy

LEMMA RequestHandled ==
  ASSUME NEW q \in Seq(Requests), q # << >>, NEW v, NEW v2, NEW s,
         \A t \in Surfaces : Seen(v, v2, Head(q), t),
         \A j \in DOMAIN q : RequestOK(q, j, s, v), NEW i \in DOMAIN Tail(q)
  PROVE  RequestOK(Tail(q), i, s, v2)
<1> DEFINE t == Tail(q)
           n == i + 1
           u == q[n].surface
<1>1. i \in Nat /\ n \in DOMAIN q /\ t[i] = q[n] /\ n # 1 /\ 1 \in DOMAIN q /\ q[1] = Head(q)
  BY TailAt
<1>2. RequestOK(q, n, s, v) /\ RequestOK(q, 1, s, v)
  BY <1>1
<1>3. \A j \in DOMAIN t : j \in Nat /\ j + 1 \in DOMAIN q /\ t[j] = q[j + 1]
  BY TailAt
<1>4. \A j \in DOMAIN t : \A op, w : Does(t, j, op, w) <=> Does(q, j + 1, op, w)
  BY <1>3 DEF Does
<1> HIDE DEF t
<1>5. ASSUME q[n].op = "create"
      PROVE  v2[u] = "none" /\ \A j \in DOMAIN t : Does(t, j, "create", u) => i = j
  <2>1. u \in Surfaces /\ v[u] = "none" /\ ~Does(q, 1, "create", u)
    BY <1>1, <1>2, <1>5 DEF RequestOK
  <2>2. v2[u] = "none"
    BY <1>1, <2>1 DEF Seen, Does
  <2>3. ASSUME NEW j \in DOMAIN t, Does(t, j, "create", u) PROVE i = j
    <3>1. Does(q, j + 1, "create", u) /\ j + 1 \in DOMAIN q /\ j \in Nat
      BY <1>3, <1>4, <2>3
    <3>2. n = j + 1
      BY <1>2, <1>5, <3>1 DEF RequestOK
    <3>3. QED  BY <1>1, <3>1, <3>2
  <2>4. QED  BY <2>2, <2>3
<1>6. ASSUME q[n].op = "commit"
      PROVE  AckedBy(t, v2, u, i) /\ \A j \in DOMAIN t : Does(t, j, "destroy", u) => i < j
  <2>1. /\ u \in Surfaces /\ AckedBy(q, v, u, n)
        /\ \A j \in DOMAIN q : Does(q, j, "destroy", u) => n < j
    BY <1>2, <1>6 DEF RequestOK
  <2>2. ~Does(q, 1, "destroy", u)
    <3>1. ~(n < 1)
      BY <1>1
    <3>2. QED  BY <1>1, <2>1, <3>1
  <2>3. Does(q, 1, "create", u) => v[u] = "none"
    BY <1>2 DEF RequestOK, Does
  <2>4. AckedBy(t, v2, u, i)
    BY <1>1, <2>1, <2>2, <2>3, AckedByHandled DEF t
  <2>5. ASSUME NEW j \in DOMAIN t, Does(t, j, "destroy", u) PROVE i < j
    <3>1. Does(q, j + 1, "destroy", u) /\ j + 1 \in DOMAIN q /\ j \in Nat
      BY <1>3, <1>4, <2>5
    <3>2. n < j + 1
      BY <2>1, <3>1
    <3>3. QED  BY <1>1, <3>1, <3>2
  <2>6. QED  BY <2>4, <2>5
<1>7. /\ q[n].op \in {"create", "ack", "commit", "destroy"} => u \in Surfaces
      /\ q[n].op = "destroy" => u # s
  BY <1>2 DEF RequestOK
<1> HIDE DEF n
<1>8. RequestOK(t, i, s, v2)
  BY <1>1, <1>5, <1>6, <1>7 DEF RequestOK
<1>9. QED  BY <1>8 DEF t

LEMMA SurfacesHandled ==
  ASSUME NEW q \in Seq(Requests), q # << >>, NEW v, NEW v2, NEW s, NEW conf \in BOOLEAN,
         NEW ev \in Seq(Events), SurfacesOK(q, s, conf, v, ev), conf => s \in Surfaces,
         \A t \in Surfaces : Seen(v, v2, Head(q), t)
  PROVE  SurfacesOK(Tail(q), s, conf, v2, ev)
<1>1. 1 \in DOMAIN q /\ q[1] = Head(q) /\ Len(Tail(q)) + 1 = Len(q) /\ Len(Tail(q)) \in Nat /\ Tail(q) \in Seq(Requests)
  BY TailAt
<1>2. RequestOK(q, 1, s, v)
  BY <1>1 DEF SurfacesOK
<1>3. ~Does(q, 1, "destroy", s) /\ (Does(q, 1, "create", s) => v[s] = "none")
  BY <1>2 DEF RequestOK, Does
<1>4. \A i \in DOMAIN Tail(q) : RequestOK(Tail(q), i, s, v2)
  BY RequestHandled DEF SurfacesOK
<1>5. conf => AckedBy(Tail(q), v2, s, Len(Tail(q)) + 1)
  <2> DEFINE n == Len(Tail(q)) + 1
  <2>1. n \in Nat /\ Len(q) + 1 = n + 1
    BY <1>1
  <2> HIDE DEF n
  <2>2. conf => AckedBy(q, v, s, n + 1)
    BY <2>1 DEF SurfacesOK
  <2>3. conf => AckedBy(Tail(q), v2, s, n)
    BY <1>3, <2>1, <2>2, AckedByHandled
  <2>4. QED  BY <2>3 DEF n
<1>6. ToldOK(s, v2, ev)
  <2>1. ASSUME NEW i \in DOMAIN ev, ev[i].op \in {"configure", "resize"}, ev[i].surface = s
        PROVE  v2[s] \in {"told", "acked", "closed"}
    <3>1. ev[i] \in Events
      OBVIOUS
    <3>2. s \in Surfaces
      BY <2>1, <3>1 DEF Events
    <3>3. v[s] \in {"told", "acked", "closed"}
      BY <2>1 DEF SurfacesOK, ToldOK
    <3>4. QED  BY <1>1, <1>3, <3>2, <3>3 DEF Seen, Does
  <2>2. QED  BY <2>1 DEF ToldOK
<1>7. QED  BY <1>4, <1>5, <1>6 DEF SurfacesOK

LEMMA ToldAppend ==
  ASSUME NEW ev \in Seq(Events), NEW e \in Events, NEW v, NEW s, ToldOK(s, v, ev),
         e.op \in {"configure", "resize"} /\ e.surface = s => v[s] \in {"told", "acked", "closed"}
  PROVE  ToldOK(s, v, Append(ev, e))
<1> DEFINE new == Append(ev, e)
<1>1. \A i \in DOMAIN new : (i \in DOMAIN ev /\ new[i] = ev[i]) \/ new[i] = e
  OBVIOUS
<1> HIDE DEF new
<1>2. ToldOK(s, v, new)
  BY <1>1 DEF ToldOK
<1>3. QED  BY <1>2 DEF new

LEMMA ReturnedAppend ==
  ASSUME NEW ev \in Seq(Events), NEW e \in Events, NEW b, Returned(Append(ev, e), b)
  PROVE  Returned(ev, b) \/ (e.op = "release" /\ e.buffer = b)
<1> DEFINE new == Append(ev, e)
<1>1. \A i \in DOMAIN new : (i \in DOMAIN ev /\ new[i] = ev[i]) \/ new[i] = e
  OBVIOUS
<1> HIDE DEF new
<1>2. Returned(new, b)
  BY DEF new
<1>3. QED  BY <1>1, <1>2 DEF Returned

LEMMA HandleOrder == IInv /\ Order /\ Handle => Order'
<1> SUFFICES ASSUME IInv, Order, Handle PROVE Order'
  OBVIOUS
<1> DEFINE q == client.out
           r == Head(q)
           done == Event("done", None, None)
<1>1. q \in Seq(Requests) /\ q # << >> /\ client \in Clients /\ r \in Requests
  BY DEF Handle, IInv, Sound, Clients
<1>2. /\ client'.out = Tail(q) /\ client'.owned = client.owned /\ client'.released = client.released
      /\ client'.surface = client.surface /\ client'.configured = client.configured
  BY <1>1 DEF Handle, Clients
<1>3. done \in Events /\ done.op = "done"
  BY DEF Event, Events
<1>4. events \in Seq(Events) /\ (events' = events \/ events' = Append(events, done)) /\ events' \in Seq(Events)
  BY <1>3 DEF Handle, IInv, Rest
<1>5. \A t \in Surfaces : Seen(view, view', r, t)
  <2>1. view \in [Surfaces -> {"none", "new", "told", "acked", "closed"}]
    BY DEF IInv, Rest
  <2>2. view' = CASE r.op = "create" -> [view EXCEPT ![r.surface] = "new"]
                  [] r.op = "ack" /\ view[r.surface] = "told" -> [view EXCEPT ![r.surface] = "acked"]
                  [] r.op = "destroy" -> [view EXCEPT ![r.surface] = "none"]
                  [] OTHER -> view
    BY DEF Handle
  <2> HIDE DEF r
  <2>3. QED  BY <2>1, <2>2 DEF Seen
<1>6. \A b \in Buffers :
        holds'[b] = CASE r.op = "commit" /\ b \in r.buffers -> r.surface
                      [] r.op = "destroy" /\ holds[b] = r.surface -> None
                      [] r.op = "free" /\ b \in r.buffers -> None
                      [] OTHER -> holds[b]
  BY DEF Handle
<1> HIDE DEF done
<1>7. ASSUME NEW b, Returned(events', b) PROVE Returned(events, b)
  <2>1. CASE events' = Append(events, done)
    <3>1. Returned(Append(events, done), b)
      BY <1>7, <2>1
    <3>2. QED  BY <1>3, <1>4, <3>1, ReturnedAppend
  <2>2. QED  BY <1>4, <1>7, <2>1
<1>8. \A b \in Buffers :
        BufferOK(Tail(q), client.owned, client.released, client.surface, holds', events', b)
  <2>1. TAKE b \in Buffers
  <2>2. BufferOK(q, client.owned, client.released, client.surface, holds, events, b)
    BY DEF Order, InOrder
  <2> HIDE DEF q
  <2>3. QED  BY <1>1, <1>6, <1>7, <2>2, BufferHandled
<1>9. SurfacesOK(Tail(q), client.surface, client.configured, view', events')
  <2>1. SurfacesOK(q, client.surface, client.configured, view, events)
    BY DEF Order, InOrder
  <2>2. client.configured \in BOOLEAN /\ (client.configured => client.surface \in Surfaces)
    BY <1>1 DEF IInv, Sound, Clients
  <2> HIDE DEF q
  <2>3. SurfacesOK(Tail(q), client.surface, client.configured, view', events)
    BY <1>1, <1>4, <1>5, <2>1, <2>2, SurfacesHandled
  <2>4. ToldOK(client.surface, view', events')
    BY <1>3, <1>4, <2>3, ToldAppend DEF SurfacesOK
  <2>5. QED  BY <2>3, <2>4 DEF SurfacesOK
<1>10. QED  BY <1>2, <1>8, <1>9 DEF Order, InOrder

\* the compositor tells a surface of a size, or that it is gone
LEMMA ViewOrder ==
  ASSUME NEW q, NEW v, NEW v2, NEW s, NEW conf, NEW ev \in Seq(Events), NEW t \in Surfaces,
         SurfacesOK(q, s, conf, v, ev), v[t] \in {"new", "told", "acked"},
         v2[t] \in {"told", "acked", "closed"}, v[t] # "new" => v2[t] \in {v[t], "closed"},
         \A u \in Surfaces : u # t => v2[u] = v[u], conf => s \in Surfaces
  PROVE  SurfacesOK(q, s, conf, v2, ev)
<1>1. \A u \in Surfaces : \A i : AckedBy(q, v, u, i) => AckedBy(q, v2, u, i)
  BY DEF AckedBy
<1>2. \A i \in DOMAIN q : RequestOK(q, i, s, v) => RequestOK(q, i, s, v2)
  BY <1>1 DEF RequestOK
<1>3. ToldOK(s, v2, ev)
  <2>1. ASSUME NEW i \in DOMAIN ev, ev[i].op \in {"configure", "resize"}, ev[i].surface = s
        PROVE  v2[s] \in {"told", "acked", "closed"}
    <3>1. ev[i] \in Events
      OBVIOUS
    <3>2. s \in Surfaces
      BY <2>1, <3>1 DEF Events
    <3>3. v[s] \in {"told", "acked", "closed"}
      BY <2>1 DEF SurfacesOK, ToldOK
    <3>4. QED  BY <3>2, <3>3
  <2>2. QED  BY <2>1 DEF ToldOK
<1>4. QED  BY <1>1, <1>2, <1>3 DEF SurfacesOK

\* an event is sent that gives no buffer back
LEMMA SentEventOrder ==
  ASSUME IInv, Order, NEW e \in Events, e.op # "release",
         events' = Append(events, e), UNCHANGED <<client, holds>>,
         SurfacesOK(client.out, client.surface, client.configured, view', events),
         e.op \in {"configure", "resize"} => view'[e.surface] \in {"told", "acked", "closed"}
  PROVE  Order'
<1>1. events \in Seq(Events)
  BY DEF IInv, Rest
<1>2. ASSUME NEW b, Returned(Append(events, e), b) PROVE Returned(events, b)
  BY <1>1, <1>2, ReturnedAppend
<1> DEFINE ev2 == Append(events, e)
<1>3. SurfacesOK(client.out, client.surface, client.configured, view', ev2)
  <2>1. ToldOK(client.surface, view', ev2)
    BY <1>1, ToldAppend DEF SurfacesOK
  <2> HIDE DEF ev2
  <2>2. QED  BY <2>1 DEF SurfacesOK
<1>4. \A b \in Buffers : Returned(ev2, b) => Returned(events, b)
  BY <1>2
<1>5. events' = ev2 /\ client' = client /\ holds' = holds
  OBVIOUS
<1> HIDE DEF ev2
<1>6. \A b \in Buffers :
        BufferOK(client.out, client.owned, client.released, client.surface, holds, ev2, b)
  BY <1>4, BufferSame DEF Order, InOrder
<1>7. QED  BY <1>3, <1>5, <1>6 DEF Order, InOrder

LEMMA ConfigureOrder == ASSUME IInv, Order, NEW s \in Surfaces, Configure(s) \/ Close(s) PROVE Order'
<1>1. PICK op \in {"configure", "resize", "closed"} :
        /\ events' = Append(events, Event(op, s, None))
        /\ op # "closed" => Configure(s)
        /\ op = "closed" => Close(s)
  BY DEF Configure, Close
<1> DEFINE e == Event(op, s, None)
<1>2. e \in Events /\ e.op = op /\ e.surface = s /\ events' = Append(events, e)
  BY <1>1 DEF Event, Events
<1>3. view \in [Surfaces -> {"none", "new", "told", "acked", "closed"}] /\ events \in Seq(Events)
  BY DEF IInv, Rest
<1>4. /\ view[s] \in {"new", "told", "acked"} /\ \A u \in Surfaces : u # s => view'[u] = view[u]
      /\ view[s] # "new" => view'[s] \in {view[s], "closed"}
      /\ view'[s] \in {"told", "acked", "closed"} /\ client' = client /\ holds' = holds
  BY <1>1, <1>3 DEF Configure, Close
<1>5. SurfacesOK(client.out, client.surface, client.configured, view', events)
  <2>1. client.configured => client.surface \in Surfaces
    BY DEF IInv, Sound, Clients
  <2>2. SurfacesOK(client.out, client.surface, client.configured, view, events)
    BY DEF Order, InOrder
  <2>3. QED  BY <1>3, <1>4, <2>1, <2>2, ViewOrder
<1> HIDE DEF e
<1>6. QED  BY <1>1, <1>2, <1>4, <1>5, SentEventOrder

LEMMA ReleaseOrder == ASSUME IInv, Order, NEW b \in Buffers, Release(b) PROVE Order'
<1> DEFINE e == Event("release", None, b)
           ev2 == Append(events, e)
           h2 == [holds EXCEPT ![b] = None]
           q == client.out
<1>1. e \in Events /\ e.op = "release" /\ e.buffer = b
  BY DEF Event, Events
<1>2. events \in Seq(Events) /\ holds \in [Buffers -> Surfaces \cup {None}] /\ holds[b] # None
  BY DEF IInv, Rest, Release
<1>3. h2[b] = None /\ \A x \in Buffers : x # b => h2[x] = holds[x]
  BY <1>2
<1>4. \A x : x # b /\ Returned(ev2, x) => Returned(events, x)
  BY <1>1, <1>2, ReturnedAppend
<1>5. SurfacesOK(q, client.surface, client.configured, view, ev2)
  <2>1. SurfacesOK(q, client.surface, client.configured, view, events)
    BY DEF Order, InOrder
  <2> HIDE DEF e
  <2>2. ToldOK(client.surface, view, ev2)
    BY <1>1, <1>2, <2>1, ToldAppend DEF SurfacesOK
  <2> HIDE DEF q, ev2
  <2>3. QED  BY <2>1, <2>2 DEF SurfacesOK
<1>6. events' = ev2 /\ holds' = h2 /\ client' = client /\ view' = view
  BY DEF Release
<1> HIDE DEF e, ev2, h2, q
<1>7. ASSUME NEW x \in Buffers
      PROVE  BufferOK(q, client.owned, client.released, client.surface, h2, ev2, x)
  <2>1. BufferOK(q, client.owned, client.released, client.surface, holds, events, x)
    BY DEF Order, InOrder, q
  <2>2. CASE x # b
    BY <1>3, <1>4, <2>1, <2>2, BufferSame
  <2>3. CASE x = b
    <3>1. Commits(q, b) = {}
      BY <1>2, <2>1, <2>3 DEF BufferOK
    <3>2. QED  BY <1>3, <2>1, <2>3, <3>1 DEF BufferOK, GoneBy
  <2>4. QED  BY <2>2, <2>3
<1>8. QED  BY <1>5, <1>6, <1>7 DEF Order, InOrder, q

LEMMA InitialOrder == Init => Order
<1> SUFFICES ASSUME Init PROVE Order
  OBVIOUS
<1> DEFINE r == Request("create", First, {})
           q == <<r, Sync>>
<1>1. First \in Surfaces
  BY ObjectAssumption DEF First
<1>2. /\ client.out = q /\ client.surface = First /\ client.owned = {} /\ client.released = {}
      /\ client.configured = FALSE /\ events = << >>
  BY DEF Init
<1>3. (\A s \in Surfaces : view[s] = "none") /\ (\A b \in Buffers : holds[b] = None)
  BY DEF Init
<1>4. /\ DOMAIN q = {1, 2} /\ q[1] = r /\ q[2] = Sync
  OBVIOUS
<1>5. r.op = "create" /\ r.surface = First /\ r.buffers = {} /\ Sync.op = "sync" /\ Sync.buffers = {}
  BY DEF Request, Sync
<1> HIDE DEF q, r
<1>6. DOMAIN events = {}
  BY <1>2
<1>7. \A b : Commits(q, b) = {} /\ Frees(q, b) = {} /\ ~Returned(events, b)
  BY <1>4, <1>5, <1>6 DEF Commits, Frees, Returned
<1>8. \A b \in Buffers : BufferOK(q, {}, {}, First, holds, events, b)
  BY <1>3, <1>7 DEF BufferOK
<1>9. \A j \in DOMAIN q : Does(q, j, "create", First) => j = 1
  BY <1>4, <1>5 DEF Does
<1>10. \A i \in DOMAIN q : RequestOK(q, i, First, view)
  BY <1>1, <1>3, <1>4, <1>5, <1>9 DEF RequestOK
<1>11. SurfacesOK(q, First, FALSE, view, events)
  BY <1>6, <1>10 DEF SurfacesOK, ToldOK
<1>12. QED  BY <1>2, <1>8, <1>11 DEF Order, InOrder

LEMMA OrderHolds == Spec => [](IInv /\ Order)
<1>1. IInv /\ Order /\ [Next]_vars => Order'
  <2>1. CASE UNCHANGED vars
    BY <2>1 DEF vars, Order, InOrder
  <2>2. ASSUME IInv, Order, Connect PROVE Order'
    BY <2>2 DEF Connect, Order, InOrder
  <2>3. QED  BY <2>1, <2>2, DispatchOrder, FirstPaintOrder, ReconcileOrder, ServeOrder, HandleOrder,
                ConfigureOrder, ReleaseOrder DEF Next
<1>2. Spec => []IInv
  BY InvariantHolds
<1>3. QED  BY <1>1, <1>2, InitialOrder, PTL DEF Spec

\* Pixels are freed only after the surface stops referencing them: whatever
\* is on its way between daemon and compositor, at the point where a free
\* arrives nothing reads the buffers it is for.
THEOREM PixelsKeptWhileRead == Spec => []KeptWhileRead
<1>1. IInv /\ Order => KeptWhileRead
  <2> SUFFICES ASSUME IInv, Order, client.out # << >>, Head(client.out).op = "free",
                      NEW b \in Head(client.out).buffers
               PROVE  holds[b] = None
    BY DEF KeptWhileRead
  <2> DEFINE q == client.out
  <2>1. q \in Seq(Requests)
    BY DEF IInv, Sound, Clients
  <2>2. 1 \in DOMAIN q /\ q[1] = Head(q) /\ Head(q) \in Requests /\ \A k \in DOMAIN q : k \in Nat
    BY <2>1, TailAt
  <2>3. b \in Buffers /\ 1 \in Frees(q, b)
    BY <2>2 DEF Frees, Requests
  <2>4. GoneBy(q, holds, b, 1)
    BY <2>3 DEF Order, InOrder, BufferOK
  <2> HIDE DEF q
  <2>5. \A k \in DOMAIN q : ~(k < 1)
    <3>1. q \in Seq(Requests)
      BY <2>1
    <3>2. \A k \in DOMAIN q : k >= 1
      BY <3>1
    <3>3. QED  BY <2>2, <3>2
  <2>6. QED  BY <2>4, <2>5 DEF GoneBy
<1>2. QED  BY <1>1, OrderHolds, PTL

\* No image is committed to a surface before its first configure is
\* acknowledged, nor after it was destroyed.
THEOREM CommitsAreConfigured == Spec => []ConfiguredFirst
<1>1. IInv /\ Order => ConfiguredFirst
  <2> SUFFICES ASSUME IInv, Order, client.out # << >>, Head(client.out).op = "commit"
               PROVE  view[Head(client.out).surface] \in {"acked", "closed"}
    BY DEF ConfiguredFirst
  <2> DEFINE q == client.out
  <2>1. q \in Seq(Requests)
    BY DEF IInv, Sound, Clients
  <2>2. 1 \in DOMAIN q /\ q[1] = Head(q)
    BY <2>1, TailAt
  <2>3. RequestOK(q, 1, client.surface, view)
    BY <2>2 DEF Order, InOrder, SurfacesOK
  <2> HIDE DEF q
  <2>4. \A k \in DOMAIN q : ~(k < 1)
    BY <2>1
  <2>5. QED  BY <2>2, <2>3, <2>4 DEF RequestOK, AckedBy, q
<1>2. QED  BY <1>1, OrderHolds, PTL
=============================================================================
