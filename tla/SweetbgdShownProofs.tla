------------------------- MODULE SweetbgdShownProofs -------------------------
(***************************************************************************)
(* Proof about Sweetbgd, for every value of its constants, that nothing is *)
(* forgotten: whenever the daemon is about to serve a client, every        *)
(* configured output shows what it should, or a client that will repaint   *)
(* it is on its way -- as long as the clients the daemon depends on do not *)
(* fail, and away from two cases the code gets wrong (the runs replug and  *)
(* late_output show them).  Where outputs do not come back and commands    *)
(* reach all they are about, those cases cannot arise.                     *)
(***************************************************************************)
EXTENDS SweetbgdProofs

\* No reconcile fails to paint, and no helper and no client dies.  The code
\* spawns a helper once: what a failed one should have painted stays unpainted.
Reliable == PaintFaults = {{}} /\ JobFaults \subseteq {"img", "lost"}

\* No frame prepared for an output that was unplugged is on its way to the one
\* that was plugged in with its name.
NoneFromBefore == \A f \in InFlight : out[f.name].configured => SamePlug(f)

\* A default image on its way has a frame that fits for every configured output
\* that does not have the image already -- or there is but one output.  A frame
\* is lost when it does not render, and nobody is told but the user.
DefaultsReach ==
  \A j \in Working : j.mode = "default" /\ j.frames # {} =>
    \/ \A m, n \in Configured : m = n
    \/ /\ "img" \notin JobFaults
       /\ \A n \in Configured :
            \/ EffPath(daemon, n) = j.path
            \/ \E f \in j.frames : f.name = n /\ SamePlug(f) /\ Attachable(f)

(* The output shows what it should; `loose` when the layout that a span    *)
(* picture is cut from is about to change.                                 *)
ShowsAt(d, os, n, loose) ==
  LET c == os[n].content
  IN IF EffPath(d, n) = Blank THEN c = Background(d.color)
     ELSE /\ c.path = EffPath(d, n) /\ c.fit = EffFit(d, n)
          /\ c.buf = BufferSize(os[n])
          /\ c.fill = IF UsesColor(c.fit) THEN Fill(d) ELSE NoFill
          /\ c.fit # "span" => c.span = NoSpan
          /\ c.fit = "span" => loose \/ c.span = Layout(os)

\* A frame for the output that will be attached: a helper's that still is
\* current, or a default image's that fits.
FrameHelps(os, j, f, n) ==
  /\ f.name = n /\ SamePlug(f)
  /\ \/ j.mode = "repaint" /\ f.gen = os[n].gen
     \/ /\ j.mode = "default" /\ "img" \notin JobFaults
        /\ f.pic.buf = BufferSize(os[n])

\* A client that will prepare the output's image, or has such a frame of it.
HelpsAt(d, os, j, n) ==
  /\ j.path = EffPath(d, n)
  /\ \/ j.mode = "repaint" /\ j.asked = FALSE /\ n \in j.names
     \/ \E f \in j.frames : FrameHelps(os, j, f, n)

HelpedAt(d, os, js, n) == \E j \in DOMAIN js : HelpsAt(d, os, j, n)

ServedAt(d, os, js, n, loose) ==
  ~os[n].configured \/ ShowsAt(d, os, n, loose) \/ HelpedAt(d, os, js, n)

Unsettled(os) == \E m \in Names : os[m].plugged /\ ~os[m].configured

Served(n) == Condemned(n)
             \/ ServedAt(daemon, out, jobs, n, Unsettled(out) \/ LayoutPending)

\* A client renders the path it was given, a helper skips no output, and only
\* the stage a client is at is ever a helper's.
JobOK(j) ==
  /\ j.asked = FALSE => j.frames = {}
  /\ \A f \in j.frames : f.pic.path = j.path
  /\ j.mode = "repaint" => j.skip = {}
  /\ \A i \in DOMAIN j.stages : j.stages[i].mode # "repaint"

JobsOK(js) == \A j \in DOMAIN js : JobOK(j)

(* The inductive strengthening of ShownOrComing: at every point of the     *)
(* loop a configured output is condemned, shows what it should, or has a   *)
(* client on its way that will paint it.                                   *)
Kept ==
  /\ JobsOK(jobs)
  /\ phase \in {"registry", "down"} => \A n \in Names : ~out[n].live
  /\ phase = "surfaces" => \A n \in Names : out[n].configured => out[n].dirty
  /\ \A n \in Names : Served(n)

-----------------------------------------------------------------------------
(* Clients.                                                                *)

\* A step of one client keeps all others.
LEMMA ReplaceKeeps ==
  ASSUME NEW js, IsABag(js), NEW j, NEW new
  PROVE  /\ (DOMAIN js) \ {j} \subseteq DOMAIN Replace(js, j, new)
         /\ new \subseteq DOMAIN Replace(js, j, new)
<1> DEFINE rest == js (-) SetToBag({j})
<1>1. DOMAIN (rest (+) SetToBag(new)) = (DOMAIN rest) \cup new
  BY BagAdd
<1>2. ASSUME NEW e \in (DOMAIN js) \ {j} PROVE e \in DOMAIN rest
  <2>1. js[e] \in Nat /\ js[e] > 0
    BY DEF IsABag
  <2>2. e \notin DOMAIN SetToBag({j})
    BY DEF SetToBag
  <2> QED BY <2>1, <2>2 DEF (-)
<1> HIDE DEF rest
<1>3. Replace(js, j, new) = rest (+) SetToBag(new)
  BY DEF Replace, rest
<1> QED BY <1>1, <1>2, <1>3

\* What becomes of a client is as good as the client.
LEMMA AdvanceKeeps ==
  ASSUME NEW j \in Jobs, JobOK(j), NEW k \in Advance(j) PROVE JobOK(k)
<1>1. CASE k = j
  BY <1>1
<1>2. CASE k = JobAt(Stage("repaint", j.fallback, j.names, {}), j.stages, j.fallback)
  BY <1>2 DEF JobAt, Stage, JobOK
<1>3. CASE /\ k = JobAt(Head(j.stages), Tail(j.stages), j.fallback)
           /\ j.stages # << >>
  <2> DEFINE s == j.stages
             t == Tail(s)
  <2>1. s \in Seq(Stages) /\ s # << >>
    BY <1>3, JobParts
  <2> HIDE DEF s
  <2>2. Len(s) \in Nat /\ Len(s) > 0 /\ DOMAIN s = 1 .. Len(s)
    BY <2>1
  <2>3. Head(s) = s[1] /\ 1 \in DOMAIN s
    BY <2>1, <2>2
  <2>4. \A i \in DOMAIN t : t[i] = s[i + 1] /\ i + 1 \in DOMAIN s
    BY <2>1, <2>2
  <2>5. \A i \in DOMAIN s : s[i].mode # "repaint"
    BY DEF s, JobOK
  <2>6. /\ k.mode = Head(s).mode /\ k.frames = {} /\ k.stages = t
    BY <1>3 DEF JobAt, s
  <2>7. k.mode # "repaint"
    BY <2>3, <2>5, <2>6
  <2>8. \A i \in DOMAIN t : t[i].mode # "repaint"
    BY <2>4, <2>5
  <2> HIDE DEF t
  <2> QED BY <2>6, <2>7, <2>8 DEF JobOK
<1> QED BY <1>1, <1>2, <1>3 DEF Advance

\* A command starts as a good client.
LEMMA ImgKeeps ==
  ASSUME NEW cmd \in ImgCommands PROVE JobOK(ImgJob(cmd))
<1> DEFINE s == ImgStages(cmd)
           t == Tail(s)
           j == ImgJob(cmd)
<1>1. s \in Seq(CommandStages) /\ s # << >>
  BY ImgStagesType
<1>2. /\ j.mode = Head(s).mode /\ j.asked = FALSE /\ j.frames = {}
      /\ j.stages = t
  BY DEF ImgJob, JobAt
<1> HIDE DEF s, j
<1>3. Len(s) \in Nat /\ Len(s) > 0 /\ DOMAIN s = 1 .. Len(s)
  BY <1>1
<1>4. Head(s) = s[1] /\ 1 \in DOMAIN s
  BY <1>1, <1>3
<1>5. t \in Seq(CommandStages)
  BY <1>1
<1> HIDE DEF t
<1>6. j.mode # "repaint" /\ \A i \in DOMAIN t : t[i].mode # "repaint"
  BY <1>1, <1>2, <1>4, <1>5, CommandStagesAre
<1>7. JobOK(j)
  BY <1>2, <1>6 DEF JobOK
<1> QED BY <1>7 DEF j

\* A client whose frame was sent is as good, and keeps its other frames.
LEMMA SentKeeps ==
  ASSUME NEW j \in Jobs, JobOK(j), NEW f \in j.frames, NEW ok \in BOOLEAN
  PROVE  /\ \A k \in Advance(Sent(j, f, ok)) : JobOK(k)
         /\ \A g \in j.frames \ {f} :
              \E k \in Advance(Sent(j, f, ok)) :
                /\ k.mode = j.mode /\ k.path = j.path /\ g \in k.frames
<1> DEFINE failed == j.failed \/ ~ok
           x == Sent(j, f, ok)
<1>1. j.frames \in SUBSET Frames /\ j.failed \in BOOLEAN
  BY JobParts
<1>2. x = [j EXCEPT !.frames = j.frames \ {f}, !.failed = failed]
  BY DEF Sent
<1>3. failed \in BOOLEAN
  OBVIOUS
<1> HIDE DEF failed, x
<1>4. /\ x \in Jobs /\ x.frames = j.frames \ {f} /\ x.mode = j.mode
      /\ x.path = j.path /\ x.asked = j.asked /\ x.skip = j.skip
      /\ x.stages = j.stages
  BY <1>1, <1>2, <1>3 DEF Jobs
<1>5. j.asked = TRUE
  BY JobParts DEF JobOK
<1>6. JobOK(x)
  BY <1>4, <1>5 DEF JobOK
<1>7. \A k \in Advance(x) : JobOK(k)
  BY <1>4, <1>6, AdvanceKeeps
<1>8. ASSUME NEW g \in j.frames \ {f} PROVE x \in Advance(x)
  BY <1>4, <1>8 DEF Advance
<1>9. ASSUME NEW g \in j.frames \ {f}
      PROVE  \E k \in Advance(x) : /\ k.mode = j.mode /\ k.path = j.path
                                   /\ g \in k.frames
  BY <1>4, <1>8
<1> QED BY <1>7, <1>9 DEF x

-----------------------------------------------------------------------------
(* What a reconcile leaves of what was served.                             *)

\* No helper is on its way to an output without an image.
LEMMA HelpHasImage ==
  ASSUME NEW d, NEW os, NEW js, ClientsOK(js), NEW n, HelpedAt(d, os, js, n)
  PROVE  EffPath(d, n) # Blank
<1>1. PICK j \in DOMAIN js : HelpsAt(d, os, j, n)
  BY DEF HelpedAt
<1>2. j.path \in Paths
  BY JobParts DEF ClientsOK
<1> QED BY <1>1, <1>2, Distinct DEF HelpsAt

DueAt(d, os, n) == os[n].dirty \/ (d.fit = "span" /\ SpanDue(os, layoutDirty))

\* A client that is still to ask, and will prepare the output's image.
HelperToCome(d, js, n) ==
  \E j \in DOMAIN js : /\ j.mode = "repaint" /\ j.path = EffPath(d, n)
                       /\ j.asked = FALSE /\ n \in j.names

\* A reconcile, when nothing fails to paint: what is due gets the colour, or a
\* helper; the rest is left alone.
LEMMA Painted ==
  ASSUME Reliable, NEW d \in Daemon, NEW os, OutputsOK(os), NEW js, ClientsOK(js),
         layoutDirty \in BOOLEAN, ReconcilePaint(d, os, js)
  PROVE  /\ DOMAIN js \subseteq DOMAIN jobs'
         /\ \A j \in (DOMAIN jobs') \ DOMAIN js : JobOK(j)
         /\ \A n \in Names : os[n].configured =>
              /\ out'[n].dirty = FALSE
              /\ DueAt(d, os, n) =>
                   IF EffPath(d, n) = Blank THEN out'[n].content = Background(d.color)
                                            ELSE HelperToCome(d, jobs', n)
              /\ ~DueAt(d, os, n) => /\ out'[n].content = os[n].content
                                     /\ out'[n].gen = os[n].gen
<1> DEFINE spread == SpreadSpan(d, os, layoutDirty)
           due == Due(spread)
<1>1. out' = Reconciled(d, os, layoutDirty, {})
  <2>1. PICK faults \in PaintFaults : out' = Reconciled(d, os, layoutDirty, faults)
    BY DEF ReconcilePaint
  <2>2. faults = {}
    BY <2>1 DEF Reliable
  <2> QED BY <2>1, <2>2
<1>2. jobs' = js (+) SetToBag(Helpers(d, due))
  BY DEF ReconcilePaint
<1>3. DOMAIN jobs' = (DOMAIN js) \cup Helpers(d, due)
  BY <1>2, BagAdd
<1>4. due \in SUBSET Names
  BY DEF Due
<1>5. ASSUME NEW n \in Names, os[n].configured
      PROVE  /\ n \in due <=> DueAt(d, os, n)
             /\ ~DueAt(d, os, n) => /\ out'[n].content = os[n].content
                                    /\ out'[n].gen = os[n].gen
                                    /\ out'[n].dirty = FALSE
             /\ DueAt(d, os, n) =>
                  /\ out'[n].dirty = FALSE
                  /\ EffPath(d, n) = Blank => out'[n].content = Background(d.color)
  <2> DEFINE dirty == os[n].dirty \/ (d.fit = "span" /\ SpanDue(os, layoutDirty)
                                      /\ os[n].configured)
             x == [os[n] EXCEPT !.moved = FALSE, !.dirty = dirty]
             y == Repainted(d, x, n, FALSE)
  <2>1. os[n] \in Output
    BY DEF OutputsOK
  <2>2. dirty \in BOOLEAN /\ (dirty <=> DueAt(d, os, n))
    BY <1>5, <2>1, OutputParts DEF DueAt, SpanDue
  <2>3. spread[n] = x
    BY DEF SpreadSpan
  <2> HIDE DEF dirty
  <2>4. /\ x.configured = os[n].configured /\ x.dirty = dirty
        /\ x.content = os[n].content /\ x.gen = os[n].gen /\ x \in Output
    BY <2>1, <2>2 DEF Output
  <2>5. n \in due <=> dirty
    BY <1>5, <2>3, <2>4 DEF Due
  <2>6. out'[n] = IF n \in due THEN Repainted(d, spread[n], n, n \in {}) ELSE spread[n]
    BY <1>1 DEF Reconciled
  <2> HIDE DEF x
  <2>7. out'[n] = IF dirty THEN y ELSE x
    <3>1. (n \in {}) = FALSE
      OBVIOUS
    <3>2. Repainted(d, spread[n], n, n \in {}) = y
      BY <2>3, <3>1
    <3> HIDE DEF y
    <3> QED BY <2>3, <2>5, <2>6, <3>2
  <2>8. /\ y.dirty = FALSE
        /\ EffPath(d, n) = Blank => y.content = Background(d.color)
    BY <2>4 DEF Repainted, Output
  <2> HIDE DEF y, due
  <2> QED BY <2>2, <2>4, <2>5, <2>7, <2>8
<1> HIDE DEF due, spread
<1>6. ASSUME NEW n \in due, EffPath(d, n) # Blank PROVE HelperToCome(d, jobs', n)
  <2> DEFINE p == EffPath(d, n)
             names == {m \in due : EffPath(d, m) = p}
             j == Helper(p, names)
  <2>1. j \in Helpers(d, due)
    BY <1>6 DEF Helpers
  <2>2. j.mode = "repaint" /\ j.path = p /\ j.asked = FALSE /\ j.names = names
    BY DEF Helper, JobAt, Stage
  <2>3. n \in names
    OBVIOUS
  <2> HIDE DEF j, names
  <2> QED BY <1>3, <2>1, <2>2, <2>3 DEF HelperToCome
<1>7. ASSUME NEW j \in Helpers(d, due) PROVE JobOK(j)
  <2>1. PICK p, names : j = Helper(p, names)
    BY DEF Helpers
  <2>2. j.frames = {} /\ j.skip = {} /\ j.stages = << >>
    BY <2>1 DEF Helper, JobAt, Stage
  <2> QED BY <2>2 DEF JobOK
<1> QED BY <1>3, <1>4, <1>5, <1>6, <1>7

\* What a picture depends on besides its output.
LEMMA StillShows ==
  ASSUME NEW d, NEW os, NEW pt, NEW n \in Names, NEW loose, NEW looser,
         \A m \in Names : SameOutput(pt[m], os[m]),
         pt[n].content = os[n].content, loose => looser,
         ShowsAt(d, os, n, loose)
  PROVE  ShowsAt(d, pt, n, looser)
<1>1. BufferSize(pt[n]) = BufferSize(os[n]) /\ Layout(pt) = Layout(os)
  BY SameSize, SameLayout
<1> QED BY <1>1 DEF ShowsAt

\* A client on its way helps as long as the output keeps plug, generation and
\* size.
LEMMA StillHelped ==
  ASSUME NEW d, NEW e, NEW os, NEW pt, NEW js, NEW ks, NEW n,
         EffPath(e, n) = EffPath(d, n), pt[n].gen = os[n].gen,
         BufferSize(pt[n]) = BufferSize(os[n]),
         DOMAIN js \subseteq DOMAIN ks, HelpedAt(d, os, js, n)
  PROVE  HelpedAt(e, pt, ks, n)
BY DEF HelpedAt, HelpsAt, FrameHelps

\* After a reconcile every output is served whose picture was due, or that was
\* served before it.
LEMMA RepaintServes ==
  ASSUME Reliable, NEW d \in Daemon, NEW os, OutputsOK(os), NEW js, ClientsOK(js),
         JobsOK(js), layoutDirty \in BOOLEAN, ReconcilePaint(d, os, js),
         daemon' = d, plugs' = plugs,
         \A n \in Names :
           os[n].configured => DueAt(d, os, n) \/ ServedAt(d, os, js, n, Unsettled(os))
  PROVE  JobsOK(jobs') /\ \A n \in Names : Served(n)'
<1>1. /\ DOMAIN js \subseteq DOMAIN jobs'
      /\ \A j \in (DOMAIN jobs') \ DOMAIN js : JobOK(j)
      /\ \A n \in Names : os[n].configured =>
           /\ DueAt(d, os, n) =>
                IF EffPath(d, n) = Blank THEN out'[n].content = Background(d.color)
                                         ELSE HelperToCome(d, jobs', n)
           /\ ~DueAt(d, os, n) => /\ out'[n].content = os[n].content
                                  /\ out'[n].gen = os[n].gen
  BY Painted
<1>2. \A n \in Names : SameOutput(out'[n], os[n])
  BY ReconcilePaintSound
<1>3. Unsettled(os) => Unsettled(out')
  BY <1>2 DEF Unsettled, SameOutput
<1> DEFINE loose == Unsettled(out') \/ LayoutPending'
<1>4. ASSUME NEW n \in Names, os[n].configured
      PROVE  ServedAt(d, out', jobs', n, loose)
  <2>1. CASE DueAt(d, os, n) /\ EffPath(d, n) = Blank
    BY <1>1, <1>4, <2>1 DEF ServedAt, ShowsAt
  <2>2. CASE DueAt(d, os, n) /\ EffPath(d, n) # Blank
    BY <1>1, <1>4, <2>2 DEF ServedAt, HelpedAt, HelpsAt, HelperToCome
  <2>3. CASE ~DueAt(d, os, n)
    <3>1. out'[n].content = os[n].content /\ out'[n].gen = os[n].gen
      BY <1>1, <1>4, <2>3
    <3>2. ShowsAt(d, os, n, Unsettled(os)) \/ HelpedAt(d, os, js, n)
      BY <1>4, <2>3 DEF ServedAt
    <3>3. CASE ShowsAt(d, os, n, Unsettled(os))
      BY <1>2, <1>3, <3>1, <3>3, StillShows DEF ServedAt
    <3>4. CASE HelpedAt(d, os, js, n)
      <4>1. BufferSize(out'[n]) = BufferSize(os[n])
        BY <1>2, SameSize
      <4> QED BY <1>1, <3>1, <3>4, <4>1, StillHelped DEF ServedAt
    <3> QED BY <3>2, <3>3, <3>4
  <2> QED BY <2>1, <2>2, <2>3
<1>5. ASSUME NEW n \in Names, ~os[n].configured
      PROVE  ServedAt(d, out', jobs', n, loose)
  BY <1>2, <1>5 DEF ServedAt, SameOutput
<1>6. ASSUME NEW n \in Names PROVE Served(n)'
  <2>1. ServedAt(d, out', jobs', n, loose)
    BY <1>4, <1>5
  <2>2. ServedAt(daemon, out, jobs, n, Unsettled(out) \/ LayoutPending)'
    BY <2>1 DEF ServedAt, HelpedAt, HelpsAt, FrameHelps, SamePlug
  <2> QED BY <2>2 DEF Served
<1>7. JobsOK(jobs')
  BY <1>1 DEF JobsOK
<1> QED BY <1>6, <1>7

-----------------------------------------------------------------------------
(* Requests of the user.                                                   *)

\* A change that leaves an output wanting the same picture.
WantsSame(d, n) ==
  /\ EffPath(d, n) = EffPath(daemon, n)
  /\ IF EffPath(d, n) = Blank THEN d.color = daemon.color ELSE Alike(d, n)

\* What was served before the daemon served a client, and wants the same.
LEMMA StillServed ==
  ASSUME TypeOK, phase = "ipc", NEW n \in Names, Served(n),
         NEW d, WantsSame(d, n),
         NEW js, HelpedAt(daemon, out, jobs, n) => HelpedAt(daemon, out, js, n),
         NEW os, \A m \in Names : SameOutput(os[m], out[m]),
         os[n].content = out[n].content,
         os[n].gen = out[n].gen \/ EffPath(d, n) = Blank
  PROVE  ServedAt(d, os, js, n, Unsettled(os))
<1>1. ServedAt(daemon, out, jobs, n, Unsettled(out) \/ LayoutPending)
  BY DEF Served, Condemned
<1>2. Unsettled(out) \/ LayoutPending => Unsettled(os)
  BY DEF LayoutPending, Unsettled, SameOutput
<1>3. CASE ~out[n].configured
  BY <1>3 DEF ServedAt, SameOutput
<1>4. CASE ShowsAt(daemon, out, n, Unsettled(out) \/ LayoutPending)
  <2>1. ShowsAt(daemon, os, n, Unsettled(os))
    BY <1>2, <1>4, StillShows
  <2>2. ShowsAt(d, os, n, Unsettled(os))
    BY <2>1 DEF ShowsAt, WantsSame, Alike
  <2> QED BY <2>2 DEF ServedAt
<1>5. CASE HelpedAt(daemon, out, jobs, n)
  <2>1. EffPath(d, n) = EffPath(daemon, n) /\ os[n].gen = out[n].gen
    BY <1>5, HelpHasImage DEF TypeOK, WantsSame
  <2>2. HelpedAt(daemon, out, js, n)
    BY <1>5
  <2>3. BufferSize(os[n]) = BufferSize(out[n])
    BY SameSize
  <2>4. HelpedAt(d, os, js, n)
    BY <2>1, <2>2, <2>3, StillHelped
  <2> QED BY <2>4 DEF ServedAt
<1> QED BY <1>1, <1>3, <1>4, <1>5 DEF ServedAt

\* A request that repaints must mark each output that wants another picture.
LEMMA RepaintKeeps ==
  ASSUME Reliable, TypeOK, Kept, phase = "ipc", phase' = "poll", plugs' = plugs,
         NEW d \in Daemon, daemon' = d, NEW os, OutputsOK(os),
         \A m \in Names : SameOutput(os[m], out[m]),
         \A n \in Names : os[n].configured =>
           \/ os[n].dirty
           \/ /\ WantsSame(d, n) /\ os[n].content = out[n].content
              /\ os[n].gen = out[n].gen \/ EffPath(d, n) = Blank,
         ReconcilePaint(d, os, jobs)
  PROVE  Kept'
<1>1. \A n \in Names :
        os[n].configured => DueAt(d, os, n) \/ ServedAt(d, os, jobs, n, Unsettled(os))
  BY StillServed DEF DueAt, Kept
<1>2. ClientsOK(jobs) /\ JobsOK(jobs) /\ layoutDirty \in BOOLEAN
  BY DEF TypeOK, Kept
<1>3. JobsOK(jobs') /\ \A n \in Names : Served(n)'
  BY <1>1, <1>2, RepaintServes
<1> QED BY <1>3 DEF Kept

\* A request that repaints nothing must leave every picture wanted.
LEMMA QuietKeeps ==
  ASSUME TypeOK, Kept, phase = "ipc", phase' = "poll", plugs' = plugs, jobs' = jobs,
         \A m \in Names : SameOutput(out'[m], out[m]),
         \A n \in Names : out[n].configured =>
           /\ WantsSame(daemon', n) /\ out'[n].content = out[n].content
           /\ out'[n].gen = out[n].gen \/ EffPath(daemon', n) = Blank
  PROVE  Kept'
<1>1. ASSUME NEW n \in Names PROVE Served(n)'
  <2>1. ServedAt(daemon', out', jobs', n, Unsettled(out'))
    <3>1. CASE out[n].configured
      BY <3>1, StillServed DEF Kept
    <3>2. CASE ~out[n].configured
      BY <3>2 DEF ServedAt, SameOutput
    <3> QED BY <3>1, <3>2
  <2>2. ServedAt(daemon', out', jobs', n, Unsettled(out') \/ LayoutPending')
    BY <2>1 DEF ServedAt, ShowsAt
  <2>3. ServedAt(daemon, out, jobs, n, Unsettled(out) \/ LayoutPending)'
    BY <2>2 DEF ServedAt, HelpedAt, HelpsAt, FrameHelps, SamePlug
  <2> QED BY <2>3 DEF Served
<1> QED BY <1>1 DEF Kept

\* Marks and generations change no picture.
LEMMA MarkContent ==
  ASSUME NEW os, OutputsOK(os), NEW S, NEW n \in Names
  PROVE  /\ MarkDirty(os, S)[n].content = os[n].content
         /\ NextGeneration(os, S)[n].content = os[n].content
         /\ n \notin S => NextGeneration(os, S)[n].gen = os[n].gen
<1>1. os[n] \in Output /\ os[n].gen \in Nat
  BY OutputParts DEF OutputsOK
<1> DEFINE dirty == os[n].dirty \/ n \in S
           gen == IF n \in S THEN os[n].gen + 1 ELSE os[n].gen
<1>2. /\ MarkDirty(os, S)[n] = [os[n] EXCEPT !.dirty = dirty]
      /\ NextGeneration(os, S)[n] = [os[n] EXCEPT !.gen = gen]
  BY DEF MarkDirty, NextGeneration
<1>3. n \notin S => gen = os[n].gen
  OBVIOUS
<1> HIDE DEF dirty, gen
<1> QED BY <1>1, <1>2, <1>3 DEF Output

\* A change of fit or colour for all outputs.
LEMMA AfterChangeKeeps ==
  ASSUME Reliable, TypeOK, Kept, phase = "ipc", phase' = "poll", plugs' = plugs,
         NEW d \in Daemon, daemon' = d,
         NEW colorChanged \in BOOLEAN, NEW fitChanged \in BOOLEAN,
         \A n \in Names : EffPath(d, n) = EffPath(daemon, n),
         colorChanged \/ (fitChanged /\ d.color = daemon.color),
         fitChanged \/ \A n \in Names : EffFit(d, n) = EffFit(daemon, n),
         RepaintAfterChange(d, colorChanged, fitChanged)
  PROVE  Kept'
<1> DEFINE blank == {n \in Configured : EffPath(d, n) = Blank}
           stale == {n \in Configured \ blank :
                       fitChanged \/ (colorChanged /\ UsesColor(EffFit(d, n)))}
           os == IF colorChanged THEN MarkDirty(out, blank \cup stale)
                                 ELSE MarkDirty(NextGeneration(out, blank), stale)
<1>1. ReconcilePaint(d, os, jobs)
  BY DEF RepaintAfterChange
<1>2. OutputsOK(out)
  BY DEF TypeOK
<1>3. \A n \in Names : n \in Configured <=> out[n].configured
  BY DEF Configured
<1>4. \A n \in Configured :
        n \in blank \/ n \in stale
        \/ (colorChanged /\ ~fitChanged /\ ~UsesColor(EffFit(d, n)))
  OBVIOUS
<1>5. \A n \in blank : EffPath(d, n) = Blank
  OBVIOUS
<1>5b. \A n \in Configured \ blank : EffPath(d, n) # Blank
  OBVIOUS
<1>6. CASE colorChanged
  <2>1. os = MarkDirty(out, blank \cup stale)
    BY <1>6
  <2> HIDE DEF blank, stale, os
  <2>2. /\ OutputsOK(os)
        /\ \A n \in Names :
             /\ SameOutput(os[n], out[n]) /\ os[n].gen = out[n].gen
             /\ os[n].content = out[n].content
             /\ n \in blank \cup stale => os[n].dirty
    BY <1>2, <2>1, MarkSound, MarkContent
  <2>3. ASSUME NEW n \in Names, os[n].configured, ~os[n].dirty PROVE WantsSame(d, n)
    <3>1. n \in Configured /\ n \notin blank /\ n \notin stale
      BY <1>3, <2>2, <2>3 DEF SameOutput
    <3>2. ~fitChanged /\ ~UsesColor(EffFit(d, n)) /\ EffPath(d, n) # Blank
      BY <1>4, <1>5b, <3>1
    <3> QED BY <3>2 DEF WantsSame, Alike
  <2> QED BY <1>1, <2>2, <2>3, RepaintKeeps
<1>7. CASE ~colorChanged
  <2> DEFINE ng == NextGeneration(out, blank)
  <2>1. os = MarkDirty(ng, stale)
    BY <1>7
  <2> HIDE DEF blank, stale, os, ng
  <2>2. /\ OutputsOK(ng)
        /\ \A n \in Names :
             /\ SameOutput(ng[n], out[n]) /\ ng[n].content = out[n].content
    BY <1>2, MarkSound, MarkContent DEF ng
  <2>3. /\ OutputsOK(os)
        /\ \A n \in Names :
             /\ SameOutput(os[n], ng[n]) /\ os[n].content = ng[n].content
             /\ n \in stale => os[n].dirty
    BY <2>1, <2>2, MarkSound, MarkContent
  <2>4. \A n \in Names : SameOutput(os[n], out[n]) /\ os[n].content = out[n].content
    BY <2>2, <2>3 DEF SameOutput
  <2>5. ASSUME NEW n \in Names, os[n].configured, ~os[n].dirty
        PROVE  WantsSame(d, n) /\ EffPath(d, n) = Blank
    <3>1. n \in blank
      BY <1>3, <1>4, <1>7, <2>3, <2>4, <2>5 DEF SameOutput
    <3>2. EffPath(d, n) = Blank
      BY <1>5, <3>1
    <3> QED BY <1>7, <3>2 DEF WantsSame
  <2> QED BY <1>1, <2>3, <2>4, <2>5, RepaintKeeps
<1> QED BY <1>6, <1>7

\* Marking one output, when the others want what they did.
LEMMA OneMarkedKeeps ==
  ASSUME Reliable, TypeOK, Kept, phase = "ipc", phase' = "poll", plugs' = plugs,
         NEW d \in Daemon, daemon' = d, NEW n \in Names,
         \A m \in Names \ {n} : WantsSame(d, m),
         ReconcilePaint(d, MarkDirty(out, {n}), jobs)
  PROVE  Kept'
<1> DEFINE os == MarkDirty(out, {n})
<1>1. ReconcilePaint(d, os, jobs)
  OBVIOUS
<1>2. OutputsOK(out)
  BY DEF TypeOK
<1> HIDE DEF os
<1>3. /\ OutputsOK(os)
      /\ \A m \in Names :
           /\ SameOutput(os[m], out[m]) /\ os[m].gen = out[m].gen
           /\ os[m].content = out[m].content
           /\ m \in {n} => os[m].dirty
  BY <1>2, MarkSound, MarkContent DEF os
<1> QED BY <1>1, <1>3, RepaintKeeps

\* A change of one output's fit.
LEMMA AfterFitKeeps ==
  ASSUME Reliable, TypeOK, Kept, phase = "ipc", phase' = "poll", plugs' = plugs,
         NEW d \in Daemon, daemon' = d, NEW n \in Names,
         d.color = daemon.color, Fill(d) = Fill(daemon),
         \A m \in Names : EffPath(d, m) = EffPath(daemon, m),
         \A m \in Names \ {n} : EffFit(d, m) = EffFit(daemon, m),
         RepaintAfterFit(d, n)
  PROVE  Kept'
<1>1. OutputsOK(out) /\ \A m \in Names : SameOutput(out[m], out[m])
  BY OutSound
<1>2. \A m \in Names \ {n} : WantsSame(d, m)
  BY RefreshAlike DEF WantsSame
<1>3. CASE ~out[n].configured \/ EffFit(d, n) = EffFit(daemon, n)
  <2>1. out' = out /\ jobs' = jobs
    BY <1>3 DEF RepaintAfterFit, NoRepaint
  <2>2. out[n].configured => WantsSame(d, n)
    BY <1>3, RefreshAlike DEF WantsSame
  <2> QED BY <1>1, <1>2, <2>1, <2>2, QuietKeeps
<1>4. CASE /\ ~(~out[n].configured \/ EffFit(d, n) = EffFit(daemon, n))
           /\ EffPath(d, n) = Blank
  <2> DEFINE ng == NextGeneration(out, {n})
  <2>1. out' = ng /\ jobs' = jobs
    BY <1>4 DEF RepaintAfterFit
  <2> HIDE DEF ng
  <2>2. \A m \in Names :
          /\ SameOutput(ng[m], out[m]) /\ ng[m].content = out[m].content
          /\ m \notin {n} => ng[m].gen = out[m].gen
    BY <1>1, MarkSound, MarkContent DEF ng
  <2>3. WantsSame(d, n)
    BY <1>4 DEF WantsSame
  <2> QED BY <1>2, <1>4, <2>1, <2>2, <2>3, QuietKeeps
<1>5. CASE /\ ~(~out[n].configured \/ EffFit(d, n) = EffFit(daemon, n))
           /\ EffPath(d, n) # Blank
  <2>1. ReconcilePaint(d, MarkDirty(out, {n}), jobs)
    BY <1>5 DEF RepaintAfterFit
  <2> QED BY <1>2, <2>1, OneMarkedKeeps
<1> QED BY <1>3, <1>4, <1>5

\* What the operations on the table do to the paths in it.
LEMMA TablePaths ==
  ASSUME NEW over \in [Names -> Override], NEW n \in Names, NEW m \in Names
  PROVE  /\ WithoutFits(over)[n].path = over[n].path
         /\ WithoutFit(over, m)[n].path = over[n].path
         /\ WithoutImages(over)[n].path = Unset
         /\ WithoutImage(over, m)[n].path = IF n = m THEN Unset ELSE over[n].path
<1>1. \A o \in Override : /\ [o EXCEPT !.path = Unset] \in Override
                          /\ [o EXCEPT !.path = Unset].path = Unset
                          /\ [o EXCEPT !.fit = Unset] \in Override
                          /\ [o EXCEPT !.fit = Unset].path = o.path
  BY DEF Override, Image
<1>2. ASSUME NEW o \in [Names -> Override] PROVE Compact(o)[n].path = o[n].path
  BY DEF Compact, HasEntry, NoOverride
<1>3. WithoutFits(over)[n].path = over[n].path
  <2> DEFINE o == [k \in Names |-> [over[k] EXCEPT !.fit = Unset]]
  <2>1. o \in [Names -> Override] /\ o[n].path = over[n].path
    BY <1>1
  <2> HIDE DEF o
  <2>2. Compact(o)[n].path = over[n].path
    BY <1>2, <2>1
  <2> QED BY <2>2 DEF o, WithoutFits
<1>4. WithoutFit(over, m)[n].path = over[n].path
  <2> DEFINE o == [over EXCEPT ![m].fit = Unset]
  <2>1. o \in [Names -> Override] /\ o[n].path = over[n].path
    BY <1>1
  <2> HIDE DEF o
  <2>2. Compact(o)[n].path = over[n].path
    BY <1>2, <2>1
  <2> QED BY <2>2 DEF o, WithoutFit
<1>5. WithoutImages(over)[n].path = Unset
  <2> DEFINE o == [k \in Names |-> [over[k] EXCEPT !.path = Unset]]
  <2>1. o \in [Names -> Override] /\ o[n].path = Unset
    BY <1>1
  <2> HIDE DEF o
  <2>2. Compact(o)[n].path = Unset
    BY <1>2, <2>1
  <2> QED BY <2>2 DEF o, WithoutImages
<1>6. WithoutImage(over, m)[n].path = IF n = m THEN Unset ELSE over[n].path
  <2> DEFINE o == [over EXCEPT ![m].path = Unset]
  <2>1. o \in [Names -> Override] /\ o[n].path = IF n = m THEN Unset ELSE over[n].path
    BY <1>1
  <2> HIDE DEF o
  <2>2. Compact(o)[n].path = IF n = m THEN Unset ELSE over[n].path
    BY <1>2, <2>1
  <2> QED BY <2>2 DEF o, WithoutImage
<1> QED BY <1>3, <1>4, <1>5, <1>6

\* The effective path follows the paths that are remembered.
LEMMA SamePaths ==
  ASSUME NEW d, NEW n, d.over[n].path = daemon.over[n].path, d.path = daemon.path
  PROVE  EffPath(d, n) = EffPath(daemon, n)
BY DEF EffPath

\* A fit for all outputs.
LEMMA SetFitKeeps ==
  ASSUME Reliable, TypeOK, Kept, NEW f \in UserFits, SetFit(f) PROVE Kept'
<1> DEFINE d == [daemon EXCEPT !.fit = f, !.over = WithoutFits(@)]
<1>1. daemon \in Daemon /\ daemon.over \in [Names -> Override] /\ f \in Fits
  BY DaemonParts, DataAssumption DEF TypeOK
<1>2. WithoutFits(daemon.over) \in [Names -> Override]
  BY <1>1, TableTypes
<1>3. \A n \in Names : /\ WithoutFits(daemon.over)[n].fit = Unset
                       /\ WithoutFits(daemon.over)[n].path = daemon.over[n].path
  BY <1>1, TableFits, TablePaths
<1>4. /\ d \in Daemon /\ d.over = WithoutFits(daemon.over) /\ d.fit = f
      /\ d.auto = daemon.auto /\ d.color = daemon.color /\ d.path = daemon.path
  BY <1>1, <1>2 DEF Daemon
<1>5. /\ daemon' = d /\ phase = "ipc" /\ phase' = "poll" /\ plugs' = plugs
      /\ IF f # daemon.fit \/ AnyFit(daemon.over)
         THEN RepaintAfterChange(d, FALSE, TRUE) ELSE NoRepaint
  BY DEF SetFit, Serve
<1> HIDE DEF d
<1>6. \A n \in Names : EffPath(d, n) = EffPath(daemon, n)
  BY <1>3, <1>4, SamePaths
<1>7. CASE RepaintAfterChange(d, FALSE, TRUE)
  BY <1>4, <1>5, <1>6, <1>7, AfterChangeKeeps
<1>8. CASE NoRepaint /\ f = daemon.fit /\ ~AnyFit(daemon.over)
  <2>1. ASSUME NEW n \in Names PROVE WantsSame(d, n)
    <3>1. d.over[n].fit = daemon.over[n].fit /\ d.fit = daemon.fit
      BY <1>3, <1>4, <1>8 DEF AnyFit
    <3>2. Alike(d, n)
      BY <1>4, <3>1, SameFits, RefreshAlike DEF Fill
    <3> QED BY <1>4, <1>6, <3>2 DEF WantsSame
  <2>2. out' = out /\ jobs' = jobs /\ \A n \in Names : SameOutput(out[n], out[n])
    BY <1>8, OutSound DEF NoRepaint
  <2> QED BY <1>5, <2>1, <2>2, QuietKeeps
<1> QED BY <1>5, <1>7, <1>8

\* A fit for one output.
LEMMA SetOutputFitKeeps ==
  ASSUME Reliable, TypeOK, Kept, NEW n \in Names, NEW f \in UserFits, SetOutputFit(n, f)
  PROVE  Kept'
<1> DEFINE over == [daemon.over EXCEPT ![n].fit = f]
           d == [daemon EXCEPT !.over = over]
<1>1. daemon \in Daemon /\ daemon.over \in [Names -> Override] /\ f \in Fits
  BY DaemonParts, DataAssumption DEF TypeOK
<1>2. over \in [Names -> Override]
  BY <1>1 DEF Override
<1>3. \A m \in Names : /\ over[m].fit = IF m = n THEN f ELSE daemon.over[m].fit
                       /\ over[m].path = daemon.over[m].path
  BY <1>1 DEF Override
<1>4. /\ daemon' = [daemon EXCEPT !.over[n].fit = f] /\ RepaintAfterFit(daemon', n)
      /\ phase = "ipc" /\ phase' = "poll" /\ plugs' = plugs
  BY DEF SetOutputFit, Serve
<1>5. daemon' = d
  BY <1>1, <1>4 DEF Daemon
<1> HIDE DEF over
<1>6. /\ d \in Daemon /\ d.over = over /\ d.fit = daemon.fit
      /\ d.auto = daemon.auto /\ d.color = daemon.color /\ d.path = daemon.path
  BY <1>1, <1>2 DEF Daemon
<1> HIDE DEF d
<1>7. \A m \in Names : EffPath(d, m) = EffPath(daemon, m)
  BY <1>3, <1>6, SamePaths
<1>8. \A m \in Names \ {n} : EffFit(d, m) = EffFit(daemon, m)
  BY <1>3, <1>6, SameFits
<1>9. Fill(d) = Fill(daemon)
  BY <1>6 DEF Fill
<1>10. RepaintAfterFit(d, n)
  BY <1>4, <1>5
<1> QED BY <1>4, <1>5, <1>6, <1>7, <1>8, <1>9, <1>10, AfterFitKeeps

\* A colour.
LEMMA SetColorKeeps ==
  ASSUME Reliable, TypeOK, Kept, NEW c \in UserColors, SetColor(c) PROVE Kept'
<1> DEFINE auto == c = Unset
           color == IF c = Unset THEN daemon.color ELSE c
           d == [daemon EXCEPT !.auto = auto, !.color = color]
<1>1. daemon \in Daemon /\ daemon.color \in Colors
  BY DaemonParts DEF TypeOK
<1>2. color \in Colors
  BY <1>1, DataAssumption
<1>3. auto \in BOOLEAN
  OBVIOUS
<1>4. daemon' = d /\ phase = "ipc" /\ phase' = "poll" /\ plugs' = plugs
  BY DEF SetColor, Serve
<1>5. IF d # daemon THEN RepaintAfterChange(d, TRUE, FALSE) ELSE NoRepaint
  BY DEF SetColor
<1> HIDE DEF auto, color
<1>6. d \in Daemon /\ d.over = daemon.over /\ d.fit = daemon.fit /\ d.path = daemon.path
  BY <1>1, <1>2, <1>3 DEF Daemon
<1> HIDE DEF d
<1>7. \A n \in Names : /\ EffFit(d, n) = EffFit(daemon, n)
                       /\ EffPath(d, n) = EffPath(daemon, n)
  BY <1>6, SameFits, SamePaths
<1>8. CASE d # daemon
  BY <1>4, <1>5, <1>6, <1>7, <1>8, AfterChangeKeeps
<1>9. CASE d = daemon
  <2>1. \A n \in Names : WantsSame(daemon', n)
    BY <1>4, <1>9 DEF WantsSame, Alike
  <2>2. out' = out /\ jobs' = jobs /\ \A n \in Names : SameOutput(out[n], out[n])
    BY <1>5, <1>9, OutSound DEF NoRepaint
  <2> QED BY <1>4, <2>1, <2>2, QuietKeeps
<1> QED BY <1>8, <1>9

\* Marking every configured output.
LEMMA AllMarkedKeeps ==
  ASSUME Reliable, TypeOK, Kept, phase = "ipc", phase' = "poll", plugs' = plugs,
         NEW d \in Daemon, daemon' = d,
         ReconcilePaint(d, MarkDirty(out, Configured), jobs)
  PROVE  Kept'
<1> DEFINE os == MarkDirty(out, Configured)
<1>1. ReconcilePaint(d, os, jobs) /\ OutputsOK(out)
  BY DEF TypeOK
<1> HIDE DEF os
<1>2. /\ OutputsOK(os)
      /\ \A n \in Names : /\ SameOutput(os[n], out[n])
                          /\ n \in Configured => os[n].dirty
  BY <1>1, MarkSound DEF os
<1>3. \A n \in Names : os[n].configured => os[n].dirty
  BY <1>2 DEF SameOutput, Configured
<1> QED BY <1>1, <1>2, <1>3, RepaintKeeps

\* Clearing the default image, the fit, or both.
LEMMA ClearAllKeeps ==
  ASSUME Reliable, TypeOK, Kept, NEW flags \in UserClears, ClearAll(flags) PROVE Kept'
<1> DEFINE image == "image" \in flags
           fit == "fit" \in flags
           d1 == IF image THEN [daemon EXCEPT !.path = Unset, !.palette = Unset,
                                              !.over = WithoutImages(@)]
                          ELSE daemon
           d == IF fit THEN [d1 EXCEPT !.fit = "cover", !.over = WithoutFits(@)]
                       ELSE d1
           none == daemon.path = Unset /\ ~AnyImage(daemon.over)
<1>1. daemon \in Daemon /\ daemon.over \in [Names -> Override]
  BY DaemonParts DEF TypeOK
<1>2. daemon' = d /\ phase = "ipc" /\ phase' = "poll" /\ plugs' = plugs
  BY DEF ClearAll, Serve
<1>3. IF image /\ ~none
      THEN ReconcilePaint(d, MarkDirty(out, Configured), jobs)
      ELSE IF fit /\ (daemon.fit # "cover" \/ AnyFit(daemon.over))
      THEN RepaintAfterChange(d, FALSE, TRUE)
      ELSE NoRepaint
  BY DEF ClearAll
<1>4. /\ WithoutImages(daemon.over) \in [Names -> Override]
      /\ \A n \in Names : /\ WithoutImages(daemon.over)[n].fit = daemon.over[n].fit
                          /\ WithoutImages(daemon.over)[n].path = Unset
  BY <1>1, TableTypes, TableFits, TablePaths
<1>5. /\ d1 \in Daemon /\ d1.fit = daemon.fit /\ Fill(d1) = Fill(daemon)
      /\ d1.color = daemon.color /\ d1.over \in [Names -> Override]
      /\ \A n \in Names : d1.over[n].fit = daemon.over[n].fit
  <2>1. CASE image
    BY <1>1, <1>4, <2>1 DEF Daemon, Fill
  <2>2. CASE ~image
    BY <1>1, <2>2
  <2> QED BY <2>1, <2>2
<1>5b. image => d1.path = Unset /\ \A n \in Names : d1.over[n].path = Unset
  BY <1>1, <1>4 DEF Daemon
<1>5c. ~image => d1 = daemon
  OBVIOUS
<1> HIDE DEF d1
<1>6. /\ WithoutFits(d1.over) \in [Names -> Override]
      /\ \A n \in Names : /\ WithoutFits(d1.over)[n].fit = Unset
                          /\ WithoutFits(d1.over)[n].path = d1.over[n].path
  BY <1>5, TableTypes, TableFits, TablePaths
<1>7. /\ d \in Daemon /\ Fill(d) = Fill(daemon) /\ d.color = daemon.color
      /\ \A n \in Names : d.over[n].fit = IF fit THEN Unset ELSE daemon.over[n].fit
      /\ \A n \in Names : d.over[n].path = d1.over[n].path
      /\ d.fit = (IF fit THEN "cover" ELSE daemon.fit) /\ d.path = d1.path
  <2>1. CASE fit
    BY <1>5, <1>6, <2>1 DEF Daemon, Fill, Fits
  <2>2. CASE ~fit
    BY <1>5, <2>2
  <2> QED BY <2>1, <2>2
<1> HIDE DEF d, image, fit
<1>8. CASE ReconcilePaint(d, MarkDirty(out, Configured), jobs)
  BY <1>2, <1>7, <1>8, AllMarkedKeeps
<1>9. ASSUME ~image \/ none, NEW n \in Names PROVE EffPath(d, n) = EffPath(daemon, n)
  <2>1. d.path = daemon.path /\ d.over[n].path = daemon.over[n].path
    BY <1>5b, <1>5c, <1>7, <1>9 DEF AnyImage
  <2> QED BY <2>1, SamePaths
<1> HIDE DEF none
<1>10. CASE RepaintAfterChange(d, FALSE, TRUE) /\ (~image \/ none)
  BY <1>2, <1>7, <1>9, <1>10, AfterChangeKeeps
<1>11. CASE /\ NoRepaint /\ (~image \/ none)
            /\ ~(fit /\ (daemon.fit # "cover" \/ AnyFit(daemon.over)))
  <2>1. ASSUME NEW n \in Names PROVE WantsSame(d, n)
    <3>1. d.over[n].fit = daemon.over[n].fit /\ d.fit = daemon.fit
      BY <1>7, <1>11 DEF AnyFit
    <3>2. Alike(d, n)
      BY <1>7, <3>1, SameFits, RefreshAlike
    <3>3. EffPath(d, n) = EffPath(daemon, n)
      BY <1>9, <1>11
    <3> QED BY <1>7, <3>2, <3>3 DEF WantsSame
  <2>2. out' = out /\ jobs' = jobs /\ \A n \in Names : SameOutput(out[n], out[n])
    BY <1>11, OutSound DEF NoRepaint
  <2> QED BY <1>2, <2>1, <2>2, QuietKeeps
<1> QED BY <1>3, <1>8, <1>10, <1>11

\* Clearing one output's image or fit, or blanking it.
LEMMA ClearOutputKeeps ==
  ASSUME Reliable, TypeOK, Kept, NEW flags \in UserClears, NEW n \in Names,
         ClearOutput(flags, n)
  PROVE  Kept'
<1> DEFINE over1 == IF "blank" \in flags
                    THEN [daemon.over EXCEPT ![n].path = Blank, ![n].palette = Unset]
                    ELSE IF "image" \in flags THEN WithoutImage(daemon.over, n)
                    ELSE daemon.over
           over2 == IF "fit" \in flags THEN WithoutFit(over1, n) ELSE over1
           d == [daemon EXCEPT !.over = over2]
           marks == \/ "blank" \in flags /\ EffPath(daemon, n) # Blank
                    \/ "image" \in flags /\ daemon.over[n].path # Unset
<1>1. daemon \in Daemon /\ daemon.over \in [Names -> Override]
  BY DaemonParts DEF TypeOK
<1>2. /\ daemon' = d /\ phase = "ipc" /\ phase' = "poll" /\ plugs' = plugs
      /\ ~({"blank", "image"} \subseteq flags)
  BY DEF ClearOutput, Serve
<1>3. IF marks THEN ReconcilePaint(d, MarkDirty(out, {n}), jobs)
               ELSE RepaintAfterFit(d, n)
  BY DEF ClearOutput
<1>4. /\ over1 \in [Names -> Override]
      /\ \A m \in Names : over1[m].fit = daemon.over[m].fit
      /\ \A m \in Names \ {n} : over1[m].path = daemon.over[m].path
      /\ over1[n].path = IF "blank" \in flags THEN Blank
                         ELSE IF "image" \in flags THEN Unset
                         ELSE daemon.over[n].path
  <2>1. CASE "blank" \in flags
    BY <1>1, <2>1 DEF Override, Image
  <2>2. CASE "blank" \notin flags /\ "image" \in flags
    BY <1>1, <2>2, TableTypes, TableFits, TablePaths
  <2>3. CASE "blank" \notin flags /\ "image" \notin flags
    BY <1>1, <2>3
  <2> QED BY <2>1, <2>2, <2>3
<1> HIDE DEF over1
<1>5. /\ over2 \in [Names -> Override]
      /\ \A m \in Names : over2[m].path = over1[m].path
      /\ \A m \in Names \ {n} : over2[m].fit = daemon.over[m].fit
  <2>1. CASE "fit" \in flags
    BY <1>4, <2>1, TableTypes, TableFits, TablePaths
  <2>2. CASE "fit" \notin flags
    BY <1>4, <2>2
  <2> QED BY <2>1, <2>2
<1> HIDE DEF over2
<1>6. /\ d \in Daemon /\ d.over = over2 /\ d.fit = daemon.fit /\ d.path = daemon.path
      /\ d.color = daemon.color /\ Fill(d) = Fill(daemon)
  BY <1>1, <1>5 DEF Daemon, Fill
<1> HIDE DEF d
<1>7. \A m \in Names \ {n} : /\ EffFit(d, m) = EffFit(daemon, m)
                             /\ EffPath(d, m) = EffPath(daemon, m)
  BY <1>4, <1>5, <1>6, SameFits, SamePaths
<1>8. CASE marks
  <2>1. \A m \in Names \ {n} : WantsSame(d, m)
    BY <1>6, <1>7, RefreshAlike DEF WantsSame
  <2> QED BY <1>2, <1>3, <1>6, <1>8, <2>1, OneMarkedKeeps
<1>9. CASE ~marks
  <2>1. EffPath(d, n) = EffPath(daemon, n)
    <3>1. d.over[n].path = over1[n].path
      BY <1>5, <1>6
    <3>2. CASE "blank" \in flags
      BY <1>4, <1>9, <3>1, <3>2, Distinct DEF EffPath
    <3>3. CASE "blank" \notin flags
      BY <1>4, <1>6, <1>9, <3>1, <3>3, SamePaths
    <3> QED BY <3>2, <3>3
  <2>2. \A m \in Names : EffPath(d, m) = EffPath(daemon, m)
    BY <1>7, <2>1
  <2> QED BY <1>2, <1>3, <1>6, <1>7, <1>9, <2>2, AfterFitKeeps
<1> QED BY <1>8, <1>9

LEMMA ReloadKeeps ==
  ASSUME Reliable, TypeOK, Kept, NEW cfg \in UserConfigs, NEW checked \in ReadableSets,
         NEW readable \in ReadableSets, Reload(cfg, checked, readable)
  PROVE  Kept'
<1> DEFINE d == Loaded(cfg, readable)
<1>1. /\ daemon' = d /\ ReconcilePaint(d, MarkDirty(out, Configured), jobs)
      /\ phase = "ipc" /\ phase' = "poll" /\ plugs' = plugs
  BY DEF Reload, Serve
<1>2. d \in Daemon
  BY LoadedTypes
<1> HIDE DEF d
<1> QED BY <1>1, <1>2, AllMarkedKeeps

LEMMA UserRequestKeeps ==
  ASSUME Reliable, TypeOK, Kept, UserRequest PROVE Kept'
<1>1. ASSUME NEW f \in UserFits, SetFit(f) PROVE Kept'
  BY <1>1, SetFitKeeps
<1>2. ASSUME NEW f \in UserFits, NEW n \in Names, SetOutputFit(n, f) PROVE Kept'
  BY <1>2, SetOutputFitKeeps
<1>3. ASSUME NEW c \in UserColors, SetColor(c) PROVE Kept'
  BY <1>3, SetColorKeeps
<1>4. ASSUME NEW flags \in UserClears, ClearAll(flags) PROVE Kept'
  BY <1>4, ClearAllKeeps
<1>5. ASSUME NEW flags \in UserClears, NEW n \in Names, ClearOutput(flags, n) PROVE Kept'
  BY <1>5, ClearOutputKeeps
<1>6. ASSUME NEW cfg \in UserConfigs, NEW r1 \in ReadableSets, NEW r2 \in ReadableSets,
             Reload(cfg, r1, r2)
      PROVE  Kept'
  BY <1>6, ReloadKeeps
<1> QED BY <1>1, <1>2, <1>3, <1>4, <1>5, <1>6 DEF UserRequest

-----------------------------------------------------------------------------
(* Requests of clients.                                                    *)

\* A step that leaves outputs and daemon alone, and every helper that counts.
LEMMA ClientKeeps ==
  ASSUME TypeOK, Kept, UNCHANGED <<daemon, out, layoutDirty, plugs>>, JobsOK(jobs'),
         \/ phase' = phase
         \/ phase = "ipc" /\ phase' = "poll"
         \/ phase \in {"contents", "poll"} /\ phase' = "dispatch",
         \A n \in Names : out[n].configured /\ HelpedAt(daemon, out, jobs, n) =>
                            HelpedAt(daemon, out, jobs', n)
  PROVE  Kept'
<1>1. LayoutPending => LayoutPending'
  BY DEF LayoutPending
<1>2. ASSUME NEW n \in Names PROVE Served(n)'
  <2>1. CASE Condemned(n)
    BY <2>1 DEF Condemned, Served
  <2>2. CASE ServedAt(daemon, out, jobs, n, Unsettled(out) \/ LayoutPending)
    <3> DEFINE loose == Unsettled(out) \/ LayoutPending'
    <3>1. ServedAt(daemon, out, jobs', n, loose)
      <4>1. CASE ShowsAt(daemon, out, n, Unsettled(out) \/ LayoutPending)
        BY <1>1, <4>1 DEF ServedAt, ShowsAt
      <4> QED BY <2>2, <4>1 DEF ServedAt
    <3>2. ServedAt(daemon, out, jobs, n, Unsettled(out) \/ LayoutPending)'
      BY <3>1 DEF ServedAt, HelpedAt, HelpsAt, FrameHelps, SamePlug, ShowsAt
    <3> QED BY <3>2 DEF Served
  <2> QED BY <2>1, <2>2 DEF Kept, Served
<1> QED BY <1>2 DEF Kept

\* The clients after one of them went on are good, and the others still help.
LEMMA OneClient ==
  ASSUME TypeOK, Kept, NEW j \in Working, NEW new,
         \A k \in new : JobOK(k)
  PROVE  LET js == Replace(jobs, j, new)
         IN /\ JobsOK(js)
            /\ \A d, os, n : (\E k \in Working \ {j} : HelpsAt(d, os, k, n)) =>
                               HelpedAt(d, os, js, n)
            /\ \A d, os, n : (\E k \in new : HelpsAt(d, os, k, n)) =>
                               HelpedAt(d, os, js, n)
<1> DEFINE js == Replace(jobs, j, new)
<1>1. DOMAIN js \subseteq (DOMAIN jobs) \cup new
  BY ReplaceSound
<1>2. (DOMAIN jobs) \ {j} \subseteq DOMAIN js /\ new \subseteq DOMAIN js
  BY ReplaceKeeps DEF TypeOK, ClientsOK
<1> HIDE DEF js
<1>3. JobsOK(js)
  BY <1>1 DEF Kept, JobsOK
<1>4. \A d, os, n : (\E k \in Working \ {j} : HelpsAt(d, os, k, n)) =>
                      HelpedAt(d, os, js, n)
  BY <1>2 DEF HelpedAt, Working
<1>5. \A d, os, n : (\E k \in new : HelpsAt(d, os, k, n)) => HelpedAt(d, os, js, n)
  BY <1>2 DEF HelpedAt
<1> QED BY <1>3, <1>4, <1>5 DEF js

\* A helper that asks is given a current frame for each output it helps.
LEMMA QueryKeeps ==
  ASSUME TypeOK, Kept, NEW j \in Working, Query(j) PROVE Kept'
<1> DEFINE k == Answered(j)
           frames == {FrameFor(j, n) : n \in Selected(j)}
<1>1. /\ phase = "ipc" /\ phase' = "poll" /\ UNCHANGED <<daemon, out, layoutDirty, plugs>>
      /\ ~j.asked /\ jobs' = Replace(jobs, j, Advance(k))
  BY DEF Query, Serve
<1>2. j \in Jobs /\ JobOK(j) /\ j.asked = FALSE
  BY <1>1, JobParts DEF TypeOK, ClientsOK, Working, Kept, JobsOK
<1>3. /\ k \in Jobs /\ k.frames = frames /\ k.mode = j.mode /\ k.path = j.path
      /\ k.asked = TRUE /\ k.skip = j.skip /\ k.stages = j.stages
  BY <1>2, AnsweredSound
<1>4. \A f \in frames : f.pic.path = j.path
  BY DEF FrameFor, Render
<1>5. ASSUME NEW n \in Names, out[n].configured, j.mode = "repaint", n \in j.names
      PROVE  FrameFor(j, n) \in frames
  <2>1. j.skip = {}
    BY <1>2, <1>5 DEF JobOK
  <2>2. n \in Selected(j)
    BY <1>5, <2>1 DEF Selected, Configured
  <2> QED BY <2>2
<1> HIDE DEF frames, k
<1>6. JobOK(k)
  BY <1>2, <1>3, <1>4 DEF JobOK
<1>7. \A x \in Advance(k) : JobOK(x)
  BY <1>3, <1>6, AdvanceKeeps
<1>8. /\ JobsOK(jobs')
      /\ \A n : (\E x \in Working \ {j} : HelpsAt(daemon, out, x, n)) =>
                  HelpedAt(daemon, out, jobs', n)
      /\ \A n : (\E x \in Advance(k) : HelpsAt(daemon, out, x, n)) =>
                  HelpedAt(daemon, out, jobs', n)
  BY <1>1, <1>7, OneClient
<1>9. ASSUME NEW n \in Names, out[n].configured, HelpsAt(daemon, out, j, n)
      PROVE  HelpedAt(daemon, out, jobs', n)
  <2> DEFINE f == FrameFor(j, n)
  <2>1. j.mode = "repaint" /\ j.path = EffPath(daemon, n) /\ n \in j.names
    BY <1>2, <1>9 DEF HelpsAt, JobOK
  <2>2. f \in frames
    BY <1>5, <1>9, <2>1
  <2>3. f.name = n /\ f.gen = out[n].gen /\ SamePlug(f)
    BY DEF FrameFor, SamePlug
  <2> HIDE DEF f
  <2>4. HelpsAt(daemon, out, k, n)
    BY <1>3, <2>1, <2>2, <2>3 DEF HelpsAt, FrameHelps
  <2>5. k \in Advance(k)
    BY <1>3, <2>2 DEF Advance
  <2> QED BY <1>8, <2>4, <2>5
<1>10. \A n \in Names : out[n].configured /\ HelpedAt(daemon, out, jobs, n) =>
                          HelpedAt(daemon, out, jobs', n)
  BY <1>8, <1>9 DEF HelpedAt, Working
<1> QED BY <1>1, <1>8, <1>10, ClientKeeps

\* What a client's frames, other than the one it just sent, still help.
LEMMA SentHelps ==
  ASSUME TypeOK, Kept, NEW j \in Working, NEW f \in j.frames, NEW ok \in BOOLEAN
  PROVE  LET js == Replace(jobs, j, Advance(Sent(j, f, ok)))
         IN /\ ClientsOK(js) /\ JobsOK(js)
            /\ \A d, os, n : HelpedAt(d, os, jobs, n) =>
                 HelpedAt(d, os, js, n)
                 \/ (j.path = EffPath(d, n) /\ FrameHelps(os, j, f, n))
<1> DEFINE new == Advance(Sent(j, f, ok))
           js == Replace(jobs, j, new)
<1>1. j \in Jobs /\ JobOK(j) /\ j.asked = TRUE
  BY JobParts DEF TypeOK, ClientsOK, Working, Kept, JobsOK, JobOK
<1>2. /\ \A k \in new : JobOK(k)
      /\ \A g \in j.frames \ {f} :
           \E k \in new : k.mode = j.mode /\ k.path = j.path /\ g \in k.frames
  BY <1>1, SentKeeps
<1>3. ClientsOK(js)
  BY SentSound DEF TypeOK
<1> HIDE DEF new
<1>4. /\ JobsOK(js)
      /\ \A d, os, n : (\E k \in Working \ {j} : HelpsAt(d, os, k, n)) =>
                         HelpedAt(d, os, js, n)
      /\ \A d, os, n : (\E k \in new : HelpsAt(d, os, k, n)) => HelpedAt(d, os, js, n)
  BY <1>2, OneClient
<1> HIDE DEF js
<1>5. ASSUME NEW d, NEW os, NEW n, HelpsAt(d, os, j, n)
      PROVE  \/ HelpedAt(d, os, js, n)
             \/ j.path = EffPath(d, n) /\ FrameHelps(os, j, f, n)
  <2>1. j.path = EffPath(d, n) /\ \E g \in j.frames : FrameHelps(os, j, g, n)
    BY <1>1, <1>5 DEF HelpsAt
  <2>2. PICK g \in j.frames : FrameHelps(os, j, g, n)
    BY <2>1
  <2>3. CASE g = f
    BY <2>1, <2>2, <2>3
  <2>4. CASE g # f
    <3>1. PICK k \in new : k.mode = j.mode /\ k.path = j.path /\ g \in k.frames
      BY <1>2, <2>4
    <3>2. HelpsAt(d, os, k, n)
      BY <2>1, <2>2, <3>1 DEF HelpsAt, FrameHelps
    <3> QED BY <1>4, <3>2
  <2> QED BY <2>3, <2>4
<1>6. \A d, os, n : HelpedAt(d, os, jobs, n) =>
        HelpedAt(d, os, js, n) \/ (j.path = EffPath(d, n) /\ FrameHelps(os, j, f, n))
  BY <1>4, <1>5 DEF HelpedAt, Working
<1> QED BY <1>3, <1>4, <1>6 DEF js, new

\* A frame that carries the generation of its output, as plugged in now, is
\* attached and not dropped.
LEMMA CurrentFrame ==
  ASSUME FramesSound, phase = "ipc", NEW f \in InFlight, SamePlug(f),
         out[f.name].configured, f.gen = out[f.name].gen
  PROVE  UpToDate(f, f.name) /\ Attachable(f)
<1>1. UpToDate(f, f.name)
  BY DEF FramesSound, FrameSound, Condemned
<1> QED BY <1>1 DEF UpToDate, Attachable

\* A frame that is refused or dropped helped no output.
LEMMA SendKeeps ==
  ASSUME Reliable, TypeOK, FramesSound, Kept, NEW j \in Working, NEW f \in j.frames,
         SendRefused(j, f) \/ SendSuperseded(j, f)
  PROVE  Kept'
<1>1. PICK ok \in BOOLEAN : jobs' = Replace(jobs, j, Advance(Sent(j, f, ok)))
  <2>1. CASE SendRefused(j, f)
    BY <2>1 DEF SendRefused
  <2>2. CASE SendSuperseded(j, f)
    BY <2>2 DEF SendSuperseded, Replies
  <2> QED BY <2>1, <2>2
<1>2. /\ UNCHANGED <<daemon, out, layoutDirty, plugs>>
      /\ phase = "ipc" /\ phase' = "poll"
  BY DEF SendRefused, SendSuperseded, Serve
<1>3. f \in InFlight
  BY DEF InFlight, FramesOf, Working
<1>4. /\ JobsOK(jobs')
      /\ \A d, os, n : HelpedAt(d, os, jobs, n) =>
           HelpedAt(d, os, jobs', n) \/ (j.path = EffPath(d, n) /\ FrameHelps(os, j, f, n))
  BY <1>1, SentHelps
<1>5. ASSUME NEW n \in Names, out[n].configured, j.path = EffPath(daemon, n),
             FrameHelps(out, j, f, n)
      PROVE  FALSE
  <2>1. f.name = n /\ SamePlug(f)
    BY <1>5 DEF FrameHelps
  <2>2. Attachable(f)
    <3>1. CASE j.mode = "repaint" /\ f.gen = out[n].gen
      BY <1>2, <1>3, <1>5, <2>1, <3>1, CurrentFrame
    <3>2. CASE f.pic.buf = BufferSize(out[n])
      BY <1>5, <2>1, <3>2 DEF Attachable
    <3> QED BY <1>5, <3>1, <3>2 DEF FrameHelps
  <2>3. ~Superseded(j, f) /\ j.mode # "override"
    BY <1>5, <2>1 DEF FrameHelps, Superseded, Stale
  <2>4. UNION PaintFaults = {}
    BY DEF Reliable
  <2> QED BY <2>1, <2>2, <2>3, <2>4 DEF SendRefused, SendSuperseded
<1>6. \A n \in Names : out[n].configured /\ HelpedAt(daemon, out, jobs, n) =>
                         HelpedAt(daemon, out, jobs', n)
  BY <1>4, <1>5
<1> QED BY <1>2, <1>4, <1>6, ClientKeeps

\* The paths an applied frame leaves behind.
LEMMA AppliedPaths ==
  ASSUME NEW d \in Daemon, NEW mode \in Modes, NEW n \in Names, NEW p \in Paths
  PROVE  LET e == SetPalette(Remembered(d, mode, n, p), n, p)
         IN /\ e.color = d.color
            /\ mode = "repaint" => \A m \in Names : EffPath(e, m) = EffPath(d, m)
            /\ mode = "override" => \A m \in Names \ {n} : EffPath(e, m) = EffPath(d, m)
            /\ mode # "repaint" => EffPath(e, n) = p
            /\ mode = "default" => \A m \in Names : EffPath(e, m) = p
<1> DEFINE r == Remembered(d, mode, n, p)
           e == SetPalette(r, n, p)
<1>1. d.over \in [Names -> Override] /\ p # Unset
  BY DaemonParts, Distinct
<1>2. /\ r \in Daemon /\ r.color = d.color
      /\ mode = "repaint" => r = d
      /\ mode = "override" => /\ r.path = d.path /\ r.over[n].path = p
                              /\ \A m \in Names \ {n} : r.over[m] = d.over[m]
      /\ mode = "default" => r.path = p /\ \A m \in Names : r.over[m].path = Unset
  <2>1. CASE mode = "default"
    <3> DEFINE over == WithoutImages(d.over)
    <3>1. over \in [Names -> Override] /\ \A m \in Names : over[m].path = Unset
      BY <1>1, TableTypes, TablePaths
    <3>2. r = [d EXCEPT !.path = p, !.over = over]
      BY <2>1 DEF Remembered
    <3> HIDE DEF over, r
    <3> QED BY <2>1, <3>1, <3>2 DEF Daemon
  <2>2. CASE mode = "override"
    <3> DEFINE over == [d.over EXCEPT ![n].path = p]
    <3>1. /\ over \in [Names -> Override] /\ over[n].path = p
          /\ \A m \in Names \ {n} : over[m] = d.over[m]
      BY <1>1 DEF Override, Image
    <3>2. r = [d EXCEPT !.over = over]
      BY <2>2 DEF Remembered, Daemon
    <3> HIDE DEF over, r
    <3> QED BY <2>2, <3>1, <3>2 DEF Daemon
  <2>3. CASE mode = "repaint"
    BY <2>3 DEF Remembered
  <2> QED BY <2>1, <2>2, <2>3 DEF Modes
<1> HIDE DEF r
<1>3. r.over \in [Names -> Override]
  BY <1>2, DaemonParts
<1>4. /\ e.color = r.color /\ e.path = r.path
      /\ \A m \in Names : e.over[m].path = r.over[m].path
  <2>1. CASE r.over[n].path # Unset
    <3> DEFINE over == [r.over EXCEPT ![n].palette = p]
    <3>1. \A m \in Names : over[m].path = r.over[m].path
      BY <1>3 DEF Override
    <3>2. e = [r EXCEPT !.over = over]
      BY <1>2, <2>1 DEF SetPalette, Daemon
    <3> HIDE DEF over, e
    <3> QED BY <1>2, <3>1, <3>2 DEF Daemon
  <2>2. CASE r.over[n].path = Unset
    <3>1. e = [r EXCEPT !.palette = p]
      BY <2>2 DEF SetPalette
    <3> QED BY <1>2, <3>1 DEF Daemon
  <2> QED BY <2>1, <2>2
<1> HIDE DEF e
<1>5. \A m \in Names : EffPath(e, m) = EffPath(r, m)
  BY <1>4 DEF EffPath
<1>6. mode = "override" => \A m \in Names \ {n} : EffPath(r, m) = EffPath(d, m)
  BY <1>2 DEF EffPath
<1>7. mode # "repaint" => EffPath(r, n) = p
  BY <1>1, <1>2 DEF EffPath, Modes
<1>8. mode = "default" => \A m \in Names : EffPath(r, m) = p
  BY <1>1, <1>2 DEF EffPath
<1> QED BY <1>2, <1>4, <1>5, <1>6, <1>7, <1>8 DEF r, e

\* The other outputs want what they wanted, or the default image that came and
\* have a frame of it on its way.
LEMMA AppliedKeeps ==
  ASSUME Reliable, TypeOK, FramesSound, Kept, NoneFromBefore, DefaultsReach,
         NEW j \in Working, NEW f \in j.frames, NEW ok \in BOOLEAN, SendApplied(j, f, ok)
  PROVE  Kept'
<1> DEFINE n == f.name
           d == SetPalette(Remembered(daemon, j.mode, n, j.path), n, j.path)
           x == Attached(out[n], f, j.mode)
           os == [out EXCEPT ![n] = x]
           md == MarkDirty(os, {n})
           js == Replace(jobs, j, Advance(Sent(j, f, ok)))
<1>1. /\ daemon' = d /\ phase = "ipc" /\ phase' = "poll" /\ plugs' = plugs
      /\ Attachable(f) /\ ~Superseded(j, f)
  BY DEF SendApplied, Serve
<1>2. IF j.mode # "repaint" /\ Stale(f)
      THEN ReconcilePaint(d, md, js)
      ELSE out' = os /\ jobs' = js /\ layoutDirty' = layoutDirty
  BY DEF SendApplied
<1>3. /\ j \in Jobs /\ JobOK(j) /\ f \in InFlight /\ ClientsOK(jobs)
      /\ daemon \in Daemon /\ layoutDirty \in BOOLEAN /\ OutputsOK(out)
  BY DEF TypeOK, ClientsOK, Working, InFlight, FramesOf, Kept, JobsOK
<1>4. f \in Frames /\ n \in Names /\ j.path \in Paths /\ j.mode \in Modes
  BY <1>3, FrameParts, JobParts
<1>5. /\ ClientsOK(js) /\ JobsOK(js)
      /\ \A e, pt, m : HelpedAt(e, pt, jobs, m) =>
           HelpedAt(e, pt, js, m) \/ (j.path = EffPath(e, m) /\ FrameHelps(pt, j, f, m))
  BY SentHelps
<1>6. /\ d \in Daemon /\ d.fit = daemon.fit /\ Fill(d) = Fill(daemon)
      /\ \A m \in Names : d.over[m].fit = daemon.over[m].fit
  BY <1>3, <1>4, AppliedSound
<1>7. /\ d.color = daemon.color
      /\ j.mode = "repaint" => \A m \in Names : EffPath(d, m) = EffPath(daemon, m)
      /\ j.mode = "override" => \A m \in Names \ {n} : EffPath(d, m) = EffPath(daemon, m)
      /\ j.mode # "repaint" => EffPath(d, n) = j.path
      /\ j.mode = "default" => \A m \in Names : EffPath(d, m) = j.path
  BY <1>3, <1>4, AppliedPaths
<1>8. /\ out[n] \in Output /\ out[n].configured /\ SamePlug(f)
      /\ out \in [Names -> Output]
  BY <1>1, <1>3, <1>4 DEF OutputsOK, Attachable, NoneFromBefore
<1>9. x \in Output /\ SameOutput(x, out[n])
  BY <1>4, <1>8, AttachedSound
<1>10. x.content = f.pic
  BY <1>8 DEF Attached, Output
<1> HIDE DEF d, js, x
<1>11. /\ os[n] = x /\ \A m \in Names \ {n} : os[m] = out[m]
       /\ OutputsOK(os) /\ os \in [Names -> Output]
  BY <1>3, <1>4, <1>8, <1>9 DEF OutputsOK, SameOutput
<1> HIDE DEF os
<1>12. \A m \in Names : SameOutput(os[m], out[m])
  BY <1>9, <1>11 DEF SameOutput
<1>13. \A m \in Names : EffFit(d, m) = EffFit(daemon, m) /\ Alike(d, m)
  BY <1>6, SameFits, RefreshAlike
\* the outputs the frame is not for
<1>14. ASSUME NEW m \in Names \ {n}, out[m].configured
       PROVE  WantsSame(d, m) \/ HelpsAt(d, out, j, m)
  <2>1. CASE EffPath(d, m) = EffPath(daemon, m)
    BY <1>7, <1>13, <2>1 DEF WantsSame
  <2>2. CASE EffPath(d, m) # EffPath(daemon, m)
    <3>1. j.mode = "default" /\ EffPath(d, m) = j.path
      BY <1>4, <1>7, <1>14, <2>2 DEF Modes
    <3>2. m \in Configured /\ n \in Configured /\ m # n
      BY <1>4, <1>8, <1>14 DEF Configured
    <3>3. /\ "img" \notin JobFaults
          /\ \E g \in j.frames : g.name = m /\ SamePlug(g) /\ Attachable(g)
      BY <2>2, <3>1, <3>2 DEF DefaultsReach
    <3>4. PICK g \in j.frames : g.name = m /\ SamePlug(g) /\ Attachable(g)
      BY <3>3
    <3>5. FrameHelps(out, j, g, m)
      BY <3>1, <3>3, <3>4 DEF FrameHelps, Attachable
    <3> QED BY <3>1, <3>5 DEF HelpsAt
  <2> QED BY <2>1, <2>2
<1>15. ASSUME NEW m \in Names \ {n}, NEW pt, \A k \in Names : SameOutput(pt[k], out[k]),
              pt[m].content = out[m].content, pt[m].gen = out[m].gen
       PROVE  ServedAt(d, pt, js, m, Unsettled(pt))
  <2>1. CASE out[m].configured
    <3>1. \A e : HelpedAt(e, out, jobs, m) => HelpedAt(e, out, js, m)
      BY <1>5, <1>15 DEF FrameHelps
    <3>2. CASE WantsSame(d, m)
      <4>1. Served(m)
        BY DEF Kept
      <4> QED BY <1>1, <1>15, <3>1, <3>2, <4>1, StillServed
    <3>3. CASE HelpsAt(d, out, j, m)
      <4>1. HelpedAt(d, out, js, m)
        BY <3>1, <3>3 DEF HelpedAt, Working
      <4>2. BufferSize(pt[m]) = BufferSize(out[m])
        BY <1>15, SameSize
      <4>3. HelpedAt(d, pt, js, m)
        BY <1>15, <4>1, <4>2, StillHelped
      <4> QED BY <4>3 DEF ServedAt
    <3> QED BY <1>14, <2>1, <3>2, <3>3
  <2>2. CASE ~out[m].configured
    BY <1>15, <2>2 DEF ServedAt, SameOutput
  <2> QED BY <2>1, <2>2
\* a frame made stale by a change: the output is repainted
<1>16. CASE j.mode # "repaint" /\ Stale(f)
  <2>1. ReconcilePaint(d, md, js)
    BY <1>2, <1>16
  <2>2. /\ OutputsOK(md)
        /\ \A m \in Names : /\ SameOutput(md[m], os[m]) /\ md[m].gen = os[m].gen
                            /\ m \in {n} => md[m].dirty
                            /\ md[m].content = os[m].content
    BY <1>11, MarkSound, MarkContent
  <2> HIDE DEF md
  <2>3. \A m \in Names : SameOutput(md[m], out[m])
    BY <1>12, <2>2 DEF SameOutput
  <2>4. \A m \in Names \ {n} : ServedAt(d, md, js, m, Unsettled(md))
    BY <1>11, <1>15, <2>2, <2>3
  <2>5. \A m \in Names :
          md[m].configured => DueAt(d, md, m) \/ ServedAt(d, md, js, m, Unsettled(md))
    BY <2>2, <2>4 DEF DueAt
  <2>6. JobsOK(jobs') /\ \A m \in Names : Served(m)'
    BY <1>1, <1>3, <1>5, <1>6, <2>1, <2>2, <2>5, RepaintServes
  <2> QED BY <1>1, <2>6 DEF Kept
\* a current frame: its picture is what the output should show
<1>17. CASE ~(j.mode # "repaint" /\ Stale(f))
  <2>1. out' = os /\ jobs' = js /\ layoutDirty' = layoutDirty
    BY <1>2, <1>17
  <2>2. f.gen = out[n].gen
    BY <1>1, <1>17 DEF Superseded, Stale
  <2>3. UpToDate(f, n)
    BY <1>1, <1>3, <1>8, <2>2, CurrentFrame
  <2>4. EffPath(d, n) = j.path /\ EffPath(d, n) # Blank
    BY <1>1, <1>4, <1>7, Distinct DEF Superseded
  <2>5. BufferSize(os[n]) = BufferSize(out[n]) /\ Layout(os) = Layout(out)
    BY <1>4, <1>12, SameSize, SameLayout
  <2>6. Unsettled(os) \/ Settled
    BY <1>12 DEF Unsettled, Settled, SameOutput
  <2>7. f.pic.path = j.path
    BY <1>3 DEF JobOK
  <2>8. ShowsAt(d, os, n, Unsettled(os))
    <3>1. /\ f.pic.path = EffPath(d, n) /\ f.pic.fit = EffFit(d, n)
          /\ f.pic.buf = BufferSize(os[n])
          /\ f.pic.fill = IF UsesColor(f.pic.fit) THEN Fill(d) ELSE NoFill
          /\ f.pic.fit # "span" => f.pic.span = NoSpan
      BY <1>4, <1>6, <1>13, <2>3, <2>4, <2>5, <2>7 DEF UpToDate
    <3>2. f.pic.fit = "span" => Unsettled(os) \/ f.pic.span = Layout(os)
      BY <1>1, <2>3, <2>5, <2>6 DEF UpToDate, LayoutPending
    <3> QED BY <1>10, <1>11, <2>4, <3>1, <3>2 DEF ShowsAt
  <2>9. ASSUME NEW m \in Names PROVE ServedAt(d, os, js, m, Unsettled(os))
    <3>1. CASE m = n
      BY <2>8, <3>1 DEF ServedAt
    <3>2. CASE m # n
      BY <1>11, <1>12, <1>15, <3>2
    <3> QED BY <3>1, <3>2
  <2>10. ASSUME NEW m \in Names PROVE Served(m)'
    <3>1. ServedAt(d, os, js, m, Unsettled(os) \/ LayoutPending')
      BY <2>9 DEF ServedAt, ShowsAt
    <3>2. ServedAt(daemon, out, jobs, m, Unsettled(out) \/ LayoutPending)'
      BY <1>1, <2>1, <3>1 DEF ServedAt, HelpedAt, HelpsAt, FrameHelps, SamePlug
    <3> QED BY <3>2 DEF Served
  <2>11. JobsOK(jobs')
    BY <1>5, <2>1
  <2> QED BY <1>1, <2>10, <2>11 DEF Kept
<1> QED BY <1>16, <1>17

LEMMA ClientRequestKeeps ==
  ASSUME Reliable, TypeOK, FramesSound, Kept, NoneFromBefore, DefaultsReach, ClientRequest
  PROVE  Kept'
<1>1. PICK j \in Working :
        \/ Query(j)
        \/ \E f \in j.frames :
             \/ SendRefused(j, f)
             \/ SendSuperseded(j, f)
             \/ \E ok \in Replies : SendApplied(j, f, ok)
  BY DEF ClientRequest
<1>2. Replies \subseteq BOOLEAN
  BY DEF Replies
<1> QED BY <1>1, <1>2, QueryKeeps, SendKeeps, AppliedKeeps

\* A client that fails is none the daemon sent for, unless there is no daemon.
LEMMA ClientFaultKeeps ==
  ASSUME Reliable, TypeOK, Kept, ClientFault PROVE Kept'
<1>1. PICK j \in Working : Fail(j)
  BY DEF ClientFault, Die, Reliable
<1>2. UNCHANGED <<phase, daemon, out, layoutDirty, plugs>>
  BY <1>1 DEF Fail
<1>3. j \in Jobs /\ JobOK(j)
  BY DEF TypeOK, ClientsOK, Working, Kept, JobsOK
<1>4. PICK k \in Jobs : JobOK(k) /\ jobs' = Replace(jobs, j, Advance(k))
  <2>1. CASE jobs' = Replace(jobs, j, Advance([j EXCEPT !.asked = TRUE, !.failed = TRUE]))
    <3> DEFINE k == [j EXCEPT !.asked = TRUE, !.failed = TRUE]
    <3>1. /\ k \in Jobs /\ k.asked = TRUE /\ k.frames = j.frames /\ k.path = j.path
          /\ k.mode = j.mode /\ k.skip = j.skip /\ k.stages = j.stages
      BY <1>3 DEF Jobs
    <3> HIDE DEF k
    <3>2. JobOK(k)
      BY <1>3, <3>1 DEF JobOK
    <3>3. jobs' = Replace(jobs, j, Advance(k))
      BY <2>1 DEF k
    <3> QED BY <3>1, <3>2, <3>3
  <2>2. ASSUME NEW f \in j.frames, jobs' = Replace(jobs, j, Advance(Sent(j, f, FALSE)))
        PROVE  \E k \in Jobs : JobOK(k) /\ jobs' = Replace(jobs, j, Advance(k))
    <3> DEFINE k == Sent(j, f, FALSE)
               failed == j.failed \/ ~FALSE
    <3>1. failed \in BOOLEAN
      OBVIOUS
    <3>2. k = [j EXCEPT !.frames = j.frames \ {f}, !.failed = failed]
      BY DEF Sent
    <3> HIDE DEF failed, k
    <3>3. /\ k \in Jobs /\ k.asked = j.asked /\ k.frames = j.frames \ {f}
          /\ k.path = j.path /\ k.mode = j.mode /\ k.skip = j.skip
          /\ k.stages = j.stages
      BY <1>3, <3>1, <3>2 DEF Jobs
    <3>4. JobOK(k)
      BY <1>3, <3>3 DEF JobOK
    <3> QED BY <2>2, <3>3, <3>4 DEF k
  <2> QED BY <1>1, <2>1, <2>2 DEF Fail
<1>5. \A x \in Advance(k) : JobOK(x)
  BY <1>4, AdvanceKeeps
<1>6. /\ JobsOK(jobs')
      /\ \A d, os, n : (\E i \in Working \ {j} : HelpsAt(d, os, i, n)) =>
                         HelpedAt(d, os, jobs', n)
  BY <1>4, <1>5, OneClient
<1>7. ASSUME NEW n \in Names, out[n].configured, HelpedAt(daemon, out, jobs, n)
      PROVE  HelpedAt(daemon, out, jobs', n)
  <2>1. phase # "down"
    BY <1>7 DEF Kept, TypeOK, OutputsOK
  <2>2. j.mode # "repaint" /\ "img" \in JobFaults
    BY <1>1, <2>1 DEF Fail, Reliable
  <2>3. PICK i \in Working : HelpsAt(daemon, out, i, n)
    BY <1>7 DEF HelpedAt, Working
  <2>4. i # j
    BY <2>2, <2>3 DEF HelpsAt, FrameHelps
  <2> QED BY <1>6, <2>3, <2>4
<1> QED BY <1>2, <1>6, <1>7, ClientKeeps

LEMMA StartImgKeeps ==
  ASSUME TypeOK, Kept, NEW cmd \in ImgCommands, StartImg(cmd) PROVE Kept'
<1>1. /\ jobs' = jobs (+) SetToBag({ImgJob(cmd)})
      /\ UNCHANGED <<phase, daemon, out, layoutDirty, plugs>>
  BY DEF StartImg
<1>2. DOMAIN jobs' = (DOMAIN jobs) \cup {ImgJob(cmd)}
  BY <1>1, BagAdd
<1>3. JobsOK(jobs')
  BY <1>2, ImgKeeps DEF Kept, JobsOK
<1>4. \A n \in Names : HelpedAt(daemon, out, jobs, n) => HelpedAt(daemon, out, jobs', n)
  BY <1>2 DEF HelpedAt
<1> QED BY <1>1, <1>3, <1>4, ClientKeeps

-----------------------------------------------------------------------------
(* The loop, the compositor, and the daemon's start and end.               *)

\* Without a surface nothing is to be served.
LEMMA DarkKeeps ==
  ASSUME OutputsOK(out'), JobsOK(jobs'), phase' # "surfaces",
         \A n \in Names : ~out'[n].live
  PROVE  Kept'
<1>1. ASSUME NEW n \in Names PROVE Served(n)'
  <2>1. ~out'[n].configured
    BY DEF OutputsOK
  <2> QED BY <2>1 DEF Served, ServedAt
<1> QED BY <1>1 DEF Kept

LEMMA FirstSurfacesKeeps ==
  ASSUME TypeOK, Kept, FirstSurfaces PROVE Kept'
<1>1. /\ phase = "registry" /\ phase' = "surfaces" /\ out' = EnsureSurfaces(out)
      /\ jobs' = jobs /\ OutputsOK(out)
  BY DEF FirstSurfaces, TypeOK
<1>2. ASSUME NEW n \in Names PROVE ~out'[n].configured
  <2>1. ~out[n].live /\ ~out[n].configured
    BY <1>1 DEF Kept, OutputsOK
  <2>2. out'[n].configured = out[n].configured
    BY <1>1, EnsureSound
  <2> QED BY <2>1, <2>2
<1>3. \A n \in Names : Served(n)'
  BY <1>2 DEF Served, ServedAt
<1> QED BY <1>1, <1>2, <1>3 DEF Kept

\* Every surface configured before the start is dirty.
LEMMA StartKeeps ==
  ASSUME Reliable, TypeOK, Kept, NEW cfg \in UserConfigs, NEW readable \in ReadableSets,
         Start(cfg, readable)
  PROVE  Kept'
<1> DEFINE d == Loaded(cfg, readable)
<1>1. /\ phase = "surfaces" /\ phase' = "contents" /\ daemon' = d
      /\ ReconcilePaint(d, out, jobs) /\ plugs' = plugs
  BY DEF Start
<1>2. d \in Daemon
  BY LoadedTypes
<1> HIDE DEF d
<1>3. \A n \in Names : out[n].configured => DueAt(d, out, n)
  BY <1>1 DEF Kept, DueAt
<1>4. /\ OutputsOK(out) /\ ClientsOK(jobs) /\ JobsOK(jobs)
      /\ layoutDirty \in BOOLEAN
  BY DEF TypeOK, Kept
<1>5. JobsOK(jobs') /\ \A n \in Names : Served(n)'
  BY <1>1, <1>2, <1>3, <1>4, RepaintServes
<1> QED BY <1>1, <1>5 DEF Kept

\* What is condemned, and a span picture when the layout is to change, is due.
LEMMA ReconcileKeeps ==
  ASSUME Reliable, TypeOK, FramesSound, Kept, Reconcile PROVE Kept'
<1> DEFINE os == EnsureSurfaces(out)
<1>1. /\ phase = "dispatch" /\ phase' = "ipc" /\ ReconcilePaint(daemon, os, jobs)
      /\ UNCHANGED <<daemon, plugs>>
  BY DEF Reconcile
<1>2. /\ OutputsOK(out) /\ ClientsOK(jobs) /\ JobsOK(jobs) /\ layoutDirty \in BOOLEAN
      /\ daemon \in Daemon
  BY DEF TypeOK, Kept
<1>3. /\ OutputsOK(os)
      /\ \A n \in Names :
           /\ os[n].plugged = out[n].plugged /\ os[n].configured = out[n].configured
           /\ os[n].box = out[n].box /\ os[n].moved = out[n].moved
           /\ os[n].configured => os[n] = out[n]
  BY <1>2, EnsureSound
<1> HIDE DEF os
<1>4. Unsettled(os) = Unsettled(out) /\ Layout(os) = Layout(out)
  BY <1>3, LayoutSame DEF Unsettled
<1>5. LayoutPending => SpanDue(os, layoutDirty)
  BY <1>3 DEF LayoutPending, SpanDue
<1>6. ASSUME NEW n \in Names, os[n].configured
      PROVE  DueAt(daemon, os, n) \/ ServedAt(daemon, os, jobs, n, Unsettled(os))
  <2>1. os[n] = out[n] /\ out[n].configured
    BY <1>3, <1>6
  <2>2. CASE Condemned(n)
    BY <2>1, <2>2 DEF Condemned, DueAt
  <2>3. CASE HelpedAt(daemon, out, jobs, n)
    BY <2>1, <2>3, StillHelped DEF ServedAt
  <2>4. CASE ShowsAt(daemon, out, n, Unsettled(out) \/ LayoutPending)
    <3>1. CASE ShowsAt(daemon, out, n, Unsettled(out))
      BY <1>4, <2>1, <3>1 DEF ServedAt, ShowsAt
    <3>2. CASE ~ShowsAt(daemon, out, n, Unsettled(out))
      <4>1. LayoutPending /\ EffFit(daemon, n) = "span"
        BY <2>4, <3>2 DEF ShowsAt
      <4>2. daemon.fit = "span"
        BY <4>1 DEF FramesSound, NoSpanOverride, GlobalOnly, EffFit
      <4> QED BY <1>5, <4>1, <4>2 DEF DueAt
    <3> QED BY <3>1, <3>2
  <2> QED BY <2>1, <2>2, <2>3, <2>4 DEF Kept, Served, ServedAt
<1>7. JobsOK(jobs') /\ \A n \in Names : Served(n)'
  BY <1>1, <1>2, <1>3, <1>6, RepaintServes
<1> QED BY <1>1, <1>7 DEF Kept

LEMMA LoopKeeps ==
  ASSUME Reliable, TypeOK, FramesSound, Kept, Loop PROVE Kept'
<1>1. CASE NoRequest
  <2>1. /\ phase = "ipc" /\ phase' = "poll"
        /\ UNCHANGED <<daemon, out, layoutDirty, jobs, plugs>>
    BY <1>1 DEF NoRequest
  <2> QED BY <2>1, ClientKeeps DEF Kept
<1> QED BY <1>1, FirstSurfacesKeeps, StartKeeps, ReconcileKeeps DEF Loop

\* An event condemns what it changes.
LEMMA EventLeaves ==
  ASSUME TypeOK, FramesSound, Kept, CompositorEvent PROVE Kept'
<1>1. /\ phase # "ipc" /\ phase' = phase /\ daemon' = daemon /\ jobs' = jobs
      /\ JobsOK(jobs)
  BY EventPhase DEF Kept
<1>2. /\ LayoutKept
      /\ \A m \in Names : /\ Fresh(m) \/ (plugs'[m] = plugs[m] /\ OutputKept(m))
                          /\ out'[m].live => out[m].live
  BY EventKeeps
<1>3. Unsettled(out) <=> ~Settled
  BY DEF Unsettled, Settled
<1>4. Unsettled(out') <=> ~Settled'
  BY DEF Unsettled, Settled
<1>5. ASSUME NEW n \in Names, out'[n].configured, ~out'[n].dirty
      PROVE  /\ out[n].configured /\ ~out[n].dirty /\ plugs'[n] = plugs[n]
             /\ out'[n].content = out[n].content /\ out'[n].gen = out[n].gen
             /\ BufferSize(out'[n]) = BufferSize(out[n])
  BY <1>2, <1>5 DEF Fresh, OutputKept
<1> DEFINE loose == Unsettled(out') \/ LayoutPending'
<1>6. ASSUME NEW n \in Names, out'[n].configured, ~out'[n].dirty
      PROVE  \/ ShowsAt(daemon, out', n, loose)
             \/ HelpedAt(daemon, out, jobs, n)'
  <2>1. \/ ShowsAt(daemon, out, n, Unsettled(out) \/ LayoutPending)
        \/ HelpedAt(daemon, out, jobs, n)
    BY <1>5, <1>6 DEF Kept, Served, Condemned, ServedAt
  <2>2. CASE ShowsAt(daemon, out, n, Unsettled(out) \/ LayoutPending)
    <3>1. loose \/ (/\ ~(Unsettled(out) \/ LayoutPending)
                    /\ Layout(out') = Layout(out))
      BY <1>2, <1>3, <1>4 DEF LayoutKept
    <3>2. out'[n].content = out[n].content /\ BufferSize(out'[n]) = BufferSize(out[n])
      BY <1>5, <1>6
    <3> HIDE DEF loose
    <3> QED BY <2>2, <3>1, <3>2 DEF ShowsAt
  <2>3. CASE HelpedAt(daemon, out, jobs, n)
    <3>1. /\ out'[n].gen = out[n].gen /\ plugs'[n] = plugs[n]
          /\ BufferSize(out'[n]) = BufferSize(out[n])
      BY <1>5, <1>6
    <3> QED BY <1>1, <2>3, <3>1 DEF HelpedAt, HelpsAt, FrameHelps, SamePlug
  <2> QED BY <2>1, <2>2, <2>3
<1>7. ASSUME NEW n \in Names PROVE Served(n)'
  <2>1. CASE out'[n].dirty
    BY <1>1, <2>1 DEF Served, Condemned
  <2>2. CASE ~out'[n].configured
    BY <2>2 DEF Served, ServedAt
  <2>3. CASE out'[n].configured /\ ~out'[n].dirty
    BY <1>1, <1>6, <2>3 DEF Served, ServedAt
  <2> QED BY <2>1, <2>2, <2>3
<1>8. phase' \in {"registry", "down"} => \A n \in Names : ~out'[n].live
  BY <1>1, <1>2 DEF Kept
<1>9. phase' = "surfaces" => \A n \in Names : out'[n].configured => out'[n].dirty
  BY <1>1, <1>5 DEF Kept
<1> QED BY <1>1, <1>7, <1>8, <1>9 DEF Kept

LEMMA StopBootKeeps ==
  ASSUME TypeOK, FramesSound, Kept, Stop \/ Boot PROVE Kept'
<1>1. jobs' = jobs /\ JobsOK(jobs) /\ phase' # "surfaces"
  BY DEF Stop, Boot, Kept
<1>2. ASSUME NEW n \in Names PROVE ~out'[n].live
  <2>1. CASE Stop
    BY <2>1 DEF Stop, Unplugged
  <2>2. CASE Boot
    BY <2>2 DEF Boot, Kept
  <2> QED BY <2>1, <2>2
<1>3. OutputsOK(out')
  BY StopSound, BootSound DEF TypeOK
<1> QED BY <1>1, <1>2, <1>3, DarkKeeps

-----------------------------------------------------------------------------
(* The theorem.                                                            *)

LEMMA InitKept == ASSUME Init PROVE Kept
<1>1. \A n \in Names : out[n] = Unplugged
  BY DEF Init
<1>2. ~Unplugged.live /\ ~Unplugged.configured
  BY DEF Unplugged
<1>3. JobsOK(jobs)
  BY DEF Init, EmptyBag, SetToBag, JobsOK
<1>4. \A n \in Names : Served(n)
  BY <1>1, <1>2 DEF Served, ServedAt
<1> QED BY <1>1, <1>2, <1>3, <1>4 DEF Init, Kept

LEMMA NextKeeps ==
  ASSUME Reliable, TypeOK, FramesSound, Kept, NoneFromBefore, DefaultsReach, [Next]_vars
  PROVE  Kept'
<1>1. CASE CompositorEvent
  BY <1>1, EventLeaves
<1>2. CASE Loop
  BY <1>2, LoopKeeps
<1>3. CASE UserRequest
  BY <1>3, UserRequestKeeps
<1>4. ASSUME NEW cmd \in ImgCommands, StartImg(cmd) PROVE Kept'
  BY <1>4, StartImgKeeps
<1>5. CASE ClientRequest
  BY <1>5, ClientRequestKeeps
<1>6. CASE ClientFault
  BY <1>6, ClientFaultKeeps
<1>7. CASE Stop \/ Boot
  BY <1>7, StopBootKeeps
<1>8. CASE Wake
  <2>1. /\ phase \in {"contents", "poll"} /\ phase' = "dispatch"
        /\ UNCHANGED <<daemon, out, layoutDirty, jobs, plugs>>
    BY <1>8 DEF Wake
  <2> QED BY <2>1, ClientKeeps DEF Kept
<1>9. CASE UNCHANGED vars
  <2>1. UNCHANGED <<phase, daemon, out, layoutDirty, listed, jobs, plugs>>
    BY <1>9 DEF vars
  <2> QED BY <2>1, ClientKeeps DEF Kept
<1> QED BY <1>1, <1>2, <1>3, <1>4, <1>5, <1>6, <1>7, <1>8, <1>9 DEF Next

\* What Kept says when a client is about to be served.
LEMMA ShownFromKept ==
  ASSUME TypeOK, FramesSound, Kept PROVE ShownOrComing
<1> SUFFICES ASSUME phase = "ipc", NEW n \in Names, out[n].configured
             PROVE  SamePicture(out[n].content, Wanted(daemon, out, n)) \/ Coming(n)
  BY DEF ShownOrComing
<1>1. \/ ShowsAt(daemon, out, n, Unsettled(out) \/ LayoutPending)
      \/ HelpedAt(daemon, out, jobs, n)
  BY DEF Kept, Served, Condemned, ServedAt
<1>2. CASE ShowsAt(daemon, out, n, Unsettled(out) \/ LayoutPending)
  <2> DEFINE c == out[n].content
             wanted == Wanted(daemon, out, n)
  <2>1. ShowsAt(daemon, out, n, ~Settled)
    BY <1>2 DEF LayoutPending, Unsettled, Settled, ShowsAt
  <2>2. CASE EffPath(daemon, n) = Blank
    BY <2>1, <2>2 DEF ShowsAt, Wanted, SamePicture
  <2>3. CASE EffPath(daemon, n) # Blank
    <3>1. wanted = Render(EffPath(daemon, n), EffFit(daemon, n), daemon, out, n)
      BY <2>3 DEF Wanted
    <3>2. c \in Pictures
      BY OutputParts DEF TypeOK, OutputsOK
    <3>3. /\ c.path = wanted.path /\ c.fit = wanted.fit /\ c.buf = wanted.buf
          /\ c.fill = wanted.fill
          /\ c.span = wanted.span \/ ~Settled
      BY <2>1, <2>3, <3>1 DEF ShowsAt, Render
    <3>4. wanted = [path |-> wanted.path, fit |-> wanted.fit, buf |-> wanted.buf,
                    fill |-> wanted.fill, span |-> wanted.span]
      BY <3>1 DEF Render
    <3> HIDE DEF wanted, c
    <3>5. CASE c.span = wanted.span
      <4>1. c = wanted
        BY <3>2, <3>3, <3>4, <3>5 DEF Pictures
      <4> QED BY <4>1 DEF SamePicture, wanted, c
    <3>6. CASE ~Settled
      <4>1. [c EXCEPT !.span = wanted.span] = wanted
        BY <3>2, <3>3, <3>4 DEF Pictures
      <4> QED BY <3>6, <4>1 DEF SamePicture, wanted, c
    <3> QED BY <3>3, <3>5, <3>6
  <2> QED BY <2>2, <2>3
<1>3. CASE HelpedAt(daemon, out, jobs, n)
  <2>1. PICK j \in Working : HelpsAt(daemon, out, j, n)
    BY <1>3 DEF HelpedAt, Working
  <2>2. CASE j.mode = "repaint" /\ j.asked = FALSE /\ n \in j.names
    BY <2>1, <2>2 DEF HelpsAt, Coming
  <2>3. ASSUME NEW f \in j.frames, FrameHelps(out, j, f, n) PROVE Coming(n)
    <3>1. f \in InFlight
      BY DEF InFlight, FramesOf, Working
    <3>2. f.name = n /\ SamePlug(f)
      BY <2>3 DEF FrameHelps
    <3>3. CASE j.mode = "repaint" /\ f.gen = out[n].gen
      <4>1. Attachable(f)
        BY <3>1, <3>2, <3>3, CurrentFrame
      <4> QED BY <2>1, <3>2, <3>3, <4>1 DEF HelpsAt, Coming
    <3>4. CASE j.mode = "default" /\ f.pic.buf = BufferSize(out[n])
      <4>1. Attachable(f)
        BY <3>2, <3>4 DEF Attachable
      <4> QED BY <3>2, <3>4, <4>1 DEF Coming
    <3> QED BY <2>3, <3>3, <3>4 DEF FrameHelps
  <2> QED BY <2>1, <2>2, <2>3 DEF HelpsAt
<1> QED BY <1>1, <1>2, <1>3

(* Nothing is forgotten.  In every interleaving of requests, clients and   *)
(* compositor events, whenever the daemon is about to serve a client every *)
(* configured output shows what it should or a client that will repaint it *)
(* is on its way -- while nothing fails that the code does not retry, and  *)
(* in the behaviours that avoid what the runs replug and late_output find: *)
(* a frame prepared for an unplugged output that meets its successor, and  *)
(* a default image that passes by an output it has no frame for.           *)
THEOREM NothingForgotten ==
  ASSUME Reliable
  PROVE  Spec /\ [](NoneFromBefore /\ DefaultsReach) => []ShownOrComing
<1>1. Init => Kept
  BY InitKept
<1>2. /\ TypeOK /\ FramesSound /\ Kept /\ NoneFromBefore /\ DefaultsReach
      /\ [Next]_vars
      => Kept'
  BY NextKeeps
<1>3. TypeOK /\ FramesSound /\ Kept => ShownOrComing
  BY ShownFromKept
<1> QED BY <1>1, <1>2, <1>3, TypeCorrect, FramesAreSound, PTL DEF Spec

-----------------------------------------------------------------------------
(* Outputs that never come back, and commands that reach them all: then the *)
(* theorem asks nothing of the behaviour.                                   *)

\* Every output is plugged in once at most, and so is what its frames are for.
Once ==
  /\ \A n \in Names : plugs[n] <= 1 /\ (out[n].plugged => plugs[n] = 1)
  /\ \A f \in InFlight : f.plug = 1

\* The only output there is, or a command that names its outputs.
OneOutputOnly == \A m, n \in Names : m = n
OutputsNamed == \A cmd \in ImgCommands : cmd.default = Unset

\* A client without a default image, now or later.
Naming(j) == /\ j.mode # "default"
             /\ \A i \in DOMAIN j.stages : j.stages[i].mode # "default"

AllNaming == \A j \in Working : Naming(j)

LEMMA EventPlugs ==
  ASSUME MaxPlugs <= 1, TypeOK, CompositorEvent, NEW m \in Names
  PROVE  plugs'[m] = plugs[m] \/ (plugs[m] < 1 /\ plugs'[m] = plugs[m] + 1)
<1>0. plugs \in [Names -> Nat] /\ MaxPlugs \in Nat
  BY BoundAssumption DEF TypeOK
<1>1. PICK n \in Names :
        \/ \E b \in Boxes : Plug(n, b) \/ Move(n, b)
        \/ Unplug(n)
        \/ \E s \in Scales : Scale(n, s)
        \/ \E r \in Fractions : PreferredScale(n, r)
        \/ \E w \in Widths : Configure(n, w)
        \/ Closed(n)
  BY DEF CompositorEvent
<1>2. CASE \E b \in Boxes : Plug(n, b)
  BY <1>0, <1>2 DEF Plug
<1>3. CASE ~\E b \in Boxes : Plug(n, b)
  <2>1. plugs' = plugs
    BY <1>1, <1>3 DEF Move, Unplug, Scale, PreferredScale, Configure, Closed
  <2> QED BY <2>1
<1> QED BY <1>2, <1>3

\* Outputs are as plugged in as they were, and no frame is new.
LEMMA OnceStays ==
  ASSUME Once, plugs' = plugs, \A n \in Names : out'[n].plugged => out[n].plugged,
         FramesOf(jobs') \subseteq InFlight
  PROVE  Once'
<1>1. \A f \in InFlight' : f.plug = 1
  BY DEF Once, InFlight
<1> QED BY <1>1 DEF Once

\* A client that asks is given frames for configured outputs.
LEMMA QueryFrames ==
  ASSUME TypeOK, NEW j \in Working, Query(j), NEW f \in InFlight', f \notin InFlight
  PROVE  \E n \in Configured : f = FrameFor(j, n)
<1> DEFINE k == Answered(j)
           frames == {FrameFor(j, n) : n \in Selected(j)}
<1>1. j \in Jobs /\ jobs' = Replace(jobs, j, Advance(k))
  BY DEF TypeOK, ClientsOK, Working, Query
<1>2. k.frames = frames
  BY <1>1, AnsweredSound
<1>3. Selected(j) \subseteq Configured
  BY DEF Selected
<1> HIDE DEF k, frames
<1>4. \A x \in Advance(k) : x.frames \subseteq frames
  <2>1. ASSUME NEW x \in Advance(k) PROVE x = k \/ x.frames = {}
    BY <2>1 DEF Advance, JobAt
  <2> QED BY <1>2, <2>1
<1>5. DOMAIN jobs' \subseteq (DOMAIN jobs) \cup Advance(k)
  BY <1>1, ReplaceSound
<1>6. f \in frames
  BY <1>4, <1>5 DEF InFlight, FramesOf
<1> QED BY <1>3, <1>6 DEF frames

LEMMA OnceKept ==
  ASSUME MaxPlugs <= 1, TypeOK, FramesSound, Once, [Next]_vars PROVE Once'
<1>0. /\ plugs \in [Names -> Nat] /\ NoSpanOverride /\ OutputsOK(out) /\ ClientsOK(jobs)
      /\ daemon \in Daemon /\ layoutDirty \in BOOLEAN
      /\ FramesOf(jobs) \subseteq InFlight
  BY DEF TypeOK, FramesSound, InFlight
<1>1. CASE CompositorEvent
  <2>1. jobs' = jobs
    BY <1>1, EventPhase
  <2>2. ASSUME NEW n \in Names PROVE plugs'[n] <= 1 /\ (out'[n].plugged => plugs'[n] = 1)
    <3>1. /\ plugs[n] \in Nat /\ plugs[n] <= 1 /\ (out[n].plugged => plugs[n] = 1)
      BY <1>0 DEF Once
    <3>2. plugs'[n] = plugs[n] \/ (plugs[n] < 1 /\ plugs'[n] = plugs[n] + 1)
      BY <1>1, EventPlugs
    <3>3. \/ plugs'[n] = plugs[n] + 1
          \/ plugs'[n] = plugs[n] /\ (out'[n].plugged => out[n].plugged)
      BY <1>1, EventKeeps DEF Fresh, OutputKept
    <3> QED BY <3>1, <3>2, <3>3
  <2>3. \A f \in InFlight' : f.plug = 1
    BY <1>0, <2>1 DEF Once, InFlight
  <2> QED BY <2>2, <2>3 DEF Once
<1>2. ASSUME GoodStep, plugs' = plugs, FramesOf(jobs') \subseteq InFlight PROVE Once'
  BY <1>2, OnceStays DEF GoodStep, SameOutput
<1>3. CASE UserRequest
  <2>1. plugs' = plugs
    BY <1>3 DEF UserRequest, SetFit, SetOutputFit, SetColor, ClearAll, ClearOutput, Reload, Serve
  <2> QED BY <1>0, <1>2, <1>3, <2>1, UserRequestGood
<1>4. CASE FirstSurfaces
  <2>1. plugs' = plugs /\ jobs' = jobs /\ out' = EnsureSurfaces(out)
    BY <1>4 DEF FirstSurfaces
  <2>2. \A n \in Names : out'[n].plugged = out[n].plugged
    BY <1>0, <2>1, EnsureSound
  <2> QED BY <1>0, <2>1, <2>2, OnceStays
<1>5. ASSUME NEW cfg \in UserConfigs, NEW r \in ReadableSets, Start(cfg, r) PROVE Once'
  <2> DEFINE d == Loaded(cfg, r)
  <2>1. plugs' = plugs /\ ReconcilePaint(d, out, jobs) /\ d \in Daemon
    BY <1>5, LoadedTypes DEF Start
  <2> HIDE DEF d
  <2>2. /\ FramesOf(jobs') \subseteq FramesOf(jobs)
        /\ \A n \in Names : SameOutput(out'[n], out[n])
    BY <1>0, <2>1, ReconcilePaintSound
  <2> QED BY <1>0, <2>1, <2>2, OnceStays DEF SameOutput
<1>6. CASE Reconcile
  <2> DEFINE os == EnsureSurfaces(out)
  <2>1. plugs' = plugs /\ ReconcilePaint(daemon, os, jobs)
    BY <1>6 DEF Reconcile
  <2>2. OutputsOK(os) /\ \A n \in Names : os[n].plugged = out[n].plugged
    BY <1>0, EnsureSound
  <2> HIDE DEF os
  <2>3. /\ FramesOf(jobs') \subseteq FramesOf(jobs)
        /\ \A n \in Names : SameOutput(out'[n], os[n])
    BY <1>0, <2>1, <2>2, ReconcilePaintSound
  <2> QED BY <1>0, <2>1, <2>2, <2>3, OnceStays DEF SameOutput
<1>7. ASSUME NEW cmd \in ImgCommands, StartImg(cmd) PROVE Once'
  <2>1. ImgJob(cmd).frames = {}
    BY ImgJobType
  <2>2. DOMAIN jobs' = (DOMAIN jobs) \cup {ImgJob(cmd)} /\ plugs' = plugs /\ out' = out
    BY <1>7, BagAdd DEF StartImg
  <2>3. FramesOf(jobs') \subseteq InFlight
    BY <2>1, <2>2 DEF FramesOf, InFlight
  <2> QED BY <2>2, <2>3, OnceStays
<1>8. CASE ClientFault
  <2>1. plugs' = plugs /\ out' = out
    BY <1>8 DEF ClientFault, Fail, Die
  <2>2. FramesOf(jobs') \subseteq InFlight
    BY <1>8, ClientFaultFrames
  <2> QED BY <2>1, <2>2, OnceStays
<1>9. CASE ClientRequest
  <2>1. PICK j \in Working :
          \/ Query(j)
          \/ \E f \in j.frames :
               \/ SendRefused(j, f)
               \/ SendSuperseded(j, f)
               \/ \E ok \in Replies : SendApplied(j, f, ok)
    BY <1>9 DEF ClientRequest
  <2>2. plugs' = plugs
    BY <2>1 DEF Query, SendRefused, SendSuperseded, SendApplied, Serve
  <2>3. CASE Query(j)
    <3>1. out' = out
      BY <2>3 DEF Query
    <3>2. ASSUME NEW f \in InFlight' PROVE f.plug = 1
      <4>1. CASE f \in InFlight
        BY <4>1 DEF Once
      <4>2. CASE f \notin InFlight
        <5>1. \E n \in Configured : f = FrameFor(j, n)
          BY <2>3, <4>2, QueryFrames
        <5>2. PICK n \in Configured : f = FrameFor(j, n)
          BY <5>1
        <5>3. n \in Names /\ out[n].plugged
          BY <1>0 DEF Configured, OutputsOK
        <5> QED BY <5>2, <5>3 DEF FrameFor, Once
      <4> QED BY <4>1, <4>2
    <3> QED BY <2>2, <3>1, <3>2 DEF Once
  <2>4. ASSUME NEW f \in j.frames, SendRefused(j, f) \/ SendSuperseded(j, f) PROVE Once'
    BY <1>0, <1>2, <2>2, <2>4, SendGood
  <2>5. ASSUME NEW f \in j.frames, NEW ok \in Replies, SendApplied(j, f, ok) PROVE Once'
    <3>1. ok \in BOOLEAN
      BY DEF Replies
    <3> QED BY <1>0, <1>2, <2>2, <2>5, <3>1, AppliedGood
  <2> QED BY <2>1, <2>3, <2>4, <2>5
<1>10. CASE NoRequest \/ Wake \/ Boot \/ UNCHANGED vars
  BY <1>0, <1>10, OnceStays DEF NoRequest, Wake, Boot, vars
<1>11. CASE Stop
  <2>1. plugs' = plugs /\ jobs' = jobs /\ \A n \in Names : ~out'[n].plugged
    BY <1>11 DEF Stop, Unplugged
  <2> QED BY <1>0, <2>1, OnceStays
<1> QED BY <1>1, <1>3, <1>4, <1>5, <1>6, <1>7, <1>8, <1>9, <1>10, <1>11 DEF Next, Loop

\* A repaint adds helpers, and clients go on with the stages they have.
LEMMA AdvanceNames ==
  ASSUME NEW j \in Jobs, Naming(j), NEW k \in Advance(j) PROVE Naming(k)
<1>1. CASE k = j
  BY <1>1
<1>2. CASE k = JobAt(Stage("repaint", j.fallback, j.names, {}), j.stages, j.fallback)
  BY <1>2 DEF JobAt, Stage, Naming
<1>3. CASE /\ k = JobAt(Head(j.stages), Tail(j.stages), j.fallback)
           /\ j.stages # << >>
  <2> DEFINE s == j.stages
             t == Tail(s)
  <2>1. s \in Seq(Stages) /\ s # << >>
    BY <1>3, JobParts
  <2> HIDE DEF s
  <2>2. Len(s) \in Nat /\ Len(s) > 0 /\ DOMAIN s = 1 .. Len(s)
    BY <2>1
  <2>3. Head(s) = s[1] /\ 1 \in DOMAIN s
    BY <2>1, <2>2
  <2>4. \A i \in DOMAIN t : t[i] = s[i + 1] /\ i + 1 \in DOMAIN s
    BY <2>1, <2>2
  <2>5. \A i \in DOMAIN s : s[i].mode # "default"
    BY DEF s, Naming
  <2>6. k.mode = Head(s).mode /\ k.stages = t
    BY <1>3 DEF JobAt, s
  <2>7. k.mode # "default" /\ \A i \in DOMAIN t : t[i].mode # "default"
    BY <2>3, <2>4, <2>5, <2>6
  <2> HIDE DEF t
  <2> QED BY <2>6, <2>7 DEF Naming
<1> QED BY <1>1, <1>2, <1>3 DEF Advance

LEMMA ReplaceNames ==
  ASSUME AllNaming, NEW j \in Working, NEW k \in Jobs,
         k.mode = j.mode, k.stages = j.stages
  PROVE  \A x \in DOMAIN Replace(jobs, j, Advance(k)) : Naming(x)
<1>1. Naming(k)
  BY DEF AllNaming, Naming
<1>2. \A x \in Advance(k) : Naming(x)
  BY <1>1, AdvanceNames
<1> QED BY <1>2, ReplaceSound DEF AllNaming, Working

LEMMA SentNames ==
  ASSUME TypeOK, AllNaming, NEW j \in Working, NEW f \in j.frames, NEW ok \in BOOLEAN
  PROVE  \A x \in DOMAIN Replace(jobs, j, Advance(Sent(j, f, ok))) : Naming(x)
<1> DEFINE failed == j.failed \/ ~ok
           k == Sent(j, f, ok)
<1>1. j \in Jobs /\ j.frames \in SUBSET Frames /\ j.failed \in BOOLEAN
  BY JobParts DEF TypeOK, ClientsOK, Working
<1>2. k = [j EXCEPT !.frames = j.frames \ {f}, !.failed = failed]
  BY DEF Sent
<1>3. failed \in BOOLEAN
  OBVIOUS
<1> HIDE DEF failed, k
<1>4. k \in Jobs /\ k.mode = j.mode /\ k.stages = j.stages
  BY <1>1, <1>2, <1>3 DEF Jobs
<1> QED BY <1>4, ReplaceNames DEF k

LEMMA PaintNames ==
  ASSUME NEW d, NEW os, NEW js, \A j \in DOMAIN js : Naming(j), ReconcilePaint(d, os, js)
  PROVE  AllNaming'
<1> DEFINE due == Due(SpreadSpan(d, os, layoutDirty))
<1>1. jobs' = js (+) SetToBag(Helpers(d, due))
  BY DEF ReconcilePaint
<1> HIDE DEF due
<1>2. DOMAIN jobs' = (DOMAIN js) \cup Helpers(d, due)
  BY <1>1, BagAdd
<1>3. ASSUME NEW j \in Helpers(d, due) PROVE Naming(j)
  <2>1. PICK p, names : j = Helper(p, names)
    BY DEF Helpers
  <2>2. j.mode = "repaint" /\ j.stages = << >>
    BY <2>1 DEF Helper, JobAt, Stage
  <2> QED BY <2>2 DEF Naming
<1> QED BY <1>2, <1>3 DEF AllNaming, Working

\* A command that names its outputs has no stage for a default image.
LEMMA ImgNames ==
  ASSUME NEW cmd \in ImgCommands, cmd.default = Unset PROVE Naming(ImgJob(cmd))
<1> DEFINE over == cmd.overrides
           stage(i) == Stage("override", over[i].path, {over[i].name}, {})
           s == [i \in DOMAIN over |-> stage(i)]
           t == Tail(s)
           N == Len(over)
<1>1. over \in Seq([name : Names, path : Paths]) /\ over # << >>
  BY ImgAssumption
<1>2. N \in Nat /\ N > 0 /\ DOMAIN over = 1 .. N
  BY <1>1
<1>3. \A i \in DOMAIN over : s[i].mode = "override"
  BY DEF Stage
<1>4. ImgStages(cmd) = << >> \o s
  BY DEF ImgStages
<1> HIDE DEF stage, over, N
<1>5. s \in Seq({s[i] : i \in DOMAIN over}) /\ Len(s) = N /\ DOMAIN s = 1 .. N
  BY <1>2
<1> HIDE DEF s
<1>6. ImgStages(cmd) = s
  BY <1>4, <1>5
<1>7. Head(s) = s[1] /\ \A i \in DOMAIN t : t[i] = s[i + 1] /\ i + 1 \in 1 .. N
  BY <1>2, <1>5
<1>8. Head(s).mode = "override" /\ \A i \in DOMAIN t : t[i].mode = "override"
  BY <1>2, <1>3, <1>7
<1> HIDE DEF t
<1>9. ImgJob(cmd) = JobAt(Head(s), t, cmd.default)
  BY <1>6 DEF ImgJob, t
<1> QED BY <1>8, <1>9 DEF JobAt, Naming

\* What a request of the user does to clients is to spawn helpers.
LEMMA UserRepaints ==
  ASSUME UserRequest
  PROVE  jobs' = jobs \/ \E d, os : ReconcilePaint(d, os, jobs)
<1> DEFINE Repaints == jobs' = jobs \/ \E d, os : ReconcilePaint(d, os, jobs)
<1>1. ASSUME NEW d, NEW c, NEW g, RepaintAfterChange(d, c, g) PROVE Repaints
  BY <1>1 DEF RepaintAfterChange
<1>2. ASSUME NEW d, NEW n, RepaintAfterFit(d, n) PROVE Repaints
  BY <1>2 DEF RepaintAfterFit, NoRepaint
<1>3. ASSUME NoRepaint PROVE Repaints
  BY <1>3 DEF NoRepaint
<1>4. ASSUME NEW d, NEW os, ReconcilePaint(d, os, jobs) PROVE Repaints
  BY <1>4
<1> HIDE DEF Repaints
<1>5. ASSUME NEW f \in UserFits, SetFit(f) PROVE Repaints
  BY <1>1, <1>3, <1>5 DEF SetFit
<1>6. ASSUME NEW f \in UserFits, NEW n \in Names, SetOutputFit(n, f) PROVE Repaints
  BY <1>2, <1>6 DEF SetOutputFit
<1>7. ASSUME NEW c \in UserColors, SetColor(c) PROVE Repaints
  BY <1>1, <1>3, <1>7 DEF SetColor
<1>8. ASSUME NEW flags \in UserClears, ClearAll(flags) PROVE Repaints
  BY <1>1, <1>3, <1>4, <1>8 DEF ClearAll
<1>9. ASSUME NEW flags \in UserClears, NEW n \in Names, ClearOutput(flags, n) PROVE Repaints
  BY <1>2, <1>4, <1>9 DEF ClearOutput
<1>10. ASSUME NEW cfg \in UserConfigs, NEW r1 \in ReadableSets, NEW r2 \in ReadableSets,
              Reload(cfg, r1, r2)
       PROVE  Repaints
  BY <1>4, <1>10 DEF Reload
<1>11. Repaints
  BY <1>5, <1>6, <1>7, <1>8, <1>9, <1>10 DEF UserRequest
<1> QED BY <1>11 DEF Repaints

LEMMA NamesKept ==
  ASSUME OutputsNamed, TypeOK, AllNaming, [Next]_vars PROVE AllNaming'
<1>0. \A j \in DOMAIN jobs : Naming(j) /\ j \in Jobs
  BY DEF AllNaming, Working, TypeOK, ClientsOK
<1>1. ASSUME jobs' = jobs PROVE AllNaming'
  BY <1>1 DEF AllNaming, Working
<1>2. ASSUME NEW j \in Working, NEW f \in j.frames, NEW ok \in BOOLEAN,
             jobs' = Replace(jobs, j, Advance(Sent(j, f, ok)))
      PROVE  AllNaming'
  BY <1>2, SentNames DEF AllNaming, Working
<1>3. ASSUME NEW d, NEW os, ReconcilePaint(d, os, jobs) PROVE AllNaming'
  BY <1>0, <1>3, PaintNames
<1>4. CASE CompositorEvent
  BY <1>1, <1>4, EventPhase
<1>5. CASE Loop
  BY <1>1, <1>3, <1>5 DEF Loop, FirstSurfaces, Start, Reconcile, NoRequest
<1>6. CASE UserRequest
  <2>1. jobs' = jobs \/ \E d, os : ReconcilePaint(d, os, jobs)
    BY <1>6, UserRepaints
  <2> QED BY <1>1, <1>3, <2>1
<1>7. ASSUME NEW cmd \in ImgCommands, StartImg(cmd) PROVE AllNaming'
  <2>1. DOMAIN jobs' = (DOMAIN jobs) \cup {ImgJob(cmd)}
    BY <1>7, BagAdd DEF StartImg
  <2>2. Naming(ImgJob(cmd))
    BY ImgNames DEF OutputsNamed
  <2> QED BY <1>0, <2>1, <2>2 DEF AllNaming, Working
<1>8. ASSUME NEW j \in Working, Query(j) PROVE AllNaming'
  <2> DEFINE k == Answered(j)
  <2>1. j \in Jobs /\ jobs' = Replace(jobs, j, Advance(k))
    BY <1>0, <1>8 DEF Query, Working
  <2>2. k \in Jobs /\ k.mode = j.mode /\ k.stages = j.stages
    BY <2>1, AnsweredSound
  <2> HIDE DEF k
  <2> QED BY <2>1, <2>2, ReplaceNames DEF AllNaming, Working
<1>9. ASSUME NEW j \in Working, NEW f \in j.frames,
             SendRefused(j, f) \/ SendSuperseded(j, f)
      PROVE  AllNaming'
  <2>1. PICK ok \in BOOLEAN : jobs' = Replace(jobs, j, Advance(Sent(j, f, ok)))
    <3>1. CASE SendRefused(j, f)
      BY <3>1 DEF SendRefused
    <3>2. CASE SendSuperseded(j, f)
      BY <3>2 DEF SendSuperseded, Replies
    <3> QED BY <1>9, <3>1, <3>2
  <2> QED BY <1>2, <2>1
<1>10. ASSUME NEW j \in Working, NEW f \in j.frames, NEW ok \in Replies,
              SendApplied(j, f, ok)
       PROVE  AllNaming'
  <2> DEFINE js == Replace(jobs, j, Advance(Sent(j, f, ok)))
             d == SetPalette(Remembered(daemon, j.mode, f.name, j.path), f.name, j.path)
             os == MarkDirty([out EXCEPT ![f.name] = Attached(out[f.name], f, j.mode)],
                             {f.name})
  <2>1. ok \in BOOLEAN
    BY DEF Replies
  <2>2. jobs' = js \/ ReconcilePaint(d, os, js)
    BY <1>10 DEF SendApplied
  <2>3. \A x \in DOMAIN js : Naming(x)
    BY <2>1, SentNames
  <2> HIDE DEF d, os
  <2>4. CASE jobs' = js
    BY <1>2, <2>1, <2>4
  <2> HIDE DEF js
  <2>5. CASE ReconcilePaint(d, os, js)
    BY <2>3, <2>5, PaintNames
  <2> QED BY <2>2, <2>4, <2>5
<1>11. CASE ClientRequest
  BY <1>8, <1>9, <1>10, <1>11 DEF ClientRequest
<1>12. CASE ClientFault
  <2>1. PICK j \in Working : Fail(j) \/ Die(j)
    BY <1>12 DEF ClientFault
  <2>2. CASE Die(j)
    <3>1. DOMAIN jobs' \subseteq DOMAIN jobs
      BY <2>2, BagRemove DEF Die
    <3> QED BY <1>0, <3>1 DEF AllNaming, Working
  <2>3. CASE jobs' = Replace(jobs, j, Advance([j EXCEPT !.asked = TRUE, !.failed = TRUE]))
    <3> DEFINE k == [j EXCEPT !.asked = TRUE, !.failed = TRUE]
    <3>1. k \in Jobs /\ k.mode = j.mode /\ k.stages = j.stages
      BY <1>0 DEF Jobs, Working
    <3>2. jobs' = Replace(jobs, j, Advance(k))
      BY <2>3
    <3> HIDE DEF k
    <3> QED BY <3>1, <3>2, ReplaceNames DEF AllNaming, Working
  <2>4. CASE \E f \in j.frames : jobs' = Replace(jobs, j, Advance(Sent(j, f, FALSE)))
    BY <1>2, <2>4
  <2> QED BY <2>1, <2>2, <2>3, <2>4 DEF Fail
<1>13. CASE Wake \/ Stop \/ Boot \/ UNCHANGED vars
  BY <1>1, <1>13 DEF Wake, Stop, Boot, vars
<1> QED BY <1>4, <1>5, <1>6, <1>7, <1>11, <1>12, <1>13 DEF Next

\* A job has a default image's frames only if a command gave it one.
LEMMA HypothesesHold ==
  ASSUME OneOutputOnly \/ OutputsNamed, OutputsOK(out), Once,
         OutputsNamed => AllNaming,
         \A f \in InFlight : f.name \in Names
  PROVE  NoneFromBefore /\ DefaultsReach
<1>1. NoneFromBefore
  BY DEF NoneFromBefore, Once, SamePlug, OutputsOK
<1>2. DefaultsReach
  <2>1. CASE OneOutputOnly
    BY <2>1 DEF OneOutputOnly, DefaultsReach, Configured
  <2>2. CASE OutputsNamed
    BY <2>2 DEF AllNaming, Naming, DefaultsReach
  <2> QED BY <2>1, <2>2
<1> QED BY <1>1, <1>2

(* Nothing is forgotten, whatever happens, when no output is plugged in     *)
(* twice and a command reaches all outputs it is about: because it names    *)
(* them, or because there is but one.  The instances that the runs requests *)
(* and span check are of this kind.                                         *)
THEOREM NothingForgottenOncePlugged ==
  ASSUME Reliable, MaxPlugs <= 1, OneOutputOnly \/ OutputsNamed
  PROVE  Spec => []ShownOrComing
<1> DEFINE Plain == OutputsNamed => AllNaming
<1>1. Init => Once /\ Plain
  <2> SUFFICES ASSUME Init PROVE Once /\ Plain
    OBVIOUS
  <2>1. jobs = EmptyBag /\ \A n \in Names : plugs[n] = 0 /\ out[n] = Unplugged
    BY DEF Init
  <2>2. Working = {} /\ InFlight = {}
    BY <2>1 DEF Working, InFlight, FramesOf, EmptyBag, SetToBag
  <2>3. Unplugged.plugged = FALSE
    BY DEF Unplugged
  <2> QED BY <2>1, <2>2, <2>3 DEF Once, AllNaming
<1>2. TypeOK /\ FramesSound /\ Once /\ Plain /\ [Next]_vars => Once' /\ Plain'
  <2>1. TypeOK /\ FramesSound /\ Once /\ [Next]_vars => Once'
    BY OnceKept
  <2>2. TypeOK /\ Plain /\ [Next]_vars => Plain'
    BY NamesKept DEF OutputsNamed
  <2> QED BY <2>1, <2>2
<1>3. TypeOK /\ Once /\ Plain => NoneFromBefore /\ DefaultsReach
  BY HypothesesHold, FrameParts DEF TypeOK
<1> HIDE DEF Plain
<1>4. Spec => [](NoneFromBefore /\ DefaultsReach)
  BY <1>1, <1>2, <1>3, TypeCorrect, FramesAreSound, PTL DEF Spec
<1> QED BY <1>4, NothingForgotten, PTL

=============================================================================
