--------------------------- MODULE SweetbgdProofs ---------------------------
(***************************************************************************)
(* Proofs about Sweetbgd, for every value of its constants: its type       *)
(* invariant, and that a prepared frame carrying an output's current       *)
(* generation is exactly what the daemon would render now.                 *)
(***************************************************************************)
EXTENDS Sweetbgd, SequenceTheorems, TLAPS

-----------------------------------------------------------------------------
(* Bags of client processes.                                               *)

\* Adding one copy of each element of a set.
LEMMA BagAdd ==
  ASSUME NEW B, NEW S
  PROVE  /\ DOMAIN (B (+) SetToBag(S)) = (DOMAIN B) \cup S
         /\ IsABag(B) => IsABag(B (+) SetToBag(S))
<1> DEFINE C == B (+) SetToBag(S)
<1>1. DOMAIN C = (DOMAIN B) \cup S
  BY DEF (+), SetToBag
<1>2. ASSUME IsABag(B) PROVE IsABag(C)
  <2> SUFFICES ASSUME NEW e \in DOMAIN C PROVE C[e] \in {n \in Nat : n > 0}
    BY <1>1 DEF IsABag, (+)
  <2>1. e \in DOMAIN B => B[e] \in Nat /\ B[e] > 0
    BY <1>2 DEF IsABag
  <2> QED BY <1>1, <2>1 DEF (+), SetToBag
<1> QED BY <1>1, <1>2

\* Removing one copy of each element of a set.
LEMMA BagRemove ==
  ASSUME NEW B, NEW S
  PROVE  /\ DOMAIN (B (-) SetToBag(S)) \subseteq DOMAIN B
         /\ IsABag(B) => IsABag(B (-) SetToBag(S))
<1>1. DOMAIN (B (-) SetToBag(S)) \subseteq DOMAIN B
  BY DEF (-), SetToBag
<1>2. ASSUME IsABag(B) PROVE IsABag(B (-) SetToBag(S))
  <2>1. \A e \in DOMAIN B : B[e] \in Nat
    BY <1>2 DEF IsABag
  <2> QED BY <2>1 DEF IsABag, (-), SetToBag
<1> QED BY <1>1, <1>2

\* A step of one client leaves the others and what became of it.
LEMMA ReplaceSound ==
  ASSUME NEW js, NEW j, NEW new
  PROVE  /\ DOMAIN Replace(js, j, new) \subseteq (DOMAIN js) \cup new
         /\ IsABag(js) => IsABag(Replace(js, j, new))
<1> DEFINE rest == js (-) SetToBag({j})
<1>1. DOMAIN rest \subseteq DOMAIN js /\ (IsABag(js) => IsABag(rest))
  BY BagRemove
<1>2. /\ DOMAIN (rest (+) SetToBag(new)) = (DOMAIN rest) \cup new
      /\ IsABag(rest) => IsABag(rest (+) SetToBag(new))
  BY BagAdd
<1> HIDE DEF rest
<1>3. Replace(js, j, new) = rest (+) SetToBag(new)
  BY DEF Replace, rest
<1> QED BY <1>1, <1>2, <1>3

-----------------------------------------------------------------------------
(* Types of the operators.                                                 *)

\* The strings that stand for a missing value are none of the data.
LEMMA Distinct ==
  /\ Blank # Unset /\ Unset \notin Fits
  /\ Unset \notin Paths /\ Blank \notin Paths
BY DataAssumption DEF Blank, Unset, Fits

\* Buffer sizes are natural numbers.
LEMMA BufferSizeNat == ASSUME NEW o \in Output PROVE BufferSize(o) \in Nat
<1>1. o.width \in Nat /\ o.frac \in Nat /\ o.scale \in Nat
  BY DEF Output
<1>2. \A x, y \in Nat : x * y \in Nat
  OBVIOUS
<1>3. \A x \in Nat : (x + 60) \div 120 \in Nat
  OBVIOUS
<1>4. (IF o.scale < 1 THEN 1 ELSE o.scale) \in Nat
  BY <1>1
<1> QED BY <1>1, <1>2, <1>3, <1>4 DEF BufferSize

\* A layout maps some of the outputs to boxes.
LEMMA LayoutType ==
  ASSUME NEW os \in [Names -> Output] PROVE Layout(os) \in Spans
<1> DEFINE S == {m \in Names : os[m].configured}
<1>1. Layout(os) \in [S -> Boxes \cup {Unset}]
  BY DEF Layout, Output
<1> QED BY <1>1 DEF Spans

\* The constant pictures are pictures.
LEMMA PictureTypes ==
  /\ NoSpan \in Spans /\ NoFill \in BOOLEAN \X (Colors \cup {Unset})
  /\ Nothing \in Pictures
  /\ \A c \in Colors : Background(c) \in Pictures
<1>1. NoSpan \in [{} -> Boxes \cup {Unset}]
  BY DEF NoSpan
<1>2. NoSpan \in Spans
  BY <1>1 DEF Spans
<1> QED BY <1>2 DEF NoFill, Nothing, Background, Pictures, Image

\* What the daemon remembers gives every output a path and a fit.
LEMMA EffectiveTypes ==
  ASSUME NEW d \in Daemon, NEW n \in Names
  PROVE  /\ EffPath(d, n) \in Paths \cup {Blank}
         /\ EffFit(d, n) \in Fits
         /\ Fill(d) \in BOOLEAN \X (Colors \cup {Unset})
<1>1. /\ d.over[n] \in Override /\ d.path \in Paths \cup {Unset} /\ d.fit \in Fits
      /\ d.auto \in BOOLEAN /\ d.color \in Colors
  BY DEF Daemon
<1>2. /\ d.over[n].path \in Image
      /\ d.over[n].fit \in Fits \cup {Unset}
  BY <1>1 DEF Override
<1> QED BY <1>1, <1>2 DEF EffPath, EffFit, Fill, Image

\* A rendered picture is a picture.
LEMMA RenderType ==
  ASSUME NEW p \in Paths, NEW d \in Daemon, NEW os \in [Names -> Output],
         NEW n \in Names
  PROVE  Render(p, EffFit(d, n), d, os, n) \in Pictures
<1>1. BufferSize(os[n]) \in Nat
  BY BufferSizeNat
<1> QED
  BY <1>1, LayoutType, PictureTypes, EffectiveTypes DEF Render, Pictures, Image

\* The operations on the override table keep its type.
LEMMA TableTypes ==
  ASSUME NEW over \in [Names -> Override]
  PROVE  /\ Compact(over) \in [Names -> Override]
         /\ WithoutImages(over) \in [Names -> Override]
         /\ WithoutFits(over) \in [Names -> Override]
         /\ \A n \in Names : /\ WithoutImage(over, n) \in [Names -> Override]
                             /\ WithoutFit(over, n) \in [Names -> Override]
<1>1. NoOverride \in Override
  BY DEF NoOverride, Override, Image
<1>2. ASSUME NEW o \in [Names -> Override] PROVE Compact(o) \in [Names -> Override]
  BY <1>1, <1>2 DEF Compact
<1>3. \A o \in Override : /\ [o EXCEPT !.path = Unset] \in Override
                          /\ [o EXCEPT !.fit = Unset] \in Override
  BY DEF Override, Image
<1>4. [n \in Names |-> [over[n] EXCEPT !.path = Unset]] \in [Names -> Override]
  BY <1>3
<1>5. [n \in Names |-> [over[n] EXCEPT !.fit = Unset]] \in [Names -> Override]
  BY <1>3
<1>6. \A n \in Names : /\ [over EXCEPT ![n].path = Unset] \in [Names -> Override]
                       /\ [over EXCEPT ![n].fit = Unset] \in [Names -> Override]
  BY <1>3
<1> QED BY <1>2, <1>4, <1>5, <1>6
       DEF WithoutImages, WithoutFits, WithoutImage, WithoutFit

\* A stage a job starts with makes a job.
LEMMA JobAtType ==
  ASSUME NEW s \in Stages, NEW rest \in Seq(Stages), NEW p \in Paths \cup {Unset}
  PROVE  JobAt(s, rest, p) \in Jobs
BY DEF JobAt, Stages, Jobs

\* A helper is a job without frames.
LEMMA HelperType ==
  ASSUME NEW p \in Paths, NEW names \in SUBSET Names
  PROVE  Helper(p, names) \in Jobs /\ Helper(p, names).frames = {}
<1>1. Stage("repaint", p, names, {}) \in Stages
  BY DEF Stage, Stages, Modes
<1>2. << >> \in Seq(Stages)
  OBVIOUS
<1> QED BY <1>1, <1>2, JobAtType DEF Helper, JobAt

\* The stages of a command: none is a helper's.
CommandStages == {s \in Stages : s.mode # "repaint"}

LEMMA ImgStagesType ==
  ASSUME NEW cmd \in ImgCommands
  PROVE  ImgStages(cmd) \in Seq(CommandStages) /\ ImgStages(cmd) # << >>
<1> DEFINE first == IF cmd.default # Unset
                    THEN <<Stage("default", cmd.default, Names, Overridden(cmd))>>
                    ELSE << >>
           later == [i \in DOMAIN cmd.overrides |->
                      Stage("override", cmd.overrides[i].path,
                            {cmd.overrides[i].name}, {})]
<1>1. /\ cmd.default \in Paths \cup {Unset}
      /\ cmd.overrides \in Seq([name : Names, path : Paths])
      /\ cmd.default # Unset \/ cmd.overrides # << >>
  BY ImgAssumption
<1>2. \A i \in DOMAIN cmd.overrides : /\ cmd.overrides[i].name \in Names
                                      /\ cmd.overrides[i].path \in Paths
  <2> DEFINE S == [name : Names, path : Paths]
             seq == cmd.overrides
  <2>0. seq \in Seq(S)
    BY <1>1
  <2> HIDE DEF S, seq
  <2>1. \A i \in DOMAIN seq : seq[i] \in S
    BY <2>0, ElementOfSeq, LenProperties
  <2> USE DEF S, seq
  <2> QED BY <2>1
<1>3. Overridden(cmd) \in SUBSET Names
  BY <1>2 DEF Overridden
<1>4. first \in Seq(CommandStages)
  <2>1. CASE cmd.default # Unset
    <3>1. Stage("default", cmd.default, Names, Overridden(cmd)) \in CommandStages
      BY <1>1, <1>3, <2>1 DEF Stage, Stages, Modes, CommandStages
    <3> QED BY <2>1, <3>1
  <2>2. CASE cmd.default = Unset
    BY <2>2
  <2> QED BY <2>1, <2>2
<1>5. later \in Seq(CommandStages) /\ Len(later) = Len(cmd.overrides)
  <2>1. \A i \in DOMAIN cmd.overrides : later[i] \in CommandStages
    BY <1>2 DEF Stage, Stages, Modes, CommandStages
  <2>2. DOMAIN cmd.overrides = 1 .. Len(cmd.overrides) /\ Len(cmd.overrides) \in Nat
    BY <1>1
  <2> DEFINE N == Len(cmd.overrides)
             stage(i) == Stage("override", cmd.overrides[i].path,
                               {cmd.overrides[i].name}, {})
  <2>3. later = [i \in 1 .. N |-> stage(i)]
    BY <2>2
  <2>4. \A i \in 1 .. N : stage(i) \in CommandStages
    BY <2>1, <2>2
  <2> HIDE DEF stage, later
  <2>5. [i \in 1 .. N |-> stage(i)] \in Seq(CommandStages)
    BY <2>2, <2>4, IsASeq
  <2> QED BY <2>2, <2>3, <2>5, LenProperties
<1>6. ImgStages(cmd) = first \o later
  BY DEF ImgStages
<1>7. first # << >> \/ later # << >>
  <2>1. CASE cmd.default # Unset
    BY <2>1
  <2>2. CASE cmd.overrides # << >>
    <3>1. Len(later) # 0
      BY <1>1, <1>5, <2>2, EmptySeq
    <3> HIDE DEF later
    <3> QED BY <3>1, EmptySeq
  <2> QED BY <1>1, <2>1, <2>2
<1> HIDE DEF first, later
<1> QED BY <1>4, <1>5, <1>6, <1>7

LEMMA CommandStagesAre ==
  ASSUME NEW s \in Seq(CommandStages)
  PROVE  s \in Seq(Stages) /\ \A i \in DOMAIN s : s[i].mode # "repaint"
<1>1. Len(s) \in Nat /\ s \in [1 .. Len(s) -> CommandStages]
  OBVIOUS
<1>2. CommandStages \subseteq Stages /\ \A x \in CommandStages : x.mode # "repaint"
  BY DEF CommandStages
<1> HIDE DEF CommandStages
<1>3. s = [i \in 1 .. Len(s) |-> s[i]] /\ \A i \in 1 .. Len(s) : s[i] \in CommandStages
  BY <1>1
<1>4. s \in Seq(Stages)
  BY <1>1, <1>2
<1> QED BY <1>1, <1>2, <1>3, <1>4

LEMMA ImgJobType ==
  ASSUME NEW cmd \in ImgCommands PROVE ImgJob(cmd) \in Jobs /\ ImgJob(cmd).frames = {}
<1> DEFINE s == ImgStages(cmd)
<1>1. s \in Seq(CommandStages) /\ s # << >>
  BY ImgStagesType
<1>2. cmd.default \in Paths \cup {Unset}
  BY ImgAssumption
<1>3. ImgJob(cmd) = JobAt(Head(s), Tail(s), cmd.default)
  BY DEF ImgJob
<1> HIDE DEF s
<1>4. s \in Seq(Stages)
  BY <1>1, CommandStagesAre
<1>5. Head(s) \in Stages /\ Tail(s) \in Seq(Stages)
  BY <1>1, <1>4
<1>6. JobAt(Head(s), Tail(s), cmd.default) \in Jobs
  BY <1>2, <1>5, JobAtType
<1>7. JobAt(Head(s), Tail(s), cmd.default).frames = {}
  BY DEF JobAt
<1> QED BY <1>3, <1>6, <1>7

\* What becomes of a client is a client with no frames it did not have.
LEMMA AdvanceSound ==
  ASSUME NEW j \in Jobs, NEW k \in Advance(j)
  PROVE  k \in Jobs /\ k.frames \subseteq j.frames
<1>1. CASE k = j
  BY <1>1
<1>2. CASE /\ k = JobAt(Stage("repaint", j.fallback, j.names, {}), j.stages, j.fallback)
           /\ j.fallback # Unset
  <2>1. /\ j.fallback \in Paths /\ j.names \in SUBSET Names
        /\ j.stages \in Seq(Stages)
    BY <1>2 DEF Jobs
  <2>2. Stage("repaint", j.fallback, j.names, {}) \in Stages
    BY <2>1 DEF Stage, Stages, Modes
  <2> QED BY <1>2, <2>1, <2>2, JobAtType DEF JobAt
<1>3. CASE /\ k = JobAt(Head(j.stages), Tail(j.stages), j.fallback)
           /\ j.stages # << >>
  <2>1. j.fallback \in Paths \cup {Unset} /\ j.stages \in Seq(Stages)
    BY DEF Jobs
  <2>2. Head(j.stages) \in Stages /\ Tail(j.stages) \in Seq(Stages)
    BY <1>3, <2>1
  <2> QED BY <1>3, <2>1, <2>2, JobAtType DEF JobAt
<1> QED BY <1>1, <1>2, <1>3 DEF Advance

-----------------------------------------------------------------------------
(* What a reconcile does to one output.                                    *)

\* Marks and generations change nothing else of an output.
LEMMA MarkTypes ==
  ASSUME NEW os \in [Names -> Output], NEW S
  PROVE  /\ MarkDirty(os, S) \in [Names -> Output]
         /\ NextGeneration(os, S) \in [Names -> Output]
         /\ \A n \in Names :
              /\ MarkDirty(os, S)[n] = [os[n] EXCEPT !.dirty = @ \/ n \in S]
              /\ NextGeneration(os, S)[n]
                   = [os[n] EXCEPT !.gen = IF n \in S THEN @ + 1 ELSE @]
<1>1. ASSUME NEW o \in Output, NEW b \in BOOLEAN
      PROVE  /\ [o EXCEPT !.dirty = @ \/ b] \in Output
             /\ [o EXCEPT !.gen = IF b THEN @ + 1 ELSE @] \in Output
  <2>1. o.dirty \in BOOLEAN /\ o.gen \in Nat
    BY DEF Output
  <2>2. (o.dirty \/ b) \in BOOLEAN
    BY <2>1
  <2>3. (IF b THEN o.gen + 1 ELSE o.gen) \in Nat
    BY <2>1
  <2> QED BY <2>2, <2>3 DEF Output
<1>2. \A n \in Names : (n \in S) \in BOOLEAN
  OBVIOUS
<1>3. \A n \in Names : /\ MarkDirty(os, S)[n] = [os[n] EXCEPT !.dirty = @ \/ n \in S]
                       /\ NextGeneration(os, S)[n]
                            = [os[n] EXCEPT !.gen = IF n \in S THEN @ + 1 ELSE @]
  BY DEF MarkDirty, NextGeneration
<1>4. \A n \in Names : /\ [os[n] EXCEPT !.dirty = @ \/ n \in S] \in Output
                       /\ [os[n] EXCEPT !.gen = IF n \in S THEN @ + 1 ELSE @] \in Output
  BY <1>1, <1>2
<1>5. MarkDirty(os, S) \in [Names -> Output]
  BY <1>4 DEF MarkDirty
<1>6. NextGeneration(os, S) \in [Names -> Output]
  BY <1>4 DEF NextGeneration
<1> QED BY <1>3, <1>5, <1>6

\* What of an output the daemon's own repaints leave alone.
SameOutput(r, o) ==
  /\ r.plugged = o.plugged /\ r.live = o.live /\ r.configured = o.configured
  /\ r.width = o.width /\ r.frac = o.frac /\ r.scale = o.scale /\ r.box = o.box

\* A reconcile keeps what an output is, and gives every configured output
\* that is dirty, or that span makes dirty, a new generation.
LEMMA ReconciledSound ==
  ASSUME NEW d \in Daemon, NEW os \in [Names -> Output], NEW moved \in BOOLEAN,
         NEW faults, NEW n \in Names
  PROVE  LET r == Reconciled(d, os, moved, faults)[n]
         IN /\ r \in Output /\ SameOutput(r, os[n]) /\ r.moved = FALSE
            /\ os[n].gen <= r.gen
            /\ r.configured /\ r.gen = os[n].gen =>
                 ~os[n].dirty /\ ~(d.fit = "span" /\ SpanDue(os, moved))
<1> DEFINE due == SpanDue(os, moved)
           spread == os[n].dirty \/ (d.fit = "span" /\ due /\ os[n].configured)
           s == [os[n] EXCEPT !.moved = FALSE, !.dirty = spread]
           r == Reconciled(d, os, moved, faults)[n]
           again == Repainted(d, s, n, n \in faults)
<1>1. SpreadSpan(d, os, moved)[n] = s
  BY DEF SpreadSpan, SpanDue
<1>2. due \in BOOLEAN /\ spread \in BOOLEAN
  BY DEF SpanDue, Output
<1>3. r = IF s.configured /\ s.dirty THEN again ELSE s
  BY <1>1 DEF Reconciled, Due
<1>4. os[n].gen \in Nat
  BY DEF Output
<1> HIDE DEF spread, due
<1>5. /\ s \in Output /\ s.moved = FALSE /\ s.gen = os[n].gen
      /\ SameOutput(s, os[n]) /\ s.dirty = spread
  BY <1>2 DEF Output, SameOutput
<1> HIDE DEF s
<1>6. /\ again \in Output /\ again.moved = s.moved /\ again.gen = s.gen + 1
      /\ SameOutput(again, s)
  <2> DEFINE failed == n \in faults
             blank == EffPath(d, n) = Blank
             paint == ~failed /\ (blank \/ s.content = Nothing)
             content == IF paint THEN Background(d.color) ELSE s.content
             dirty == blank /\ failed
  <2>1. Background(d.color) \in Pictures
    BY PictureTypes DEF Daemon
  <2>2. s.gen + 1 \in Nat /\ content \in Pictures
    BY <1>5, <2>1 DEF Output
  <2>3. dirty \in BOOLEAN
    OBVIOUS
  <2>4. again = [s EXCEPT !.gen = s.gen + 1, !.dirty = dirty, !.content = content]
    BY DEF Repainted
  <2> HIDE DEF dirty, content, again
  <2> QED BY <1>5, <2>2, <2>3, <2>4 DEF Output, SameOutput
<1> HIDE DEF again, r
<1>7. r \in Output /\ r.moved = FALSE
  BY <1>3, <1>5, <1>6
<1>8. SameOutput(r, os[n])
  BY <1>3, <1>5, <1>6 DEF SameOutput
<1>9. os[n].gen <= r.gen
  BY <1>3, <1>4, <1>5, <1>6
<1>10. ASSUME r.configured, r.gen = os[n].gen PROVE ~spread
  BY <1>3, <1>4, <1>5, <1>6, <1>10
<1>11. ASSUME r.configured, ~spread PROVE ~os[n].dirty /\ ~(d.fit = "span" /\ due)
  BY <1>8, <1>11 DEF spread, SameOutput
<1> QED BY <1>7, <1>8, <1>9, <1>10, <1>11 DEF r, due

\* The helpers a reconcile spawns are jobs that have not asked yet.
LEMMA HelpersSound ==
  ASSUME NEW d \in Daemon, NEW due \in SUBSET Names, NEW j \in Helpers(d, due)
  PROVE  j \in Jobs /\ j.frames = {}
<1>1. PICK p \in {EffPath(d, n) : n \in due} \ {Blank} :
        j = Helper(p, {n \in due : EffPath(d, n) = p})
  BY DEF Helpers
<1>2. p \in Paths
  BY <1>1, EffectiveTypes
<1> QED BY <1>1, <1>2, HelperType

\* ReconcilePaint changes of the outputs only what a repaint changes, and
\* adds no frame to those on their way.
LEMMA ReconcilePaintSound ==
  ASSUME NEW d \in Daemon, NEW os, OutputsOK(os), NEW js, ClientsOK(js),
         layoutDirty \in BOOLEAN, ReconcilePaint(d, os, js)
  PROVE  /\ OutputsOK(out') /\ layoutDirty' = FALSE
         /\ ClientsOK(jobs') /\ FramesOf(jobs') \subseteq FramesOf(js)
         /\ \A n \in Names :
              /\ SameOutput(out'[n], os[n]) /\ os[n].gen <= out'[n].gen
              /\ out'[n].configured /\ out'[n].gen = os[n].gen =>
                   ~os[n].dirty /\ ~(d.fit = "span" /\ SpanDue(os, layoutDirty))
<1> DEFINE due == Due(SpreadSpan(d, os, layoutDirty))
<1>1. PICK faults \in PaintFaults : out' = Reconciled(d, os, layoutDirty, faults)
  BY DEF ReconcilePaint
<1>2. os \in [Names -> Output]
  BY DEF OutputsOK
<1>3. \A n \in Names :
        /\ out'[n] \in Output
        /\ SameOutput(out'[n], os[n]) /\ os[n].gen <= out'[n].gen
        /\ out'[n].configured /\ out'[n].gen = os[n].gen =>
             ~os[n].dirty /\ ~(d.fit = "span" /\ SpanDue(os, layoutDirty))
  BY <1>1, <1>2, ReconciledSound
<1>4. out' = [n \in Names |-> out'[n]]
  BY <1>1 DEF Reconciled
<1>5. OutputsOK(out')
  BY <1>3, <1>4 DEF OutputsOK, SameOutput
<1>6. due \in SUBSET Names
  BY DEF Due
<1>7. jobs' = js (+) SetToBag(Helpers(d, due)) /\ layoutDirty' = FALSE
  BY DEF ReconcilePaint
<1> HIDE DEF due
<1>8. \A j \in Helpers(d, due) : j \in Jobs /\ j.frames = {}
  BY <1>6, HelpersSound
<1>9. DOMAIN jobs' = (DOMAIN js) \cup Helpers(d, due) /\ IsABag(jobs')
  BY <1>7, BagAdd DEF ClientsOK
<1>10. ClientsOK(jobs') /\ FramesOf(jobs') \subseteq FramesOf(js)
  BY <1>8, <1>9 DEF ClientsOK, FramesOf
<1> QED BY <1>3, <1>5, <1>7, <1>10

\* Marking outputs keeps what they are.
LEMMA MarkSound ==
  ASSUME NEW os, OutputsOK(os), NEW S
  PROVE  /\ OutputsOK(MarkDirty(os, S)) /\ OutputsOK(NextGeneration(os, S))
         /\ \A n \in Names :
              /\ SameOutput(MarkDirty(os, S)[n], os[n])
              /\ MarkDirty(os, S)[n].gen = os[n].gen
              /\ n \in S => MarkDirty(os, S)[n].dirty
              /\ SameOutput(NextGeneration(os, S)[n], os[n])
              /\ os[n].gen <= NextGeneration(os, S)[n].gen
              /\ n \in S => os[n].gen < NextGeneration(os, S)[n].gen
<1> DEFINE md == MarkDirty(os, S)  ng == NextGeneration(os, S)
<1>1. os \in [Names -> Output] /\ \A n \in Names : os[n].gen \in Nat
  BY DEF OutputsOK, Output
<1>2. md \in [Names -> Output] /\ ng \in [Names -> Output]
  BY <1>1, MarkTypes
<1>3. ASSUME NEW n \in Names
      PROVE  /\ SameOutput(md[n], os[n]) /\ md[n].gen = os[n].gen
             /\ n \in S => md[n].dirty
  <2> DEFINE dirty == os[n].dirty \/ n \in S
  <2>1. md[n] = [os[n] EXCEPT !.dirty = dirty]
    BY DEF MarkDirty
  <2>2. n \in S => dirty
    OBVIOUS
  <2> HIDE DEF md, dirty
  <2> QED BY <1>1, <1>2, <2>1, <2>2 DEF SameOutput, Output
<1>4. ASSUME NEW n \in Names
      PROVE  /\ SameOutput(ng[n], os[n]) /\ os[n].gen <= ng[n].gen
             /\ n \in S => os[n].gen < ng[n].gen
  <2> DEFINE gen == IF n \in S THEN os[n].gen + 1 ELSE os[n].gen
  <2>1. ng[n] = [os[n] EXCEPT !.gen = gen]
    BY DEF NextGeneration
  <2>2. os[n].gen <= gen /\ (n \in S => os[n].gen < gen)
    BY <1>1
  <2> HIDE DEF ng, gen
  <2> QED BY <1>1, <1>2, <2>1, <2>2 DEF SameOutput, Output
<1>5. OutputsOK(md) /\ OutputsOK(ng)
  BY <1>2, <1>3, <1>4, Zenon DEF OutputsOK, SameOutput
<1> QED BY <1>3, <1>4, <1>5

-----------------------------------------------------------------------------
(* The type invariant, action by action.                                   *)

\* Changing one output to a legal one.
LEMMA OneOutput ==
  ASSUME OutputsOK(out), NEW n \in Names, NEW x \in Output,
         x.configured => x.live, x.live => x.plugged
  PROVE  OutputsOK([out EXCEPT ![n] = x])
BY DEF OutputsOK

LEMMA OutputParts ==
  ASSUME NEW o \in Output
  PROVE  /\ o.plugged \in BOOLEAN /\ o.live \in BOOLEAN
         /\ o.configured \in BOOLEAN /\ o.dirty \in BOOLEAN
         /\ o.moved \in BOOLEAN /\ o.content \in Pictures
         /\ o.width \in Nat /\ o.frac \in Nat /\ o.scale \in Nat
         /\ o.box \in Boxes \cup {Unset} /\ o.gen \in Nat /\ o.rank \in Nat
BY DEF Output

\* The states an output starts, and a surface starts and ends, in.
LEMMA NewOutputTypes ==
  /\ Unplugged \in Output
  /\ \A b \in Boxes, r \in Nat : NewOutput(b, r) \in Output
  /\ \A o \in Output : NewSurface(o) \in Output /\ ClosedSurface(o) \in Output
<1>1. Nothing \in Pictures
  BY PictureTypes
<1>2. Unplugged \in Output
  BY <1>1 DEF Unplugged, Output
<1>3. ASSUME NEW b \in Boxes, NEW r \in Nat PROVE NewOutput(b, r) \in Output
  BY <1>2 DEF NewOutput, Output
<1>4. ASSUME NEW o \in Output PROVE NewSurface(o) \in Output
  BY <1>1 DEF NewSurface, Output
<1>5. ASSUME NEW o \in Output PROVE ClosedSurface(o) \in Output
  BY <1>1 DEF ClosedSurface, Output
<1> QED BY <1>2, <1>3, <1>4, <1>5

\* The compositor's events, as the change of one output.
Moved(o, b) == [o EXCEPT !.box = b, !.moved = TRUE]
Scaled(o, s) == [o EXCEPT !.scale = s, !.dirty = TRUE]
Preferred(o, f) == [o EXCEPT !.frac = f, !.dirty = TRUE]
Sized(o, w, dirty) == [o EXCEPT !.dirty = dirty, !.width = w, !.configured = TRUE]

LEMMA EventOutput ==
  ASSUME TypeOK, NEW n \in Names
  PROVE  /\ \A b \in Boxes : Move(n, b) => out' = [out EXCEPT ![n] = Moved(out[n], b)]
         /\ \A s \in Scales : Scale(n, s) => out' = [out EXCEPT ![n] = Scaled(out[n], s)]
         /\ \A f \in Fractions :
              PreferredScale(n, f) => out' = [out EXCEPT ![n] = Preferred(out[n], f)]
         /\ \A w \in Widths : Configure(n, w) =>
              \E dirty \in BOOLEAN :
                /\ dirty = (out[n].dirty \/ out[n].width # w)
                /\ out' = [out EXCEPT ![n] = Sized(out[n], w, dirty)]
<1>1. out \in [Names -> Output]
  BY DEF TypeOK, OutputsOK
<1>2. \A b \in Boxes : Move(n, b) => out' = [out EXCEPT ![n] = Moved(out[n], b)]
  BY <1>1 DEF Move, Moved
<1>3. \A s \in Scales : Scale(n, s) => out' = [out EXCEPT ![n] = Scaled(out[n], s)]
  BY <1>1 DEF Scale, Scaled
<1>4. \A f \in Fractions :
        PreferredScale(n, f) => out' = [out EXCEPT ![n] = Preferred(out[n], f)]
  BY <1>1 DEF PreferredScale, Preferred
<1>5. ASSUME NEW w \in Widths, Configure(n, w)
      PROVE  \E dirty \in BOOLEAN :
                /\ dirty = (out[n].dirty \/ out[n].width # w)
                /\ out' = [out EXCEPT ![n] = Sized(out[n], w, dirty)]
  <2> DEFINE dirty == out[n].dirty \/ out[n].width # w
  <2>1. out' = [out EXCEPT ![n].dirty = dirty, ![n].width = w, ![n].configured = TRUE]
    BY <1>5 DEF Configure
  <2>2. dirty \in BOOLEAN
    OBVIOUS
  <2>3. dirty = (out[n].dirty \/ out[n].width # w)
    OBVIOUS
  <2> HIDE DEF dirty
  <2>4. out' = [out EXCEPT ![n] = Sized(out[n], w, dirty)]
    BY <1>1, <2>1 DEF Sized
  <2> QED BY <2>2, <2>3, <2>4
<1> QED BY <1>2, <1>3, <1>4, <1>5

\* An event of the compositor leaves the outputs legal.
LEMMA EventTypes ==
  ASSUME TypeOK, CompositorEvent PROVE TypeOK'
<1>1. PICK n \in Names :
        \/ \E b \in Boxes : Plug(n, b) \/ Move(n, b)
        \/ Unplug(n)
        \/ \E s \in Scales : Scale(n, s)
        \/ \E f \in Fractions : PreferredScale(n, f)
        \/ \E w \in Widths : Configure(n, w)
        \/ Closed(n)
  BY DEF CompositorEvent
<1>2. out[n] \in Output /\ OutputsOK(out)
  BY DEF TypeOK, OutputsOK
<1>3. (out[n].configured => out[n].live) /\ (out[n].live => out[n].plugged)
  BY DEF TypeOK, OutputsOK
<1>4. /\ listed \in Nat /\ layoutDirty \in BOOLEAN /\ ClientsOK(jobs)
      /\ daemon \in Daemon /\ plugs \in [Names -> Nat]
      /\ phase \in {"registry", "surfaces", "contents", "poll", "dispatch", "ipc", "down"}
  BY DEF TypeOK
<1>5. ASSUME NEW b \in Boxes, Plug(n, b) PROVE TypeOK'
  <2> DEFINE x == NewOutput(b, listed + 1)
  <2>0. x \in Output
    BY <1>4, NewOutputTypes
  <2>1. x \in Output /\ x.configured = FALSE /\ x.live = FALSE
    BY <2>0 DEF NewOutput, Unplugged
  <2>2. out' = [out EXCEPT ![n] = x]
    BY <1>5 DEF Plug
  <2> HIDE DEF x
  <2>3. OutputsOK(out')
    BY <1>2, <2>1, <2>2, OneOutput
  <2>4. plugs' \in [Names -> Nat]
    BY <1>4, <1>5 DEF Plug
  <2> QED BY <1>4, <1>5, <2>3, <2>4 DEF Plug, TypeOK
<1>6. ASSUME NEW b \in Boxes, Move(n, b) PROVE TypeOK'
  <2> DEFINE x == Moved(out[n], b)
  <2>1. x \in Output /\ (x.configured => x.live) /\ (x.live => x.plugged)
    BY <1>2, <1>3 DEF Output, Moved
  <2>2. out' = [out EXCEPT ![n] = x]
    BY <1>6, EventOutput
  <2> HIDE DEF x
  <2>3. OutputsOK(out')
    BY <1>2, <2>1, <2>2, OneOutput
  <2> QED BY <1>4, <1>6, <2>3 DEF Move, TypeOK
<1>7. CASE Unplug(n)
  <2>1. Unplugged \in Output /\ Unplugged.configured = FALSE /\ Unplugged.live = FALSE
    BY NewOutputTypes DEF Unplugged
  <2>2. OutputsOK(out')
    BY <1>2, <2>1, <1>7, OneOutput DEF Unplug
  <2> QED BY <1>4, <1>7, <2>2 DEF Unplug, TypeOK
<1>8. ASSUME NEW s \in Scales, Scale(n, s) PROVE TypeOK'
  <2> DEFINE x == Scaled(out[n], s)
  <2>0. s \in Nat
    BY DataAssumption
  <2>1. x \in Output /\ (x.configured => x.live) /\ (x.live => x.plugged)
    BY <1>2, <1>3, <2>0 DEF Output, Scaled, Preferred
  <2>2. out' = [out EXCEPT ![n] = x]
    BY <1>8, EventOutput
  <2> HIDE DEF x
  <2>3. OutputsOK(out')
    BY <1>2, <2>1, <2>2, OneOutput
  <2> QED BY <1>4, <1>8, <2>3 DEF Scale, TypeOK
<1>9. ASSUME NEW f \in Fractions, PreferredScale(n, f) PROVE TypeOK'
  <2> DEFINE x == Preferred(out[n], f)
  <2>0. f \in Nat
    BY DataAssumption
  <2>1. x \in Output /\ (x.configured => x.live) /\ (x.live => x.plugged)
    BY <1>2, <1>3, <2>0 DEF Output, Scaled, Preferred
  <2>2. out' = [out EXCEPT ![n] = x]
    BY <1>9, EventOutput
  <2> HIDE DEF x
  <2>3. OutputsOK(out')
    BY <1>2, <2>1, <2>2, OneOutput
  <2> QED BY <1>4, <1>9, <2>3 DEF PreferredScale, TypeOK
<1>10. ASSUME NEW w \in Widths, Configure(n, w) PROVE TypeOK'
  <2>1. PICK dirty \in BOOLEAN :
          out' = [out EXCEPT ![n] = Sized(out[n], w, dirty)]
    BY <1>10, EventOutput
  <2> DEFINE x == Sized(out[n], w, dirty)
  <2>2. w \in Nat /\ out[n].live = TRUE
    BY <1>2, <1>10, DataAssumption DEF Configure, Output
  <2>3. x \in Output /\ (x.configured => x.live) /\ (x.live => x.plugged)
    BY <1>2, <1>3, <2>2 DEF Output, Sized
  <2> HIDE DEF x
  <2>4. OutputsOK(out')
    BY <1>2, <2>1, <2>3, OneOutput DEF x
  <2> QED BY <1>4, <1>10, <2>4 DEF Configure, TypeOK
<1>11. CASE Closed(n)
  <2> DEFINE x == ClosedSurface(out[n])
  <2>1. x \in Output /\ x.configured = FALSE /\ x.live = FALSE
    BY <1>2, NewOutputTypes DEF ClosedSurface, Output
  <2> HIDE DEF x
  <2>2. OutputsOK(out')
    BY <1>2, <2>1, <1>11, OneOutput DEF Closed, x
  <2> QED BY <1>4, <1>11, <2>2 DEF Closed, TypeOK
<1> QED BY <1>1, <1>5, <1>6, <1>7, <1>8, <1>9, <1>10, <1>11

-----------------------------------------------------------------------------
(* Requests the daemon serves.  A good step keeps every output what it is, *)
(* and one that changes the fit or the fill of a configured output gives   *)
(* it a new generation.                                                    *)

Alike(d, n) ==
  /\ EffFit(d, n) = EffFit(daemon, n)
  /\ UsesColor(EffFit(d, n)) => Fill(d) = Fill(daemon)

GoodStep ==
  /\ daemon' \in Daemon /\ NoSpanOverride'
  /\ OutputsOK(out') /\ layoutDirty' \in BOOLEAN /\ ClientsOK(jobs')
  /\ \A n \in Names :
       /\ SameOutput(out'[n], out[n]) /\ out[n].gen <= out'[n].gen
       /\ out[n].configured /\ out'[n].gen = out[n].gen => Alike(daemon', n)

\* What the operations on the table do to the fits in it.
LEMMA TableFits ==
  ASSUME NEW over \in [Names -> Override], NEW n \in Names, NEW m \in Names
  PROVE  /\ Compact(over)[n].fit = over[n].fit
         /\ WithoutImages(over)[n].fit = over[n].fit
         /\ WithoutImage(over, m)[n].fit = over[n].fit
         /\ WithoutFits(over)[n].fit = Unset
         /\ WithoutFit(over, m)[n].fit = IF n = m THEN Unset ELSE over[n].fit
<1>1. \A o \in Override : /\ [o EXCEPT !.path = Unset] \in Override
                          /\ [o EXCEPT !.path = Unset].fit = o.fit
                          /\ [o EXCEPT !.fit = Unset] \in Override
                          /\ [o EXCEPT !.fit = Unset].fit = Unset
  BY DEF Override, Image
<1>2. ASSUME NEW o \in [Names -> Override] PROVE Compact(o)[n].fit = o[n].fit
  BY DEF Compact, HasEntry, NoOverride
<1>3. WithoutImages(over)[n].fit = over[n].fit
  <2> DEFINE o == [k \in Names |-> [over[k] EXCEPT !.path = Unset]]
  <2>1. o \in [Names -> Override] /\ o[n].fit = over[n].fit
    BY <1>1
  <2> HIDE DEF o
  <2>2. Compact(o)[n].fit = over[n].fit
    BY <1>2, <2>1
  <2> QED BY <2>2 DEF o, WithoutImages
<1>4. WithoutFits(over)[n].fit = Unset
  <2> DEFINE o == [k \in Names |-> [over[k] EXCEPT !.fit = Unset]]
  <2>1. o \in [Names -> Override] /\ o[n].fit = Unset
    BY <1>1
  <2> HIDE DEF o
  <2>2. Compact(o)[n].fit = Unset
    BY <1>2, <2>1
  <2> QED BY <2>2 DEF o, WithoutFits
<1>5. WithoutImage(over, m)[n].fit = over[n].fit
  <2> DEFINE o == [over EXCEPT ![m].path = Unset]
  <2>1. o \in [Names -> Override] /\ o[n].fit = over[n].fit
    BY <1>1
  <2> HIDE DEF o
  <2>2. Compact(o)[n].fit = over[n].fit
    BY <1>2, <2>1
  <2> QED BY <2>2 DEF o, WithoutImage
<1>6. WithoutFit(over, m)[n].fit = IF n = m THEN Unset ELSE over[n].fit
  <2> DEFINE o == [over EXCEPT ![m].fit = Unset]
  <2>1. o \in [Names -> Override] /\ o[n].fit = IF n = m THEN Unset ELSE over[n].fit
    BY <1>1
  <2> HIDE DEF o
  <2>2. Compact(o)[n].fit = IF n = m THEN Unset ELSE over[n].fit
    BY <1>2, <2>1
  <2> QED BY <2>2 DEF o, WithoutFit
<1> QED BY <1>2, <1>3, <1>4, <1>5, <1>6

\* The effective fit follows the fits that are remembered.
LEMMA SameFits ==
  ASSUME NEW d, NEW n, d.over[n].fit = daemon.over[n].fit, d.fit = daemon.fit
  PROVE  EffFit(d, n) = EffFit(daemon, n)
BY DEF EffFit

\* A request that repaints nothing must leave fits and fills alone.
LEMMA NoRepaintGood ==
  ASSUME TypeOK, NoRepaint, daemon' \in Daemon, NoSpanOverride',
         \A n \in Names : out[n].configured => Alike(daemon', n)
  PROVE  GoodStep /\ FramesOf(jobs') \subseteq InFlight
<1>1. \A n \in Names : out[n].gen <= out[n].gen /\ SameOutput(out[n], out[n])
  BY OutputParts DEF TypeOK, OutputsOK, SameOutput
<1>2. out' = out /\ jobs' = jobs /\ layoutDirty' = layoutDirty
  BY DEF NoRepaint
<1> QED BY <1>1, <1>2 DEF GoodStep, TypeOK, InFlight

\* A request that repaints must mark, or give a new generation, each output
\* whose fit or fill it changes.
LEMMA RepaintGood ==
  ASSUME TypeOK, NEW d, daemon' = d, d \in Daemon, NoSpanOverride',
         NEW os, OutputsOK(os), NEW js, ClientsOK(js), FramesOf(js) \subseteq InFlight,
         \A n \in Names :
           /\ SameOutput(os[n], out[n]) /\ out[n].gen <= os[n].gen
           /\ os[n].configured => os[n].dirty \/ out[n].gen < os[n].gen \/ Alike(d, n),
         ReconcilePaint(d, os, js)
  PROVE  GoodStep /\ FramesOf(jobs') \subseteq InFlight
<1>1. layoutDirty \in BOOLEAN
  BY DEF TypeOK
<1>2. /\ OutputsOK(out') /\ layoutDirty' = FALSE
      /\ ClientsOK(jobs') /\ FramesOf(jobs') \subseteq FramesOf(js)
      /\ \A n \in Names :
           /\ SameOutput(out'[n], os[n]) /\ os[n].gen <= out'[n].gen
           /\ out'[n].configured /\ out'[n].gen = os[n].gen => ~os[n].dirty
  BY <1>1, ReconcilePaintSound
<1>3. ASSUME NEW n \in Names
      PROVE  /\ SameOutput(out'[n], out[n]) /\ out[n].gen <= out'[n].gen
             /\ out[n].configured /\ out'[n].gen = out[n].gen => Alike(daemon', n)
  <2>1. out[n].gen \in Nat /\ os[n].gen \in Nat /\ out'[n].gen \in Nat
    BY <1>2, OutputParts DEF TypeOK, OutputsOK
  <2>2. SameOutput(out'[n], out[n]) /\ out[n].gen <= out'[n].gen
    BY <1>2, <2>1 DEF SameOutput
  <2>3. ASSUME out[n].configured, out'[n].gen = out[n].gen PROVE Alike(daemon', n)
    <3>1. out'[n].gen = os[n].gen /\ ~(out[n].gen < os[n].gen)
      BY <1>2, <2>1, <2>3
    <3>2. os[n].configured /\ out'[n].configured
      BY <2>2, <2>3, <1>2 DEF SameOutput
    <3>3. ~os[n].dirty
      BY <1>2, <3>1, <3>2
    <3> QED BY <3>1, <3>2, <3>3
  <2> QED BY <2>2, <2>3
<1> QED BY <1>2, <1>3 DEF GoodStep

LEMMA RefreshAlike ==
  ASSUME NEW d, NEW n, Fill(d) = Fill(daemon), EffFit(d, n) = EffFit(daemon, n)
  PROVE  Alike(d, n)
BY DEF Alike

\* A change of fit or colour for all outputs.
LEMMA AfterChangeGood ==
  ASSUME TypeOK, NEW d, daemon' = d, d \in Daemon, NoSpanOverride',
         NEW colorChanged \in BOOLEAN, NEW fitChanged \in BOOLEAN,
         colorChanged \/ fitChanged,
         fitChanged \/ \A n \in Names : EffFit(d, n) = EffFit(daemon, n),
         RepaintAfterChange(d, colorChanged, fitChanged)
  PROVE  GoodStep /\ FramesOf(jobs') \subseteq InFlight
<1> DEFINE blank == {n \in Configured : EffPath(d, n) = Blank}
           stale == {n \in Configured \ blank :
                       fitChanged \/ (colorChanged /\ UsesColor(EffFit(d, n)))}
           os == IF colorChanged THEN MarkDirty(out, blank \cup stale)
                                 ELSE MarkDirty(NextGeneration(out, blank), stale)
<1>1. ReconcilePaint(d, os, jobs)
  BY DEF RepaintAfterChange
<1>2. /\ OutputsOK(out) /\ ClientsOK(jobs) /\ FramesOf(jobs) \subseteq InFlight
      /\ \A n \in Names : out[n].gen \in Nat
  BY OutputParts DEF TypeOK, OutputsOK, InFlight
<1>3. \A n \in Names : n \in Configured <=> out[n].configured
  BY DEF Configured
<1>4. \A n \in Configured :
        n \in blank \/ n \in stale
        \/ (colorChanged /\ ~fitChanged /\ ~UsesColor(EffFit(d, n)))
  OBVIOUS
<1>5. CASE colorChanged
  <2>1. os = MarkDirty(out, blank \cup stale)
    BY <1>5
  <2> HIDE DEF blank, stale, os
  <2>2. /\ OutputsOK(os)
        /\ \A n \in Names :
             /\ SameOutput(os[n], out[n]) /\ out[n].gen <= os[n].gen
             /\ n \in blank \cup stale => os[n].dirty
    BY <1>2, <2>1, MarkSound
  <2>3. \A n \in Names :
          os[n].configured => os[n].dirty \/ out[n].gen < os[n].gen \/ Alike(d, n)
    BY <1>3, <1>4, <2>2 DEF SameOutput, Alike
  <2> QED BY <1>1, <1>2, <2>2, <2>3, RepaintGood
<1>6. CASE ~colorChanged
  <2> DEFINE ng == NextGeneration(out, blank)
  <2>1. os = MarkDirty(ng, stale)
    BY <1>6
  <2> HIDE DEF blank, stale, os, ng
  <2>2. /\ OutputsOK(ng)
        /\ \A n \in Names :
             /\ SameOutput(ng[n], out[n]) /\ out[n].gen <= ng[n].gen
             /\ n \in blank => out[n].gen < ng[n].gen
    BY <1>2, MarkSound DEF ng
  <2>3. /\ OutputsOK(os)
        /\ \A n \in Names :
             /\ SameOutput(os[n], ng[n]) /\ os[n].gen = ng[n].gen
             /\ n \in stale => os[n].dirty
    BY <2>1, <2>2, MarkSound
  <2>4. \A n \in Names : SameOutput(os[n], out[n]) /\ out[n].gen <= os[n].gen
    BY <2>2, <2>3 DEF SameOutput
  <2>5. \A n \in Names :
          os[n].configured => os[n].dirty \/ out[n].gen < os[n].gen \/ Alike(d, n)
    BY <1>3, <1>4, <1>6, <2>2, <2>3, <2>4 DEF SameOutput
  <2> QED BY <1>1, <1>2, <2>3, <2>4, <2>5, RepaintGood
<1> QED BY <1>5, <1>6

\* A change of one output's fit.
LEMMA AfterFitGood ==
  ASSUME TypeOK, NEW d, daemon' = d, d \in Daemon, NoSpanOverride', NEW n \in Names,
         Fill(d) = Fill(daemon),
         \A m \in Names \ {n} : EffFit(d, m) = EffFit(daemon, m),
         RepaintAfterFit(d, n)
  PROVE  GoodStep /\ FramesOf(jobs') \subseteq InFlight
<1>1. /\ OutputsOK(out) /\ ClientsOK(jobs) /\ FramesOf(jobs) \subseteq InFlight
      /\ \A m \in Names : out[m].gen \in Nat
  BY OutputParts DEF TypeOK, OutputsOK, InFlight
<1>2. \A m \in Names \ {n} : Alike(d, m)
  BY RefreshAlike
<1>3. CASE ~out[n].configured \/ EffFit(d, n) = EffFit(daemon, n)
  <2>1. NoRepaint
    BY <1>3 DEF RepaintAfterFit
  <2>2. \A m \in Names : out[m].configured => Alike(daemon', m)
    BY <1>2, <1>3, RefreshAlike
  <2> QED BY <2>1, <2>2, NoRepaintGood
<1>4. CASE /\ ~(~out[n].configured \/ EffFit(d, n) = EffFit(daemon, n))
           /\ EffPath(d, n) = Blank
  <2> DEFINE ng == NextGeneration(out, {n})
  <2>1. out' = ng /\ layoutDirty' = layoutDirty /\ jobs' = jobs
    BY <1>4 DEF RepaintAfterFit
  <2> HIDE DEF ng
  <2>2. /\ OutputsOK(ng)
        /\ \A m \in Names :
             /\ SameOutput(ng[m], out[m]) /\ out[m].gen <= ng[m].gen
             /\ m \in {n} => out[m].gen < ng[m].gen
    BY <1>1, MarkSound DEF ng
  <2>3. \A m \in Names :
          out[m].configured /\ out'[m].gen = out[m].gen => Alike(daemon', m)
    BY <1>1, <1>2, <2>1, <2>2
  <2> QED BY <1>1, <2>1, <2>2, <2>3 DEF GoodStep, TypeOK
<1>5. CASE /\ ~(~out[n].configured \/ EffFit(d, n) = EffFit(daemon, n))
           /\ EffPath(d, n) # Blank
  <2> DEFINE os == MarkDirty(out, {n})
  <2>1. ReconcilePaint(d, os, jobs)
    BY <1>5 DEF RepaintAfterFit
  <2> HIDE DEF os
  <2>2. /\ OutputsOK(os)
        /\ \A m \in Names :
             /\ SameOutput(os[m], out[m]) /\ os[m].gen = out[m].gen
             /\ m \in {n} => os[m].dirty
    BY <1>1, MarkSound DEF os
  <2>3. \A m \in Names :
          /\ SameOutput(os[m], out[m]) /\ out[m].gen <= os[m].gen
          /\ os[m].configured => os[m].dirty \/ out[m].gen < os[m].gen \/ Alike(d, m)
    BY <1>1, <1>2, <2>2
  <2> QED BY <1>1, <2>1, <2>2, <2>3, RepaintGood
<1> QED BY <1>3, <1>4, <1>5

LEMMA DaemonParts ==
  ASSUME NEW d \in Daemon
  PROVE  /\ d.color \in Colors /\ d.auto \in BOOLEAN /\ d.fit \in Fits
         /\ d.path \in Paths \cup {Unset} /\ d.palette \in Paths \cup {Unset}
         /\ d.over \in [Names -> Override]
BY DEF Daemon

\* A fit for all outputs.
LEMMA SetFitGood ==
  ASSUME TypeOK, NoSpanOverride, NEW f \in UserFits, SetFit(f)
  PROVE  GoodStep /\ FramesOf(jobs') \subseteq InFlight
<1> DEFINE d == [daemon EXCEPT !.fit = f, !.over = WithoutFits(@)]
<1>1. daemon \in Daemon /\ daemon.over \in [Names -> Override] /\ f \in Fits
  BY DaemonParts, DataAssumption DEF TypeOK
<1>2. WithoutFits(daemon.over) \in [Names -> Override]
  BY <1>1, TableTypes
<1>3. \A n \in Names : WithoutFits(daemon.over)[n].fit = Unset
  BY <1>1, TableFits
<1>4. /\ d \in Daemon /\ d.over = WithoutFits(daemon.over) /\ d.fit = f
      /\ d.auto = daemon.auto /\ d.color = daemon.color
  BY <1>1, <1>2 DEF Daemon
<1>5. /\ daemon' = d
      /\ IF f # daemon.fit \/ AnyFit(daemon.over)
         THEN RepaintAfterChange(d, FALSE, TRUE) ELSE NoRepaint
  BY DEF SetFit
<1> HIDE DEF d
<1>6. NoSpanOverride'
  BY <1>3, <1>4, <1>5, Distinct DEF NoSpanOverride, GlobalOnly, Unset
<1>7. CASE RepaintAfterChange(d, FALSE, TRUE)
  BY <1>4, <1>5, <1>6, <1>7, AfterChangeGood
<1>8. CASE NoRepaint /\ f = daemon.fit /\ ~AnyFit(daemon.over)
  <2>1. ASSUME NEW n \in Names PROVE Alike(d, n)
    <3>1. d.over[n].fit = daemon.over[n].fit /\ d.fit = daemon.fit
      BY <1>3, <1>4, <1>8 DEF AnyFit
    <3> QED BY <1>4, <3>1, SameFits, RefreshAlike DEF Fill
  <2> QED BY <1>4, <1>5, <1>6, <1>8, <2>1, NoRepaintGood
<1> QED BY <1>5, <1>7, <1>8

\* A fit for one output.
LEMMA SetOutputFitGood ==
  ASSUME TypeOK, NoSpanOverride, NEW n \in Names, NEW f \in UserFits, SetOutputFit(n, f)
  PROVE  GoodStep /\ FramesOf(jobs') \subseteq InFlight
<1> DEFINE over == [daemon.over EXCEPT ![n].fit = f]
           d == [daemon EXCEPT !.over = over]
<1>1. daemon \in Daemon /\ daemon.over \in [Names -> Override] /\ f \in Fits
  BY DaemonParts, DataAssumption DEF TypeOK
<1>2. over \in [Names -> Override]
  BY <1>1 DEF Override
<1>3. \A m \in Names : over[m].fit = IF m = n THEN f ELSE daemon.over[m].fit
  BY <1>1 DEF Override
<1>4. daemon' = [daemon EXCEPT !.over[n].fit = f] /\ RepaintAfterFit(daemon', n) /\ ~GlobalOnly(f)
  BY DEF SetOutputFit
<1>5. daemon' = d
  BY <1>1, <1>4 DEF Daemon
<1> HIDE DEF over
<1>6. /\ d \in Daemon /\ d.over = over /\ d.fit = daemon.fit
      /\ d.auto = daemon.auto /\ d.color = daemon.color
  BY <1>1, <1>2 DEF Daemon
<1> HIDE DEF d
<1>7. NoSpanOverride'
  BY <1>3, <1>4, <1>5, <1>6 DEF NoSpanOverride
<1>8. \A m \in Names \ {n} : EffFit(d, m) = EffFit(daemon, m)
  BY <1>3, <1>6, SameFits
<1>9. Fill(d) = Fill(daemon)
  BY <1>6 DEF Fill
<1>10. RepaintAfterFit(d, n)
  BY <1>4, <1>5
<1> QED BY <1>5, <1>6, <1>7, <1>8, <1>9, <1>10, AfterFitGood

\* A colour.
LEMMA SetColorGood ==
  ASSUME TypeOK, NoSpanOverride, NEW c \in UserColors, SetColor(c)
  PROVE  GoodStep /\ FramesOf(jobs') \subseteq InFlight
<1> DEFINE auto == c = Unset
           color == IF c = Unset THEN daemon.color ELSE c
           d == [daemon EXCEPT !.auto = auto, !.color = color]
<1>1. daemon \in Daemon /\ daemon.color \in Colors
  BY DaemonParts DEF TypeOK
<1>2. color \in Colors
  BY <1>1, DataAssumption
<1>3. auto \in BOOLEAN
  OBVIOUS
<1>4. daemon' = d
  BY DEF SetColor
<1>5. IF d # daemon THEN RepaintAfterChange(d, TRUE, FALSE) ELSE NoRepaint
  BY DEF SetColor
<1> HIDE DEF auto, color
<1>6. d \in Daemon /\ d.over = daemon.over /\ d.fit = daemon.fit
  BY <1>1, <1>2, <1>3 DEF Daemon
<1> HIDE DEF d
<1>7. NoSpanOverride'
  BY <1>4, <1>6 DEF NoSpanOverride
<1>8. \A n \in Names : EffFit(d, n) = EffFit(daemon, n)
  BY <1>6, SameFits
<1>9. CASE d # daemon
  BY <1>4, <1>5, <1>6, <1>7, <1>8, <1>9, AfterChangeGood
<1>10. CASE d = daemon
  <2>1. \A n \in Names : Alike(daemon', n)
    BY <1>4, <1>10 DEF Alike
  <2> QED BY <1>4, <1>5, <1>6, <1>7, <1>10, <2>1, NoRepaintGood
<1> QED BY <1>9, <1>10

\* Marking every configured output repaints them all.
LEMMA AllMarkedGood ==
  ASSUME TypeOK, NEW d, daemon' = d, d \in Daemon, NoSpanOverride',
         ReconcilePaint(d, MarkDirty(out, Configured), jobs)
  PROVE  GoodStep /\ FramesOf(jobs') \subseteq InFlight
<1> DEFINE os == MarkDirty(out, Configured)
<1>1. /\ OutputsOK(out) /\ ClientsOK(jobs) /\ FramesOf(jobs) \subseteq InFlight
      /\ \A n \in Names : out[n].gen \in Nat
  BY OutputParts DEF TypeOK, OutputsOK, InFlight
<1>2. ReconcilePaint(d, os, jobs)
  OBVIOUS
<1> HIDE DEF os
<1>3. /\ OutputsOK(os)
      /\ \A n \in Names : /\ SameOutput(os[n], out[n]) /\ os[n].gen = out[n].gen
                          /\ n \in Configured => os[n].dirty
  BY <1>1, MarkSound DEF os
<1>4. \A n \in Names :
        /\ SameOutput(os[n], out[n]) /\ out[n].gen <= os[n].gen
        /\ os[n].configured => os[n].dirty \/ out[n].gen < os[n].gen \/ Alike(d, n)
  BY <1>1, <1>3 DEF SameOutput, Configured
<1> QED BY <1>1, <1>2, <1>3, <1>4, RepaintGood

\* Clearing the default image, the fit, or both.
LEMMA ClearAllGood ==
  ASSUME TypeOK, NoSpanOverride, NEW flags \in UserClears, ClearAll(flags)
  PROVE  GoodStep /\ FramesOf(jobs') \subseteq InFlight
<1> DEFINE image == "image" \in flags
           fit == "fit" \in flags
           d1 == IF image THEN [daemon EXCEPT !.path = Unset, !.palette = Unset,
                                              !.over = WithoutImages(@)]
                          ELSE daemon
           d == IF fit THEN [d1 EXCEPT !.fit = "cover", !.over = WithoutFits(@)]
                       ELSE d1
<1>1. daemon \in Daemon /\ daemon.over \in [Names -> Override]
  BY DaemonParts DEF TypeOK
<1>2. daemon' = d
  BY DEF ClearAll
<1>3. IF image /\ (daemon.path # Unset \/ AnyImage(daemon.over))
      THEN ReconcilePaint(d, MarkDirty(out, Configured), jobs)
      ELSE IF fit /\ (daemon.fit # "cover" \/ AnyFit(daemon.over))
      THEN RepaintAfterChange(d, FALSE, TRUE)
      ELSE NoRepaint
  BY DEF ClearAll
<1>4. /\ WithoutImages(daemon.over) \in [Names -> Override]
      /\ \A n \in Names : WithoutImages(daemon.over)[n].fit = daemon.over[n].fit
  BY <1>1, TableTypes, TableFits
<1>5. /\ d1 \in Daemon /\ d1.fit = daemon.fit /\ Fill(d1) = Fill(daemon)
      /\ d1.over \in [Names -> Override]
      /\ \A n \in Names : d1.over[n].fit = daemon.over[n].fit
  <2>1. CASE image
    BY <1>1, <1>4, <2>1 DEF Daemon, Fill
  <2>2. CASE ~image
    BY <1>1, <2>2
  <2> QED BY <2>1, <2>2
<1> HIDE DEF d1
<1>6. /\ WithoutFits(d1.over) \in [Names -> Override]
      /\ \A n \in Names : WithoutFits(d1.over)[n].fit = Unset
  BY <1>5, TableTypes, TableFits
<1>7. /\ d \in Daemon /\ Fill(d) = Fill(daemon)
      /\ \A n \in Names : d.over[n].fit = IF fit THEN Unset ELSE daemon.over[n].fit
      /\ d.fit = IF fit THEN "cover" ELSE daemon.fit
  <2>1. CASE fit
    BY <1>5, <1>6, <2>1 DEF Daemon, Fill, Fits
  <2>2. CASE ~fit
    BY <1>5, <2>2
  <2> QED BY <2>1, <2>2
<1> HIDE DEF d, image, fit
<1>8. NoSpanOverride'
  BY <1>2, <1>7 DEF NoSpanOverride, GlobalOnly, Unset
<1>9. CASE ReconcilePaint(d, MarkDirty(out, Configured), jobs)
  BY <1>2, <1>7, <1>8, <1>9, AllMarkedGood
<1>10. CASE RepaintAfterChange(d, FALSE, TRUE)
  BY <1>2, <1>7, <1>8, <1>10, AfterChangeGood
<1>11. CASE NoRepaint /\ ~(fit /\ (daemon.fit # "cover" \/ AnyFit(daemon.over)))
  <2>1. ASSUME NEW n \in Names PROVE Alike(d, n)
    <3>1. d.over[n].fit = daemon.over[n].fit /\ d.fit = daemon.fit
      BY <1>7, <1>11 DEF AnyFit
    <3> QED BY <1>7, <3>1, SameFits, RefreshAlike
  <2> QED BY <1>2, <1>7, <1>8, <1>11, <2>1, NoRepaintGood
<1> QED BY <1>3, <1>9, <1>10, <1>11

\* Marking one output, where the others keep their fit and fill.
LEMMA OneMarkedGood ==
  ASSUME TypeOK, NEW d, daemon' = d, d \in Daemon, NoSpanOverride',
         NEW from, OutputsOK(from), NEW js, ClientsOK(js), FramesOf(js) \subseteq InFlight,
         NEW n \in Names,
         \A m \in Names :
           /\ SameOutput(from[m], out[m]) /\ out[m].gen <= from[m].gen
           /\ m # n => Alike(d, m),
         ReconcilePaint(d, MarkDirty(from, {n}), js)
  PROVE  GoodStep /\ FramesOf(jobs') \subseteq InFlight
<1> DEFINE os == MarkDirty(from, {n})
<1>1. ReconcilePaint(d, os, js)
  OBVIOUS
<1> HIDE DEF os
<1>2. /\ OutputsOK(os)
      /\ \A m \in Names : /\ SameOutput(os[m], from[m]) /\ os[m].gen = from[m].gen
                          /\ m \in {n} => os[m].dirty
  BY MarkSound DEF os
<1>3. \A m \in Names :
        /\ SameOutput(os[m], out[m]) /\ out[m].gen <= os[m].gen
        /\ os[m].configured => os[m].dirty \/ out[m].gen < os[m].gen \/ Alike(d, m)
  BY <1>2 DEF SameOutput
<1> QED BY <1>1, <1>2, <1>3, RepaintGood

LEMMA OutSound ==
  ASSUME TypeOK
  PROVE  /\ OutputsOK(out) /\ ClientsOK(jobs) /\ FramesOf(jobs) \subseteq InFlight
         /\ \A n \in Names : /\ out[n] \in Output /\ out[n].gen \in Nat
                             /\ SameOutput(out[n], out[n]) /\ out[n].gen <= out[n].gen
BY OutputParts DEF TypeOK, OutputsOK, InFlight, SameOutput

\* Clearing one output's image or fit, or blanking it.
LEMMA ClearOutputGood ==
  ASSUME TypeOK, NoSpanOverride, NEW flags \in UserClears, NEW n \in Names,
         ClearOutput(flags, n)
  PROVE  GoodStep /\ FramesOf(jobs') \subseteq InFlight
<1> DEFINE over1 == IF "blank" \in flags
                    THEN [daemon.over EXCEPT ![n].path = Blank, ![n].palette = Unset]
                    ELSE IF "image" \in flags THEN WithoutImage(daemon.over, n)
                    ELSE daemon.over
           over2 == IF "fit" \in flags THEN WithoutFit(over1, n) ELSE over1
           d == [daemon EXCEPT !.over = over2]
<1>1. daemon \in Daemon /\ daemon.over \in [Names -> Override]
  BY DaemonParts DEF TypeOK
<1>2. daemon' = d
  BY DEF ClearOutput
<1>3. \/ ReconcilePaint(d, MarkDirty(out, {n}), jobs)
      \/ RepaintAfterFit(d, n)
  BY DEF ClearOutput
<1>4. over1 \in [Names -> Override] /\ \A m \in Names : over1[m].fit = daemon.over[m].fit
  <2>1. CASE "blank" \in flags
    BY <1>1, <2>1 DEF Override, Image
  <2>2. CASE "blank" \notin flags /\ "image" \in flags
    BY <1>1, <2>2, TableTypes, TableFits
  <2>3. CASE "blank" \notin flags /\ "image" \notin flags
    BY <1>1, <2>3
  <2> QED BY <2>1, <2>2, <2>3
<1> HIDE DEF over1
<1>5. /\ over2 \in [Names -> Override]
      /\ \A m \in Names : over2[m].fit \in {daemon.over[m].fit, Unset}
      /\ \A m \in Names \ {n} : over2[m].fit = daemon.over[m].fit
  <2>1. CASE "fit" \in flags
    BY <1>4, <2>1, TableTypes, TableFits
  <2>2. CASE "fit" \notin flags
    BY <1>4, <2>2
  <2> QED BY <2>1, <2>2
<1> HIDE DEF over2
<1>6. d \in Daemon /\ d.over = over2 /\ d.fit = daemon.fit /\ Fill(d) = Fill(daemon)
  BY <1>1, <1>5 DEF Daemon, Fill
<1> HIDE DEF d
<1>7. NoSpanOverride'
  BY <1>2, <1>5, <1>6 DEF NoSpanOverride, GlobalOnly, Unset
<1>8. \A m \in Names \ {n} : EffFit(d, m) = EffFit(daemon, m)
  BY <1>5, <1>6, SameFits
<1>9. CASE RepaintAfterFit(d, n)
  BY <1>2, <1>6, <1>7, <1>8, <1>9, AfterFitGood
<1>10. CASE ReconcilePaint(d, MarkDirty(out, {n}), jobs)
  <2>1. \A m \in Names :
          /\ SameOutput(out[m], out[m]) /\ out[m].gen <= out[m].gen
          /\ m # n => Alike(d, m)
    BY <1>6, <1>8, OutSound, RefreshAlike
  <2> QED BY <1>2, <1>6, <1>7, <1>10, <2>1, OutSound, OneMarkedGood
<1> QED BY <1>3, <1>9, <1>10

\* A configuration loads into a legal daemon.
LEMMA LoadedTypes ==
  ASSUME NEW cfg \in UserConfigs, NEW readable \in ReadableSets
  PROVE  /\ Loaded(cfg, readable) \in Daemon
         /\ \A n \in Names : ~GlobalOnly(Loaded(cfg, readable).over[n].fit)
<1>1. /\ cfg.color \in Colors /\ cfg.auto \in BOOLEAN /\ cfg.fit \in Fits
      /\ cfg.outputs \in [Names -> Sections] /\ readable \subseteq Paths
  BY ConfigAssumption
<1> DEFINE over == [n \in Names |-> LoadedOverride(cfg.outputs[n], readable)]
<1>2. ASSUME NEW n \in Names
      PROVE  over[n] \in Override /\ over[n].fit # "span"
  <2> DEFINE sec == cfg.outputs[n]
             path == IF Readable(sec.image, readable) THEN sec.image ELSE Unset
  <2>1. sec \in Sections
    BY <1>1
  <2>2. sec.image \in Image /\ sec.fit \in Fits \cup {Unset} /\ sec.fit # "span"
    BY <2>1 DEF Sections, Image, Unset
  <2>3. path \in Image
    BY <2>2 DEF Image
  <2>4. over[n] = [NoOverride EXCEPT !.path = path, !.fit = sec.fit]
    BY DEF LoadedOverride
  <2> HIDE DEF path, sec, over
  <2> QED BY <2>2, <2>3, <2>4 DEF NoOverride, Override
<1>3. over \in [Names -> Override]
  BY <1>2
<1>4. (IF cfg.image \in readable THEN cfg.image ELSE Unset) \in Paths \cup {Unset}
  BY <1>1
<1> HIDE DEF over
<1>5. Loaded(cfg, readable) =
        [color |-> cfg.color, auto |-> cfg.auto, fit |-> cfg.fit,
         path |-> IF cfg.image \in readable THEN cfg.image ELSE Unset,
         palette |-> Unset, over |-> over]
  BY DEF Loaded, over
<1> QED BY <1>1, <1>2, <1>3, <1>4, <1>5 DEF Daemon, GlobalOnly

LEMMA ReloadGood ==
  ASSUME TypeOK, NEW cfg \in UserConfigs, NEW checked \in ReadableSets,
         NEW readable \in ReadableSets, Reload(cfg, checked, readable)
  PROVE  GoodStep /\ FramesOf(jobs') \subseteq InFlight
<1> DEFINE d == Loaded(cfg, readable)
<1>1. daemon' = d /\ ReconcilePaint(d, MarkDirty(out, Configured), jobs)
  BY DEF Reload
<1>2. d \in Daemon /\ \A n \in Names : ~GlobalOnly(d.over[n].fit)
  BY LoadedTypes
<1> HIDE DEF d
<1>3. NoSpanOverride'
  BY <1>1, <1>2 DEF NoSpanOverride
<1> QED BY <1>1, <1>2, <1>3, AllMarkedGood

\* Any request of the user is a good step.
LEMMA UserRequestGood ==
  ASSUME TypeOK, NoSpanOverride, UserRequest
  PROVE  GoodStep /\ FramesOf(jobs') \subseteq InFlight
<1>1. ASSUME NEW f \in UserFits, SetFit(f)
      PROVE  GoodStep /\ FramesOf(jobs') \subseteq InFlight
  BY <1>1, SetFitGood
<1>2. ASSUME NEW f \in UserFits, NEW n \in Names, SetOutputFit(n, f)
      PROVE  GoodStep /\ FramesOf(jobs') \subseteq InFlight
  BY <1>2, SetOutputFitGood
<1>3. ASSUME NEW c \in UserColors, SetColor(c)
      PROVE  GoodStep /\ FramesOf(jobs') \subseteq InFlight
  BY <1>3, SetColorGood
<1>4. ASSUME NEW flags \in UserClears, ClearAll(flags)
      PROVE  GoodStep /\ FramesOf(jobs') \subseteq InFlight
  BY <1>4, ClearAllGood
<1>5. ASSUME NEW flags \in UserClears, NEW n \in Names, ClearOutput(flags, n)
      PROVE  GoodStep /\ FramesOf(jobs') \subseteq InFlight
  BY <1>5, ClearOutputGood
<1>6. ASSUME NEW cfg \in UserConfigs, NEW r1 \in ReadableSets,
             NEW r2 \in ReadableSets, Reload(cfg, r1, r2)
      PROVE  GoodStep /\ FramesOf(jobs') \subseteq InFlight
  BY <1>6, ReloadGood
<1> QED BY <1>1, <1>2, <1>3, <1>4, <1>5, <1>6 DEF UserRequest

-----------------------------------------------------------------------------
(* Requests of clients.                                                    *)

LEMMA JobParts ==
  ASSUME NEW j \in Jobs
  PROVE  /\ j.mode \in Modes /\ j.path \in Paths /\ j.names \in SUBSET Names
         /\ j.asked \in BOOLEAN /\ j.frames \in SUBSET Frames /\ j.failed \in BOOLEAN
         /\ j.stages \in Seq(Stages) /\ j.fallback \in Paths \cup {Unset}
BY DEF Jobs

\* A client that goes on to its next frame or stage.
LEMMA StepSound ==
  ASSUME ClientsOK(jobs), NEW j \in Working, NEW k \in Jobs
  PROVE  LET js == Replace(jobs, j, Advance(k))
         IN ClientsOK(js) /\ FramesOf(js) \subseteq InFlight \cup k.frames
<1> DEFINE js == Replace(jobs, j, Advance(k))
<1>1. \A x \in Advance(k) : x \in Jobs /\ x.frames \subseteq k.frames
  BY AdvanceSound
<1>2. /\ DOMAIN js \subseteq (DOMAIN jobs) \cup Advance(k)
      /\ IsABag(jobs) => IsABag(js)
  BY ReplaceSound
<1> HIDE DEF js
<1>3. ClientsOK(js) /\ FramesOf(js) \subseteq InFlight \cup k.frames
  BY <1>1, <1>2 DEF ClientsOK, FramesOf, InFlight
<1> QED BY <1>3 DEF js

\* A client whose frame is sent.
LEMMA SentSound ==
  ASSUME ClientsOK(jobs), NEW j \in Working, NEW f, NEW ok \in BOOLEAN
  PROVE  LET js == Replace(jobs, j, Advance(Sent(j, f, ok)))
         IN ClientsOK(js) /\ FramesOf(js) \subseteq InFlight
<1> DEFINE failed == j.failed \/ ~ok
<1>1. j \in Jobs /\ j.frames \in SUBSET Frames
  BY JobParts DEF ClientsOK, Working
<1>2. Sent(j, f, ok) = [j EXCEPT !.frames = j.frames \ {f}, !.failed = failed]
  BY DEF Sent
<1>3. failed \in BOOLEAN
  OBVIOUS
<1> HIDE DEF failed
<1>4. Sent(j, f, ok) \in Jobs /\ Sent(j, f, ok).frames \subseteq j.frames
  BY <1>1, <1>2, <1>3 DEF Jobs
<1>5. j.frames \subseteq InFlight
  BY DEF InFlight, FramesOf, Working
<1> QED BY <1>4, <1>5, StepSound

LEMMA FrameParts ==
  ASSUME ClientsOK(jobs), NEW f \in InFlight
  PROVE  /\ f \in Frames /\ f.name \in Names /\ f.plug \in Nat /\ f.gen \in Nat
         /\ f.pic \in Pictures
BY JobParts DEF ClientsOK, InFlight, FramesOf, Frames

\* A frame the daemon applies: what is remembered, and the output it is
\* attached to.
LEMMA AppliedSound ==
  ASSUME NEW d \in Daemon, NEW mode, NEW n \in Names, NEW p \in Paths
  PROVE  LET e == SetPalette(Remembered(d, mode, n, p), n, p)
         IN /\ e \in Daemon /\ e.fit = d.fit /\ Fill(e) = Fill(d)
            /\ \A m \in Names : e.over[m].fit = d.over[m].fit
<1> DEFINE r == Remembered(d, mode, n, p)
           e == SetPalette(r, n, p)
<1>1. d.over \in [Names -> Override]
  BY DaemonParts
<1>2. /\ r \in Daemon /\ r.fit = d.fit /\ Fill(r) = Fill(d)
      /\ \A m \in Names : r.over[m].fit = d.over[m].fit
  <2>1. CASE mode = "default"
    <3> DEFINE over == WithoutImages(d.over)
    <3>1. over \in [Names -> Override] /\ \A m \in Names : over[m].fit = d.over[m].fit
      BY <1>1, TableTypes, TableFits
    <3>2. r = [d EXCEPT !.path = p, !.over = over]
      BY <2>1 DEF Remembered
    <3> HIDE DEF over, r
    <3> QED BY <3>1, <3>2 DEF Daemon, Fill
  <2>2. CASE mode = "override"
    <3> DEFINE over == [d.over EXCEPT ![n].path = p]
    <3>1. over \in [Names -> Override] /\ \A m \in Names : over[m].fit = d.over[m].fit
      BY <1>1 DEF Override, Image
    <3>2. r = [d EXCEPT !.over = over]
      BY <2>2 DEF Remembered, Daemon
    <3> HIDE DEF over, r
    <3> QED BY <3>1, <3>2 DEF Daemon, Fill
  <2>3. CASE mode # "default" /\ mode # "override"
    BY <2>3 DEF Remembered
  <2> QED BY <2>1, <2>2, <2>3
<1> HIDE DEF r
<1>3. r.over \in [Names -> Override]
  BY <1>2, DaemonParts
<1>4. /\ e \in Daemon /\ e.fit = r.fit /\ Fill(e) = Fill(r)
      /\ \A m \in Names : e.over[m].fit = r.over[m].fit
  <2>1. CASE r.over[n].path # Unset
    <3> DEFINE over == [r.over EXCEPT ![n].palette = p]
    <3>1. over \in [Names -> Override] /\ \A m \in Names : over[m].fit = r.over[m].fit
      BY <1>3 DEF Override
    <3>2. e = [r EXCEPT !.over = over]
      BY <1>2, <2>1 DEF SetPalette, Daemon
    <3> HIDE DEF over, e
    <3> QED BY <1>2, <3>1, <3>2 DEF Daemon, Fill
  <2>2. CASE r.over[n].path = Unset
    <3>1. e = [r EXCEPT !.palette = p]
      BY <2>2 DEF SetPalette
    <3> QED BY <1>2, <3>1 DEF Daemon, Fill
  <2> QED BY <2>1, <2>2
<1> QED BY <1>2, <1>4 DEF r

LEMMA AttachedSound ==
  ASSUME NEW o \in Output, NEW f \in Frames, NEW mode
  PROVE  LET x == Attached(o, f, mode)
         IN x \in Output /\ SameOutput(x, o) /\ o.gen <= x.gen
<1> DEFINE gen == IF mode = "repaint" THEN o.gen ELSE o.gen + 1
<1>1. o.gen \in Nat /\ f.pic \in Pictures
  BY OutputParts DEF Frames
<1>2. gen \in Nat /\ o.gen <= gen
  BY <1>1
<1>3. Attached(o, f, mode) = [o EXCEPT !.content = f.pic, !.dirty = FALSE, !.gen = gen]
  BY DEF Attached
<1> HIDE DEF gen
<1> QED BY <1>1, <1>2, <1>3 DEF Output, SameOutput

\* A frame that is applied changes no fit and no fill.
LEMMA AppliedGood ==
  ASSUME TypeOK, NoSpanOverride, NEW j \in Working, NEW f \in j.frames,
         NEW ok \in BOOLEAN, SendApplied(j, f, ok)
  PROVE  GoodStep /\ FramesOf(jobs') \subseteq InFlight
<1> DEFINE n == f.name
           d == SetPalette(Remembered(daemon, j.mode, n, j.path), n, j.path)
           x == Attached(out[n], f, j.mode)
           os == [out EXCEPT ![n] = x]
           js == Replace(jobs, j, Advance(Sent(j, f, ok)))
<1>1. daemon' = d
  BY DEF SendApplied
<1>2. \/ ReconcilePaint(d, MarkDirty(os, {n}), js)
      \/ out' = os /\ jobs' = js /\ layoutDirty' = layoutDirty
  BY DEF SendApplied
<1>3. j \in Jobs /\ f \in InFlight /\ ClientsOK(jobs) /\ daemon \in Daemon
  BY DEF TypeOK, ClientsOK, Working, InFlight, FramesOf
<1>4. f \in Frames /\ n \in Names /\ j.path \in Paths
  BY <1>3, FrameParts, JobParts
<1>5. ClientsOK(js) /\ FramesOf(js) \subseteq InFlight
  BY <1>3, SentSound
<1>6. /\ d \in Daemon /\ d.fit = daemon.fit /\ Fill(d) = Fill(daemon)
      /\ \A m \in Names : d.over[m].fit = daemon.over[m].fit
  BY <1>3, <1>4, AppliedSound
<1>7. out[n] \in Output /\ OutputsOK(out)
  BY <1>4, OutSound
<1>8. x \in Output /\ SameOutput(x, out[n]) /\ out[n].gen <= x.gen
  BY <1>4, <1>7, AttachedSound
<1> HIDE DEF d, js, x
<1>9. OutputsOK(os)
  BY <1>4, <1>7, <1>8 DEF OutputsOK, SameOutput
<1>10. \A m \in Names : SameOutput(os[m], out[m]) /\ out[m].gen <= os[m].gen
  BY <1>4, <1>7, <1>8, OutSound DEF OutputsOK
<1> HIDE DEF os, n
<1>11. NoSpanOverride'
  BY <1>1, <1>6 DEF NoSpanOverride
<1>12. \A m \in Names : Alike(d, m)
  BY <1>6, SameFits, RefreshAlike
<1>13. CASE ReconcilePaint(d, MarkDirty(os, {n}), js)
  BY <1>1, <1>4, <1>5, <1>6, <1>9, <1>10, <1>11, <1>12, <1>13, OneMarkedGood
<1>14. CASE out' = os /\ jobs' = js /\ layoutDirty' = layoutDirty
  BY <1>1, <1>5, <1>6, <1>9, <1>10, <1>11, <1>12, <1>14 DEF GoodStep, TypeOK
<1> QED BY <1>2, <1>13, <1>14

\* A frame that is not applied changes nothing but its client.
LEMMA NotAppliedGood ==
  ASSUME TypeOK, NoSpanOverride, UNCHANGED <<daemon, out, layoutDirty>>, ClientsOK(jobs')
  PROVE  GoodStep
BY OutSound DEF GoodStep, TypeOK, NoSpanOverride, Alike

LEMMA SendGood ==
  ASSUME TypeOK, NoSpanOverride, NEW j \in Working, NEW f \in j.frames,
         SendRefused(j, f) \/ SendSuperseded(j, f)
  PROVE  GoodStep /\ FramesOf(jobs') \subseteq InFlight
<1>1. PICK ok \in BOOLEAN : jobs' = Replace(jobs, j, Advance(Sent(j, f, ok)))
  <2>1. CASE SendRefused(j, f)
    BY <2>1 DEF SendRefused
  <2>2. CASE SendSuperseded(j, f)
    BY <2>2 DEF SendSuperseded, Replies
  <2> QED BY <2>1, <2>2
<1>2. UNCHANGED <<daemon, out, layoutDirty>>
  BY DEF SendRefused, SendSuperseded
<1>3. ClientsOK(jobs') /\ FramesOf(jobs') \subseteq InFlight
  BY <1>1, SentSound DEF TypeOK
<1> QED BY <1>2, <1>3, NotAppliedGood

\* A client that was answered.
LEMMA AnsweredSound ==
  ASSUME TypeOK, NEW j \in Jobs
  PROVE  LET k == Answered(j)
         IN /\ k \in Jobs /\ k.asked = TRUE
            /\ k.frames = {FrameFor(j, n) : n \in Selected(j)}
            /\ k.mode = j.mode /\ k.path = j.path /\ k.skip = j.skip
            /\ k.stages = j.stages
<1> DEFINE chosen == Selected(j)
           k == Answered(j)
           frames == {FrameFor(j, n) : n \in chosen}
           failed == chosen = {} /\ j.mode # "repaint"
<1>1. /\ daemon \in Daemon /\ out \in [Names -> Output]
      /\ plugs \in [Names -> Nat] /\ j.path \in Paths
  BY JobParts DEF TypeOK, OutputsOK
<1>2. chosen \subseteq Names
  BY DEF Selected, Configured
<1>3. ASSUME NEW n \in Names PROVE FrameFor(j, n) \in Frames
  <2>1. Render(j.path, EffFit(daemon, n), daemon, out, n) \in Pictures
    BY <1>1, RenderType
  <2>2. out[n].gen \in Nat /\ out[n].rank \in Nat
    BY <1>1, OutputParts
  <2> QED BY <1>1, <2>1, <2>2 DEF FrameFor, Frames
<1>4. frames \in SUBSET Frames
  BY <1>2, <1>3
<1>5. k = [j EXCEPT !.asked = TRUE, !.frames = frames, !.failed = failed]
  BY DEF Answered
<1>6. failed \in BOOLEAN
  OBVIOUS
<1> HIDE DEF failed, frames, chosen, k
<1>7. /\ k \in Jobs /\ k.asked = TRUE /\ k.frames = frames
      /\ k.mode = j.mode /\ k.path = j.path /\ k.skip = j.skip
      /\ k.stages = j.stages
  BY <1>4, <1>5, <1>6 DEF Jobs
<1> QED BY <1>7 DEF k, frames, chosen

\* A client that asks is given frames that are sound.
LEMMA QuerySound ==
  ASSUME TypeOK, NoSpanOverride, NEW j \in Working, Query(j)
  PROVE  /\ GoodStep
         /\ \A f \in FramesOf(jobs') \ InFlight : f \in Frames /\ FrameSound(f)'
<1> DEFINE k == Answered(j)
           frames == {FrameFor(j, n) : n \in Selected(j)}
<1>1. /\ daemon \in Daemon /\ out \in [Names -> Output] /\ ClientsOK(jobs)
      /\ plugs \in [Names -> Nat] /\ j \in Jobs
  BY DEF TypeOK, OutputsOK, ClientsOK, Working
<1>2. Selected(j) \subseteq Names
  BY DEF Selected, Configured
<1>3. k \in Jobs /\ k.frames = frames
  BY <1>1, AnsweredSound
<1>4. frames \in SUBSET Frames
  BY <1>3, JobParts
<1> HIDE DEF frames, k
<1>5. jobs' = Replace(jobs, j, Advance(k)) /\ UNCHANGED <<daemon, out, layoutDirty, plugs>>
  BY DEF Query, Serve, k
<1>6. ClientsOK(jobs') /\ FramesOf(jobs') \subseteq InFlight \cup frames
  BY <1>1, <1>3, <1>5, StepSound
<1>7. GoodStep
  BY <1>5, <1>6, NotAppliedGood
<1>8. phase' = "poll"
  BY DEF Query, Serve
<1>9. ASSUME NEW f \in frames PROVE f \in Frames /\ FrameSound(f)'
  <2>0. PICK n \in Names : f = FrameFor(j, n)
    BY <1>2 DEF frames
  <2>1. /\ f.name = n /\ f.plug = plugs[n] /\ f.gen = out[n].gen
        /\ f.pic = Render(j.path, EffFit(daemon, n), daemon, out, n)
    BY <2>0 DEF FrameFor
  <2>2. plugs[n] \in Nat /\ out[n].gen \in Nat
    BY <1>1, OutputParts
  <2>3. /\ f.pic.fit = EffFit(daemon, n) /\ f.pic.buf = BufferSize(out[n])
        /\ f.pic.fill = IF UsesColor(f.pic.fit) THEN Fill(daemon) ELSE NoFill
        /\ f.pic.span = IF f.pic.fit = "span" THEN Layout(out) ELSE NoSpan
    BY <2>1 DEF Render
  <2>4. UpToDate(f, n)'
    BY <1>5, <2>3 DEF UpToDate
  <2>5. FrameSound(f)'
    BY <1>5, <1>8, <2>1, <2>2, <2>4 DEF FrameSound, SamePlug
  <2> QED BY <1>4, <2>5
<1> QED BY <1>6, <1>7, <1>9

-----------------------------------------------------------------------------
(* Frames stay sound.                                                      *)

LEMMA SameLayout ==
  ASSUME NEW os, NEW pt, \A n \in Names : SameOutput(pt[n], os[n])
  PROVE  Layout(pt) = Layout(os)
BY DEF Layout, SameOutput

LEMMA SameSize ==
  ASSUME NEW o, NEW x, SameOutput(x, o) PROVE BufferSize(x) = BufferSize(o)
BY DEF BufferSize, SameOutput

\* A frame stays sound while the daemon serves a request by a good step.
LEMMA KeptFrame ==
  ASSUME TypeOK, phase = "ipc", phase' = "poll", plugs' = plugs, GoodStep,
         NEW f \in InFlight, FrameSound(f)
  PROVE  FrameSound(f)'
<1> DEFINE n == f.name
<1>1. n \in Names /\ f.gen \in Nat
  BY FrameParts DEF TypeOK
<1>2. SameOutput(out'[n], out[n]) /\ out[n].gen <= out'[n].gen
  BY <1>1 DEF GoodStep
<1>3. out[n].gen \in Nat /\ out'[n].gen \in Nat
  BY <1>1, OutputParts DEF GoodStep, TypeOK, OutputsOK
<1>4. SamePlug(f)' <=> SamePlug(f)
  BY DEF SamePlug
<1>5. f.plug <= plugs'[n]
  BY DEF FrameSound
<1>6. SamePlug(f)' /\ out'[n].plugged => f.gen <= out'[n].gen
  BY <1>1, <1>2, <1>3, <1>4 DEF FrameSound, SameOutput
<1>7. ASSUME SamePlug(f)', out'[n].configured, f.gen = out'[n].gen
      PROVE  UpToDate(f, n)'
  <2>1. out[n].configured /\ (out[n].plugged => f.gen <= out[n].gen)
    BY <1>2, <1>4, <1>7 DEF FrameSound, SameOutput
  <2>2. out[n].plugged
    BY <1>1, <2>1 DEF TypeOK, OutputsOK
  <2>3. f.gen = out[n].gen /\ out'[n].gen = out[n].gen
    BY <1>1, <1>2, <1>3, <1>7, <2>1, <2>2
  <2>4. UpToDate(f, n)
    BY <1>4, <1>7, <2>1, <2>3 DEF FrameSound, Condemned
  <2>5. Alike(daemon', n)
    BY <1>1, <2>1, <2>3 DEF GoodStep
  <2>6. Layout(out') = Layout(out) /\ BufferSize(out'[n]) = BufferSize(out[n])
    BY <1>2, SameLayout, SameSize DEF GoodStep
  <2>7. Settled' <=> Settled
    BY DEF Settled, GoodStep, SameOutput
  <2> QED BY <2>4, <2>5, <2>6, <2>7 DEF UpToDate, Alike, LayoutPending
<1> QED BY <1>4, <1>5, <1>6, <1>7 DEF FrameSound

\* Serving a request.
LEMMA ServeSound ==
  ASSUME TypeOK, FramesSound, Serve, GoodStep,
         \A f \in FramesOf(jobs') \ InFlight : FrameSound(f)'
  PROVE  TypeOK' /\ FramesSound'
<1>1. phase = "ipc" /\ phase' = "poll" /\ UNCHANGED <<listed, plugs>>
  BY DEF Serve
<1>2. TypeOK'
  BY <1>1 DEF TypeOK, GoodStep
<1>3. SizedByConfigure'
  BY DEF SizedByConfigure, FramesSound, GoodStep, SameOutput
<1>4. \A f \in InFlight : FrameSound(f)'
  BY <1>1, KeptFrame DEF FramesSound
<1>5. \A f \in InFlight' : FrameSound(f)'
  BY <1>4 DEF InFlight
<1> QED BY <1>2, <1>3, <1>5 DEF FramesSound, GoodStep

\* A step of the clients alone.
LEMMA ClientsAlone ==
  ASSUME TypeOK, FramesSound, UNCHANGED <<phase, daemon, out, layoutDirty, listed, plugs>>,
         ClientsOK(jobs'), FramesOf(jobs') \subseteq InFlight
  PROVE  TypeOK' /\ FramesSound'
<1>1. TypeOK'
  BY DEF TypeOK
<1>2. NoSpanOverride' /\ SizedByConfigure'
  BY DEF FramesSound, NoSpanOverride, SizedByConfigure
<1>3. ASSUME NEW f, FrameSound(f) PROVE FrameSound(f)'
  BY <1>3 DEF FrameSound, SamePlug, Condemned, UpToDate, Settled, LayoutPending
<1>4. \A f \in InFlight' : FrameSound(f)'
  BY <1>3 DEF InFlight, FramesSound
<1> QED BY <1>1, <1>2, <1>4 DEF FramesSound

\* A client that fails has no frames it did not have.
LEMMA ClientFaultFrames ==
  ASSUME TypeOK, ClientFault
  PROVE  ClientsOK(jobs') /\ FramesOf(jobs') \subseteq InFlight
<1>1. PICK j \in Working : Fail(j) \/ Die(j)
  BY DEF ClientFault
<1>2. ClientsOK(jobs) /\ j \in Jobs /\ j.frames \subseteq InFlight
  BY DEF TypeOK, ClientsOK, Working, InFlight, FramesOf
<1>3. CASE jobs' = Replace(jobs, j, Advance([j EXCEPT !.asked = TRUE, !.failed = TRUE]))
  <2> DEFINE k == [j EXCEPT !.asked = TRUE, !.failed = TRUE]
  <2>1. k \in Jobs /\ k.frames = j.frames
    BY <1>2 DEF Jobs
  <2> HIDE DEF k
  <2>2. ClientsOK(jobs') /\ FramesOf(jobs') \subseteq InFlight \cup k.frames
    BY <1>2, <1>3, <2>1, StepSound DEF k
  <2> QED BY <1>2, <2>1, <2>2
<1>4. CASE \E f \in j.frames : jobs' = Replace(jobs, j, Advance(Sent(j, f, FALSE)))
  BY <1>2, <1>4, SentSound
<1>5. CASE Die(j)
  <2>1. DOMAIN jobs' \subseteq DOMAIN jobs /\ IsABag(jobs')
    BY <1>2, <1>5, BagRemove DEF Die, ClientsOK
  <2> QED BY <1>2, <2>1 DEF ClientsOK, FramesOf, InFlight
<1> QED BY <1>1, <1>3, <1>4, <1>5 DEF Fail

LEMMA ClientFaultSound ==
  ASSUME TypeOK, FramesSound, ClientFault
  PROVE  TypeOK' /\ FramesSound'
<1>1. UNCHANGED <<phase, daemon, out, layoutDirty, listed, plugs>>
  BY DEF ClientFault, Fail, Die
<1> QED BY <1>1, ClientFaultFrames, ClientsAlone

LEMMA StartImgSound ==
  ASSUME TypeOK, FramesSound, NEW cmd \in ImgCommands, StartImg(cmd)
  PROVE  TypeOK' /\ FramesSound'
<1>1. ImgJob(cmd) \in Jobs /\ ImgJob(cmd).frames = {}
  BY ImgJobType
<1>2. DOMAIN jobs' = (DOMAIN jobs) \cup {ImgJob(cmd)} /\ IsABag(jobs')
  BY BagAdd DEF StartImg, TypeOK, ClientsOK
<1>3. ClientsOK(jobs') /\ FramesOf(jobs') \subseteq InFlight
  BY <1>1, <1>2 DEF TypeOK, ClientsOK, FramesOf, InFlight
<1>4. UNCHANGED <<phase, daemon, out, layoutDirty, listed, plugs>>
  BY DEF StartImg
<1> QED BY <1>3, <1>4, ClientsAlone

LEMMA ClientRequestSound ==
  ASSUME TypeOK, FramesSound, ClientRequest
  PROVE  TypeOK' /\ FramesSound'
<1>1. NoSpanOverride
  BY DEF FramesSound
<1>2. ASSUME NEW j \in Working, Query(j) PROVE TypeOK' /\ FramesSound'
  BY <1>1, <1>2, QuerySound, ServeSound DEF Query
<1>3. ASSUME NEW j \in Working, NEW f \in j.frames, SendRefused(j, f)
      PROVE  TypeOK' /\ FramesSound'
  <2>1. GoodStep /\ FramesOf(jobs') \subseteq InFlight
    BY <1>1, <1>3, SendGood
  <2> QED BY <1>3, <2>1, ServeSound DEF SendRefused
<1>4. ASSUME NEW j \in Working, NEW f \in j.frames, SendSuperseded(j, f)
      PROVE  TypeOK' /\ FramesSound'
  <2>1. GoodStep /\ FramesOf(jobs') \subseteq InFlight
    BY <1>1, <1>4, SendGood
  <2> QED BY <1>4, <2>1, ServeSound DEF SendSuperseded
<1>5. ASSUME NEW j \in Working, NEW f \in j.frames, NEW ok \in Replies, SendApplied(j, f, ok)
      PROVE  TypeOK' /\ FramesSound'
  <2>1. ok \in BOOLEAN
    BY DEF Replies
  <2>2. GoodStep /\ FramesOf(jobs') \subseteq InFlight
    BY <1>1, <1>5, <2>1, AppliedGood
  <2>3. Serve
    BY <1>5 DEF SendApplied
  <2> QED BY <2>2, <2>3, ServeSound
<1> QED BY <1>2, <1>3, <1>4, <1>5 DEF ClientRequest

LEMMA UserRequestSound ==
  ASSUME TypeOK, FramesSound, UserRequest
  PROVE  TypeOK' /\ FramesSound'
<1>1. GoodStep /\ FramesOf(jobs') \subseteq InFlight
  BY UserRequestGood DEF FramesSound
<1>2. Serve
  BY DEF UserRequest, SetFit, SetOutputFit, SetColor, ClearAll, ClearOutput, Reload
<1> QED BY <1>1, <1>2, ServeSound

\* Frames of an output that is gone say nothing.
LEMMA DeadFrames ==
  ASSUME TypeOK', plugs' = plugs, FramesOf(jobs') \subseteq InFlight,
         \A f \in InFlight : f.name \in Names,
         \A f \in InFlight : FrameSound(f),
         \A f \in InFlight : SamePlug(f) => ~out'[f.name].plugged
  PROVE  \A f \in InFlight' : FrameSound(f)'
<1> SUFFICES ASSUME NEW f \in InFlight' PROVE FrameSound(f)'
  OBVIOUS
<1>1. f \in InFlight /\ f.name \in Names
  BY DEF InFlight
<1>2. f.plug <= plugs'[f.name]
  BY <1>1 DEF FrameSound
<1>3. SamePlug(f)' => ~out'[f.name].plugged
  BY <1>1 DEF SamePlug
<1>4. out'[f.name].configured => out'[f.name].plugged
  BY <1>1 DEF TypeOK, OutputsOK
<1> QED BY <1>2, <1>3, <1>4 DEF FrameSound

\* Creating the missing surfaces.
LEMMA EnsureSound ==
  ASSUME NEW os, OutputsOK(os)
  PROVE  /\ OutputsOK(EnsureSurfaces(os))
         /\ \A n \in Names :
              LET e == EnsureSurfaces(os)[n]
              IN /\ e.plugged = os[n].plugged /\ e.configured = os[n].configured
                 /\ e.box = os[n].box /\ e.moved = os[n].moved /\ e.gen = os[n].gen
                 /\ e.configured => e = os[n]
                 /\ e.live /\ ~e.configured => e.width = 0 \/ e = os[n]
<1> DEFINE es == EnsureSurfaces(os)
<1>1. os \in [Names -> Output]
  BY DEF OutputsOK
<1>2. ASSUME NEW o \in Output
      PROVE  LET x == NewSurface(o)
             IN /\ x \in Output /\ x.plugged = o.plugged /\ x.live = TRUE
                /\ x.configured = FALSE /\ x.box = o.box /\ x.moved = o.moved
                /\ x.gen = o.gen /\ x.width = 0
  <2>1. Nothing \in Pictures
    BY PictureTypes
  <2> QED BY <2>1 DEF NewSurface, Output
<1>3. \A n \in Names : es[n] = IF os[n].plugged /\ ~os[n].live THEN NewSurface(os[n])
                                                              ELSE os[n]
  BY DEF EnsureSurfaces
<1>4. es = [n \in Names |-> es[n]]
  BY DEF EnsureSurfaces
<1> HIDE DEF es
<1>5. ASSUME NEW n \in Names
      PROVE  /\ es[n] \in Output
             /\ es[n].configured => es[n].live
             /\ es[n].live => es[n].plugged
             /\ es[n].plugged = os[n].plugged /\ es[n].configured = os[n].configured
             /\ es[n].box = os[n].box /\ es[n].moved = os[n].moved /\ es[n].gen = os[n].gen
             /\ es[n].configured => es[n] = os[n]
             /\ es[n].live /\ ~es[n].configured => es[n].width = 0 \/ es[n] = os[n]
  <2>1. /\ os[n] \in Output /\ os[n].configured \in BOOLEAN
        /\ os[n].configured => os[n].live
        /\ os[n].live => os[n].plugged
    BY <1>1, OutputParts DEF OutputsOK
  <2>2. CASE os[n].plugged /\ ~os[n].live
    <3>1. es[n] = NewSurface(os[n])
      BY <1>3, <2>2
    <3> QED BY <1>2, <2>1, <2>2, <3>1
  <2>3. CASE ~(os[n].plugged /\ ~os[n].live)
    BY <1>3, <2>1, <2>3
  <2> QED BY <2>2, <2>3
<1>6. OutputsOK(es)
  BY <1>4, <1>5 DEF OutputsOK
<1> QED BY <1>5, <1>6 DEF es

\* The loop: the first surfaces, the configuration, a reconcile, no request.
LEMMA FirstSurfacesSound ==
  ASSUME TypeOK, FramesSound, FirstSurfaces PROVE TypeOK' /\ FramesSound'
<1>1. OutputsOK(out) /\ \A f \in InFlight : f.name \in Names /\ FrameSound(f)
  BY FrameParts DEF TypeOK, FramesSound
<1>2. phase = "registry" /\ phase' = "surfaces" /\ out' = EnsureSurfaces(out)
      /\ UNCHANGED <<daemon, layoutDirty, listed, jobs, plugs>>
  BY DEF FirstSurfaces
<1>3. TypeOK'
  BY <1>1, <1>2, EnsureSound DEF TypeOK
<1>4. \A n \in Names : out'[n].plugged = out[n].plugged
  BY <1>1, <1>2, EnsureSound
<1>9. \A n \in Names :
        out'[n].live /\ ~out'[n].configured => out'[n].width = 0 \/ out'[n] = out[n]
  BY <1>1, <1>2, EnsureSound
<1>5. SizedByConfigure'
  <2> SUFFICES ASSUME NEW n \in Names, out'[n].live, ~out'[n].configured
               PROVE  out'[n].width = 0
    BY DEF SizedByConfigure
  <2>1. CASE out'[n] = out[n]
    <3>1. out[n].live /\ ~out[n].configured
      BY <2>1
    <3>2. out[n].width = 0
      BY <3>1 DEF FramesSound, SizedByConfigure
    <3> QED BY <2>1, <3>2
  <2> QED BY <1>9, <2>1
<1>6. ASSUME NEW f \in InFlight, SamePlug(f) PROVE ~out'[f.name].plugged
  <2>1. f.name \in Names /\ ~out[f.name].plugged
    BY <1>1, <1>2, <1>6 DEF FrameSound
  <2> QED BY <1>4, <2>1
<1>7. FramesOf(jobs') \subseteq InFlight /\ plugs' = plugs
  BY <1>2 DEF InFlight
<1>8. \A f \in InFlight' : FrameSound(f)'
  BY <1>1, <1>3, <1>6, <1>7, DeadFrames
<1> QED BY <1>2, <1>3, <1>5, <1>8 DEF FramesSound, NoSpanOverride

LEMMA StartSound ==
  ASSUME TypeOK, FramesSound, NEW cfg \in UserConfigs, NEW readable \in ReadableSets,
         Start(cfg, readable)
  PROVE  TypeOK' /\ FramesSound'
<1> DEFINE d == Loaded(cfg, readable)
<1>1. /\ OutputsOK(out) /\ ClientsOK(jobs) /\ layoutDirty \in BOOLEAN
      /\ \A f \in InFlight : f.name \in Names /\ FrameSound(f)
  BY FrameParts DEF TypeOK, FramesSound
<1>2. /\ phase = "surfaces" /\ phase' = "contents" /\ daemon' = d
      /\ ReconcilePaint(d, out, jobs) /\ UNCHANGED <<listed, plugs>>
  BY DEF Start
<1>3. d \in Daemon /\ \A n \in Names : ~GlobalOnly(d.over[n].fit)
  BY LoadedTypes
<1> HIDE DEF d
<1>4. /\ OutputsOK(out') /\ layoutDirty' = FALSE
      /\ ClientsOK(jobs') /\ FramesOf(jobs') \subseteq FramesOf(jobs)
      /\ \A n \in Names : SameOutput(out'[n], out[n])
  BY <1>1, <1>2, <1>3, ReconcilePaintSound
<1>5. TypeOK'
  BY <1>2, <1>3, <1>4 DEF TypeOK
<1>6. NoSpanOverride' /\ SizedByConfigure'
  BY <1>2, <1>3, <1>4 DEF NoSpanOverride, SizedByConfigure, FramesSound, SameOutput
<1>7. \A f \in InFlight : SamePlug(f) => ~out'[f.name].plugged
  BY <1>1, <1>2, <1>4 DEF FrameSound, SameOutput
<1>8. \A f \in InFlight' : FrameSound(f)'
  BY <1>1, <1>2, <1>4, <1>5, <1>7, DeadFrames DEF InFlight
<1> QED BY <1>5, <1>6, <1>8 DEF FramesSound

LEMMA ReconcileSound ==
  ASSUME TypeOK, FramesSound, Reconcile PROVE TypeOK' /\ FramesSound'
<1> DEFINE os == EnsureSurfaces(out)
<1>1. /\ OutputsOK(out) /\ ClientsOK(jobs) /\ layoutDirty \in BOOLEAN
      /\ daemon \in Daemon /\ \A n \in Names : out[n].gen \in Nat
      /\ \A f \in InFlight : f.name \in Names /\ f.gen \in Nat /\ FrameSound(f)
  BY FrameParts, OutSound DEF TypeOK, FramesSound
<1>2. /\ phase = "dispatch" /\ phase' = "ipc" /\ ReconcilePaint(daemon, os, jobs)
      /\ UNCHANGED <<daemon, listed, plugs>>
  BY DEF Reconcile
<1>3. /\ OutputsOK(os)
      /\ \A n \in Names :
           /\ os[n].plugged = out[n].plugged /\ os[n].configured = out[n].configured
           /\ os[n].box = out[n].box /\ os[n].moved = out[n].moved /\ os[n].gen = out[n].gen
           /\ os[n].configured => os[n] = out[n]
           /\ os[n].live /\ ~os[n].configured => os[n].width = 0 \/ os[n] = out[n]
  BY <1>1, EnsureSound
<1> HIDE DEF os
<1>4. /\ OutputsOK(out') /\ layoutDirty' = FALSE
      /\ ClientsOK(jobs') /\ FramesOf(jobs') \subseteq FramesOf(jobs)
      /\ \A n \in Names :
           /\ SameOutput(out'[n], os[n]) /\ os[n].gen <= out'[n].gen
           /\ out'[n].configured /\ out'[n].gen = os[n].gen =>
                ~os[n].dirty /\ ~(daemon.fit = "span" /\ SpanDue(os, layoutDirty))
  BY <1>1, <1>2, <1>3, ReconcilePaintSound
<1>5. TypeOK'
  BY <1>1, <1>2, <1>4 DEF TypeOK
<1>6. NoSpanOverride' /\ SizedByConfigure'
  BY <1>2, <1>3, <1>4 DEF NoSpanOverride, SizedByConfigure, FramesSound, SameOutput
<1>7. ASSUME NEW f \in InFlight PROVE FrameSound(f)'
  <2> DEFINE n == f.name
  <2>1. n \in Names /\ f.gen \in Nat /\ FrameSound(f)
    BY <1>1
  <2>2. SamePlug(f)' <=> SamePlug(f)
    BY <1>2 DEF SamePlug
  <2>3. out'[n].gen \in Nat /\ out[n].gen \in Nat
    BY <1>1, <1>4, <2>1, OutputParts DEF OutputsOK
  <2>4. /\ out'[n].plugged = out[n].plugged /\ out'[n].configured = out[n].configured
        /\ out[n].gen <= out'[n].gen
    BY <1>3, <1>4, <2>1 DEF SameOutput
  <2>5. f.plug <= plugs'[n]
    BY <1>2, <2>1 DEF FrameSound
  <2>6. SamePlug(f)' /\ out'[n].plugged => f.gen <= out'[n].gen
    BY <2>1, <2>2, <2>3, <2>4 DEF FrameSound
  <2>7. ASSUME SamePlug(f)', out'[n].configured, f.gen = out'[n].gen
        PROVE  UpToDate(f, n)'
    <3>1. out[n].configured /\ out[n].plugged /\ f.gen <= out[n].gen
      BY <1>1, <2>1, <2>2, <2>4, <2>7 DEF FrameSound, OutputsOK
    <3>2. f.gen = out[n].gen /\ out'[n].gen = os[n].gen
      BY <1>3, <2>1, <2>3, <2>4, <2>7, <3>1
    <3>3. ~os[n].dirty /\ ~(daemon.fit = "span" /\ SpanDue(os, layoutDirty))
      BY <1>4, <2>1, <2>7, <3>2
    <3>4. os[n] = out[n]
      BY <1>3, <2>1, <3>1
    <3>5. UpToDate(f, n)
      BY <2>1, <2>2, <2>7, <3>1, <3>2, <3>3, <3>4 DEF FrameSound, Condemned
    <3>6. BufferSize(out'[n]) = BufferSize(out[n])
      BY <1>4, <2>1, <3>4, SameSize
    <3>7. daemon.over[n].fit # "span"
      BY <2>1 DEF FramesSound, NoSpanOverride, GlobalOnly
    <3>8. ASSUME f.pic.fit = "span", Settled' PROVE f.pic.span = Layout(out')
      <4>1. daemon.fit = "span"
        BY <3>5, <3>7, <3>8 DEF UpToDate, EffFit
      <4>2. ~SpanDue(os, layoutDirty)
        BY <3>3, <4>1
      <4>3. ~LayoutPending
        BY <1>3, <4>2 DEF SpanDue, LayoutPending
      <4>4. Settled
        BY <1>3, <1>4, <3>8 DEF Settled, SameOutput
      <4>5. f.pic.span = Layout(out)
        BY <3>5, <3>8, <4>3, <4>4 DEF UpToDate
      <4>6. \A m \in Names : /\ out'[m].configured = out[m].configured
                             /\ out'[m].box = out[m].box
        BY <1>3, <1>4 DEF SameOutput
      <4>7. Layout(out') = Layout(out)
        BY <4>6 DEF Layout
      <4> QED BY <4>5, <4>7
    <3>9. /\ f.pic.fit = EffFit(daemon', n)
          /\ f.pic.buf = BufferSize(out'[n])
          /\ f.pic.fill = IF UsesColor(f.pic.fit) THEN Fill(daemon') ELSE NoFill
          /\ f.pic.fit # "span" => f.pic.span = NoSpan
      BY <1>2, <3>5, <3>6 DEF UpToDate
    <3> QED BY <3>8, <3>9 DEF UpToDate
  <2> QED BY <1>2, <2>5, <2>6, <2>7 DEF FrameSound
<1>8. \A f \in InFlight' : FrameSound(f)'
  BY <1>4, <1>7 DEF InFlight
<1> QED BY <1>5, <1>6, <1>8 DEF FramesSound

LEMMA LoopSound ==
  ASSUME TypeOK, FramesSound, Loop PROVE TypeOK' /\ FramesSound'
<1>1. CASE NoRequest
  <2>1. /\ phase = "ipc" /\ phase' = "poll"
        /\ UNCHANGED <<daemon, out, layoutDirty, listed, jobs, plugs>>
    BY <1>1 DEF NoRequest
  <2>2. ClientsOK(jobs') /\ FramesOf(jobs') \subseteq InFlight /\ NoSpanOverride
    BY <2>1 DEF TypeOK, FramesSound, InFlight
  <2>3. GoodStep /\ Serve
    BY <2>1, <2>2, NotAppliedGood DEF Serve
  <2> QED BY <2>2, <2>3, ServeSound
<1> QED BY <1>1, FirstSurfacesSound, StartSound, ReconcileSound DEF Loop

\* Waking up changes nothing, and what is condemned stays so.
LEMMA WakeSound ==
  ASSUME TypeOK, FramesSound, Wake PROVE TypeOK' /\ FramesSound'
<1>1. /\ phase \in {"contents", "poll"} /\ phase' = "dispatch"
      /\ UNCHANGED <<daemon, out, layoutDirty, listed, jobs, plugs>>
  BY DEF Wake
<1>2. TypeOK'
  BY <1>1 DEF TypeOK
<1>3. NoSpanOverride' /\ SizedByConfigure'
  BY <1>1 DEF FramesSound, NoSpanOverride, SizedByConfigure
<1>4. ASSUME NEW f, FrameSound(f) PROVE FrameSound(f)'
  BY <1>1, <1>4 DEF FrameSound, SamePlug, Condemned, UpToDate, Settled, LayoutPending
<1>5. \A f \in InFlight' : FrameSound(f)'
  BY <1>1, <1>4 DEF InFlight, FramesSound
<1> QED BY <1>2, <1>3, <1>5 DEF FramesSound

\* The daemon's end and its next start.
LEMMA StopSound ==
  ASSUME TypeOK, FramesSound, Stop PROVE TypeOK' /\ FramesSound'
<1>1. /\ phase' = "down" /\ daemon' = NoDaemon /\ out' = [n \in Names |-> Unplugged]
      /\ layoutDirty' = FALSE /\ listed' = 0 /\ UNCHANGED <<jobs, plugs>>
  BY DEF Stop
<1>2. NoOverride \in Override
  BY DEF NoOverride, Override, Image
<1>3. NoDaemon \in Daemon
  BY <1>2, DataAssumption DEF NoDaemon, Daemon, Fits
<1>4. \A n \in Names : out'[n] = Unplugged
  BY <1>1
<1>5. /\ Unplugged \in Output /\ Unplugged.plugged = FALSE
      /\ Unplugged.live = FALSE /\ Unplugged.configured = FALSE
  BY NewOutputTypes DEF Unplugged
<1>6. OutputsOK(out')
  BY <1>1, <1>5 DEF OutputsOK
<1>7. TypeOK'
  BY <1>1, <1>3, <1>6 DEF TypeOK
<1>8. NoSpanOverride' /\ SizedByConfigure'
  BY <1>1, <1>4, <1>5 DEF NoSpanOverride, SizedByConfigure, NoDaemon, NoOverride, GlobalOnly, Unset
<1>9. \A f \in InFlight : f.name \in Names /\ FrameSound(f)
  BY FrameParts DEF TypeOK, FramesSound
<1>10. \A f \in InFlight' : FrameSound(f)'
  BY <1>1, <1>4, <1>5, <1>7, <1>9, DeadFrames DEF InFlight
<1> QED BY <1>7, <1>8, <1>10 DEF FramesSound

LEMMA BootSound ==
  ASSUME TypeOK, FramesSound, Boot PROVE TypeOK' /\ FramesSound'
<1>1. /\ phase = "down" /\ phase' = "registry"
      /\ UNCHANGED <<daemon, out, layoutDirty, listed, jobs, plugs>>
  BY DEF Boot
<1>2. TypeOK'
  BY <1>1 DEF TypeOK
<1>3. NoSpanOverride' /\ SizedByConfigure'
  BY <1>1 DEF NoSpanOverride, SizedByConfigure, FramesSound
<1>4. \A f \in InFlight : f.name \in Names /\ FrameSound(f)
  BY FrameParts DEF TypeOK, FramesSound
<1>5. \A f \in InFlight : SamePlug(f) => ~out'[f.name].plugged
  BY <1>1, <1>4 DEF FrameSound
<1>6. \A f \in InFlight' : FrameSound(f)'
  BY <1>1, <1>2, <1>4, <1>5, DeadFrames DEF InFlight
<1> QED BY <1>2, <1>3, <1>6 DEF FramesSound

\* An event that unplugs an output, condemns it or leaves it as it was, and
\* one that leaves the layout pending or as it was.
OutputKept(m) ==
  /\ out'[m].plugged => out[m].plugged /\ out'[m].gen = out[m].gen
  /\ out'[m].configured => out'[m].plugged
  /\ out'[m].configured /\ ~out'[m].dirty =>
       /\ out[m].configured /\ ~out[m].dirty
       /\ out'[m].content = out[m].content
       /\ BufferSize(out'[m]) = BufferSize(out[m])

\* a name that is plugged in has no surface yet
Fresh(m) == plugs'[m] = plugs[m] + 1 /\ ~out'[m].configured

LayoutKept ==
  Settled' /\ ~LayoutPending' => Settled /\ ~LayoutPending /\ Layout(out') = Layout(out)

\* A frame stays sound through such an event.
LEMMA EventKept ==
  ASSUME NEW f, FrameSound(f), phase # "ipc", phase' = phase, daemon' = daemon,
         plugs'[f.name] = plugs[f.name], OutputKept(f.name), LayoutKept
  PROVE  FrameSound(f)'
<1> DEFINE n == f.name
<1>1. SamePlug(f)' <=> SamePlug(f)
  BY DEF SamePlug
<1>2. f.plug <= plugs'[n]
  BY DEF FrameSound
<1>3. SamePlug(f)' /\ out'[n].plugged => phase' \in {"contents", "poll", "dispatch", "ipc"} /\ f.gen <= out'[n].gen
  BY <1>1 DEF FrameSound, OutputKept
<1>4. ASSUME SamePlug(f)', out'[n].configured, f.gen = out'[n].gen, ~Condemned(n)'
      PROVE  UpToDate(f, n)'
  <2>1. ~out'[n].dirty /\ f.gen = out[n].gen
    BY <1>4 DEF Condemned, OutputKept
  <2>2. UpToDate(f, n)
    BY <1>1, <1>4, <2>1 DEF FrameSound, Condemned, OutputKept
  <2>3. BufferSize(out'[n]) = BufferSize(out[n])
    BY <1>4, <2>1 DEF OutputKept
  <2>4. /\ f.pic.fit = EffFit(daemon', n)
        /\ f.pic.buf = BufferSize(out'[n])
        /\ f.pic.fill = IF UsesColor(f.pic.fit) THEN Fill(daemon') ELSE NoFill
        /\ f.pic.fit # "span" => f.pic.span = NoSpan
    BY <2>2, <2>3 DEF UpToDate
  <2>5. f.pic.fit = "span" /\ Settled' /\ ~LayoutPending' => f.pic.span = Layout(out')
    BY <2>2 DEF UpToDate, LayoutKept
  <2> QED BY <2>4, <2>5 DEF UpToDate
<1> QED BY <1>2, <1>3, <1>4 DEF FrameSound

LEMMA LayoutSame ==
  ASSUME NEW os, NEW pt,
         \A m \in Names : pt[m].configured = os[m].configured /\ pt[m].box = os[m].box
  PROVE  Layout(pt) = Layout(os)
BY DEF Layout

\* An event that keeps layout and surfaces, and cleans no output.
LEMMA LayoutStays ==
  ASSUME phase # "ipc", phase' = phase, layoutDirty' = layoutDirty,
         \A m \in Names :
           /\ out'[m].plugged = out[m].plugged /\ out'[m].configured = out[m].configured
           /\ out'[m].box = out[m].box /\ out'[m].moved = out[m].moved
           /\ out[m].dirty => out'[m].dirty
  PROVE  LayoutKept
<1>1. Layout(out') = Layout(out)
  BY LayoutSame
<1>2. Settled' => Settled
  BY DEF Settled
<1>3. ~LayoutPending' => ~LayoutPending
  BY DEF LayoutPending
<1> QED BY <1>1, <1>2, <1>3 DEF LayoutKept

LEMMA UntouchedKept ==
  ASSUME NEW m, out'[m] = out[m], out[m].configured => out[m].plugged
  PROVE  OutputKept(m)
BY DEF OutputKept

\* What no event of the compositor touches.
LEMMA EventPhase ==
  ASSUME CompositorEvent
  PROVE  phase # "ipc" /\ phase' = phase /\ daemon' = daemon /\ jobs' = jobs
<1>1. PICK n \in Names :
        \/ \E b \in Boxes : Plug(n, b) \/ Move(n, b)
        \/ Unplug(n)
        \/ \E s \in Scales : Scale(n, s)
        \/ \E r \in Fractions : PreferredScale(n, r)
        \/ \E w \in Widths : Configure(n, w)
        \/ Closed(n)
  BY DEF CompositorEvent
<1>2. CASE \E b \in Boxes : Plug(n, b) \/ Move(n, b)
  BY <1>2 DEF Plug, Move, Dispatching
<1>3. CASE Unplug(n) \/ Closed(n)
  BY <1>3 DEF Unplug, Closed, Dispatching
<1>4. CASE \E s \in Scales : Scale(n, s)
  BY <1>4 DEF Scale, Dispatching
<1>5. CASE \E r \in Fractions : PreferredScale(n, r)
  BY <1>5 DEF PreferredScale, Dispatching
<1>6. CASE \E w \in Widths : Configure(n, w)
  BY <1>6 DEF Configure, Dispatching
<1> QED BY <1>1, <1>2, <1>3, <1>4, <1>5, <1>6

\* What the compositor's events do.
LEMMA EventKeeps ==
  ASSUME TypeOK, FramesSound, CompositorEvent
  PROVE  /\ LayoutKept
         /\ \A m \in Names : /\ Fresh(m) \/ (plugs'[m] = plugs[m] /\ OutputKept(m))
                             /\ out'[m].live => out[m].live
<1> DEFINE Keeps == /\ LayoutKept
                    /\ \A m \in Names : /\ Fresh(m) \/ (plugs'[m] = plugs[m] /\ OutputKept(m))
                                        /\ out'[m].live => out[m].live
<1>1. PICK n \in Names :
        \/ \E b \in Boxes : Plug(n, b) \/ Move(n, b)
        \/ Unplug(n)
        \/ \E s \in Scales : Scale(n, s)
        \/ \E r \in Fractions : PreferredScale(n, r)
        \/ \E w \in Widths : Configure(n, w)
        \/ Closed(n)
  BY DEF CompositorEvent
<1>2. /\ \A m \in Names : plugs[m] \in Nat /\ out[m] \in Output
      /\ out \in [Names -> Output] /\ out[n] \in Output /\ plugs \in [Names -> Nat]
  BY DEF TypeOK, OutputsOK
<1>3. \A m \in Names : out[m].configured => out[m].plugged
  BY DEF TypeOK, OutputsOK
<1>3b. out[n].live => out[n].plugged
  BY DEF TypeOK, OutputsOK
<1>4. phase # "ipc" /\ phase' = phase /\ daemon' = daemon
  BY EventPhase
<1>5. ASSUME NEW m \in Names, out'[m] = out[m] PROVE OutputKept(m)
  BY <1>3, <1>5, UntouchedKept
\* an event that changes one output, and plugs none in
<1>8. ASSUME NEW x, out' = [out EXCEPT ![n] = x], plugs' = plugs, LayoutKept, OutputKept(n),
             x.live => out[n].live
      PROVE  Keeps
  <2>1. out'[n] = x /\ \A m \in Names \ {n} : out'[m] = out[m]
    BY <1>2, <1>8
  <2>2. \A m \in Names : plugs'[m] = plugs[m] /\ OutputKept(m)
    BY <1>5, <1>8, <2>1
  <2>3. \A m \in Names : out'[m].live => out[m].live
    BY <1>8, <2>1
  <2> QED BY <1>8, <2>2, <2>3
<1>7. ASSUME NEW b \in Boxes, Plug(n, b) PROVE Keeps
  <2> DEFINE x == NewOutput(b, listed + 1)
  <2>1. /\ out' = [out EXCEPT ![n] = x] /\ layoutDirty' = TRUE
        /\ plugs' = [plugs EXCEPT ![n] = plugs[n] + 1]
    BY <1>7 DEF Plug
  <2>2. ~x.configured /\ ~x.live
    BY DEF NewOutput, Unplugged
  <2> HIDE DEF x
  <2>3. /\ out'[n] = x /\ plugs'[n] = plugs[n] + 1
        /\ \A m \in Names \ {n} : out'[m] = out[m] /\ plugs'[m] = plugs[m]
    BY <1>2, <2>1
  <2>4. LayoutKept
    BY <1>4, <2>1 DEF LayoutPending, LayoutKept
  <2>5. Fresh(n) /\ ~out'[n].live
    BY <2>2, <2>3 DEF Fresh
  <2>6. \A m \in Names \ {n} : plugs'[m] = plugs[m] /\ OutputKept(m)
    BY <1>5, <2>3
  <2>7. \A m \in Names : out'[m].live => out[m].live
    BY <2>3, <2>5
  <2> QED BY <2>4, <2>5, <2>6, <2>7
<1>9. ASSUME NEW b \in Boxes, Move(n, b) PROVE Keeps
  <2> DEFINE x == Moved(out[n], b)
  <2>1. out' = [out EXCEPT ![n] = x] /\ plugs' = plugs
    BY <1>9, EventOutput DEF Move
  <2>2. /\ x.plugged = out[n].plugged /\ x.gen = out[n].gen /\ x.moved = TRUE
        /\ x.configured = out[n].configured /\ x.dirty = out[n].dirty
        /\ x.live = out[n].live /\ x.content = out[n].content
        /\ BufferSize(x) = BufferSize(out[n])
    BY <1>2 DEF Moved, Output, BufferSize
  <2> HIDE DEF x
  <2>3. out'[n] = x
    BY <1>2, <2>1
  <2>4. LayoutPending'
    BY <1>4, <2>2, <2>3 DEF LayoutPending
  <2>5. OutputKept(n)
    BY <1>3, <2>2, <2>3 DEF OutputKept
  <2>6. LayoutKept
    BY <2>4 DEF LayoutKept
  <2> QED BY <1>8, <2>1, <2>2, <2>5, <2>6
<1>10. CASE Unplug(n)
  <2>1. out' = [out EXCEPT ![n] = Unplugged] /\ layoutDirty' = TRUE /\ plugs' = plugs
    BY <1>10 DEF Unplug
  <2>2. LayoutKept
    BY <1>4, <2>1 DEF LayoutPending, LayoutKept
  <2>3. ~out'[n].plugged /\ ~out'[n].configured /\ ~Unplugged.live
    BY <1>2, <2>1 DEF Unplugged
  <2>4. OutputKept(n)
    BY <2>3 DEF OutputKept
  <2> DEFINE x == Unplugged
  <2>5. out' = [out EXCEPT ![n] = x] /\ (x.live => out[n].live)
    BY <2>1, <2>3
  <2> HIDE DEF x
  <2> QED BY <1>8, <2>1, <2>2, <2>4, <2>5
\* a change of scale: the output is dirty, the layout as it was
<1>11. ASSUME NEW x \in Output, out' = [out EXCEPT ![n] = x], plugs' = plugs,
              layoutDirty' = layoutDirty, x.plugged = out[n].plugged, x.gen = out[n].gen,
              x.configured = out[n].configured, x.box = out[n].box,
              x.moved = out[n].moved, x.dirty = TRUE, x.live = out[n].live
       PROVE  Keeps
  <2>1. out'[n] = x /\ \A m \in Names \ {n} : out'[m] = out[m]
    BY <1>2, <1>11
  <2>2. \A m \in Names :
          /\ out'[m].plugged = out[m].plugged /\ out'[m].configured = out[m].configured
          /\ out'[m].box = out[m].box /\ out'[m].moved = out[m].moved
          /\ out[m].dirty => out'[m].dirty
    BY <1>11, <2>1
  <2>3. LayoutKept
    BY <1>4, <1>11, <2>2, LayoutStays
  <2>4. OutputKept(n)
    BY <1>3, <1>11, <2>1 DEF OutputKept
  <2> QED BY <1>8, <1>11, <2>3, <2>4
<1>12. ASSUME NEW s \in Scales, Scale(n, s) PROVE Keeps
  <2> DEFINE x == Scaled(out[n], s)
  <2>1. /\ out' = [out EXCEPT ![n] = x] /\ plugs' = plugs /\ layoutDirty' = layoutDirty
        /\ s \in Nat
    BY <1>12, EventOutput, DataAssumption DEF Scale
  <2>2. /\ x \in Output /\ x.plugged = out[n].plugged /\ x.gen = out[n].gen
        /\ x.configured = out[n].configured /\ x.box = out[n].box
        /\ x.moved = out[n].moved /\ x.dirty = TRUE /\ x.live = out[n].live
    BY <1>2, <2>1 DEF Scaled, Output
  <2> HIDE DEF x
  <2> QED BY <1>11, <2>1, <2>2
<1>13. ASSUME NEW r \in Fractions, PreferredScale(n, r) PROVE Keeps
  <2> DEFINE x == Preferred(out[n], r)
  <2>1. /\ out' = [out EXCEPT ![n] = x] /\ plugs' = plugs /\ layoutDirty' = layoutDirty
        /\ r \in Nat
    BY <1>13, EventOutput, DataAssumption DEF PreferredScale
  <2>2. /\ x \in Output /\ x.plugged = out[n].plugged /\ x.gen = out[n].gen
        /\ x.configured = out[n].configured /\ x.box = out[n].box
        /\ x.moved = out[n].moved /\ x.dirty = TRUE /\ x.live = out[n].live
    BY <1>2, <2>1 DEF Preferred, Output
  <2> HIDE DEF x
  <2> QED BY <1>11, <2>1, <2>2
<1>14. ASSUME NEW w \in Widths, Configure(n, w) PROVE Keeps
  <2>1. PICK dirty \in BOOLEAN :
          /\ dirty = (out[n].dirty \/ out[n].width # w)
          /\ out' = [out EXCEPT ![n] = Sized(out[n], w, dirty)]
    BY <1>14, EventOutput
  <2> DEFINE x == Sized(out[n], w, dirty)
  <2>2. plugs' = plugs /\ layoutDirty' = layoutDirty /\ w \in Nat \ {0} /\ out[n].live
    BY <1>14, DataAssumption DEF Configure
  <2>3. /\ x.plugged = out[n].plugged /\ x.gen = out[n].gen /\ x.configured = TRUE
        /\ x.box = out[n].box /\ x.moved = out[n].moved /\ x.dirty = dirty
        /\ x.width = w /\ x.frac = out[n].frac /\ x.scale = out[n].scale
        /\ x.live = out[n].live /\ x.content = out[n].content
    BY <1>2, <2>2 DEF Sized, Output
  <2>4. out' = [out EXCEPT ![n] = x]
    BY <2>1
  <2> HIDE DEF x
  <2>5. out'[n] = x /\ \A m \in Names \ {n} : out'[m] = out[m]
    BY <1>2, <2>4
  <2>6. ~dirty => out[n].configured /\ ~out[n].dirty /\ out[n].width = w
    BY <2>1, <2>2 DEF FramesSound, SizedByConfigure
  <2>7. ~dirty => BufferSize(x) = BufferSize(out[n])
    BY <2>3, <2>6 DEF BufferSize
  <2>8. LayoutKept
    <3>1. CASE dirty
      <4>1. LayoutPending'
        BY <1>4, <2>3, <2>5, <3>1 DEF LayoutPending
      <4> QED BY <4>1 DEF LayoutKept
    <3>2. CASE ~dirty
      <4>1. out[n].configured = TRUE /\ ~out[n].dirty
        BY <1>2, <2>6, <3>2, OutputParts
      <4>2. \A m \in Names :
              /\ out'[m].plugged = out[m].plugged /\ out'[m].configured = out[m].configured
              /\ out'[m].box = out[m].box /\ out'[m].moved = out[m].moved
              /\ out[m].dirty => out'[m].dirty
        BY <2>3, <2>5, <4>1
      <4> QED BY <1>4, <2>2, <4>2, LayoutStays
    <3> QED BY <3>1, <3>2
  <2>9. OutputKept(n)
    BY <1>3b, <2>2, <2>3, <2>5, <2>6, <2>7 DEF OutputKept
  <2> QED BY <1>8, <2>2, <2>3, <2>4, <2>8, <2>9
<1>15. CASE Closed(n)
  <2> DEFINE x == ClosedSurface(out[n])
  <2>1. out' = [out EXCEPT ![n] = x] /\ plugs' = plugs /\ out[n].live
    BY <1>15 DEF Closed
  <2>2. x.plugged = out[n].plugged /\ x.configured = FALSE /\ x.gen = out[n].gen /\ x.live = FALSE
    BY <1>2 DEF ClosedSurface, Output
  <2> HIDE DEF x
  <2>3. out'[n] = x
    BY <1>2, <2>1
  <2>4. out'[n].plugged /\ ~out'[n].configured
    <3>1. out[n].plugged = TRUE
      BY <1>2, <1>3b, <2>1, OutputParts
    <3> QED BY <2>2, <2>3, <3>1
  <2>5. LayoutKept
    BY <2>4 DEF Settled, LayoutKept
  <2>6. OutputKept(n)
    BY <2>2, <2>3, <2>4 DEF OutputKept
  <2> QED BY <1>8, <2>1, <2>2, <2>5, <2>6
<1> QED BY <1>1, <1>7, <1>9, <1>10, <1>12, <1>13, <1>14, <1>15

\* The frames on their way through the compositor's events.
LEMMA EventFrames ==
  ASSUME TypeOK, FramesSound, CompositorEvent, NEW f \in InFlight
  PROVE  FrameSound(f)'
<1> DEFINE n == f.name
<1>1. n \in Names /\ FrameSound(f) /\ plugs[n] \in Nat
  BY FrameParts DEF TypeOK, FramesSound
<1>2. /\ LayoutKept
      /\ Fresh(n) \/ (plugs'[n] = plugs[n] /\ OutputKept(n))
  BY <1>1, EventKeeps
<1>3. phase # "ipc" /\ phase' = phase /\ daemon' = daemon
  BY EventPhase
<1>4. CASE Fresh(n)
  <2>1. f.plug <= plugs'[n] /\ f.plug # plugs'[n]
    <3>1. f.plug \in Nat /\ f.plug <= plugs[n]
      BY <1>1, FrameParts DEF FrameSound, TypeOK
    <3>2. plugs'[n] = plugs[n] + 1
      BY <1>4 DEF Fresh
    <3> QED BY <1>1, <3>1, <3>2
  <2>2. ~SamePlug(f)'
    BY <2>1 DEF SamePlug
  <2> QED BY <2>1, <2>2 DEF FrameSound
<1>5. CASE plugs'[n] = plugs[n] /\ OutputKept(n)
  BY <1>1, <1>2, <1>3, <1>5, EventKept
<1> QED BY <1>2, <1>4, <1>5

LEMMA EventSound ==
  ASSUME TypeOK, FramesSound, CompositorEvent PROVE TypeOK' /\ FramesSound'
<1>1. TypeOK'
  BY EventTypes
<1>2. daemon' = daemon /\ jobs' = jobs
  BY EventPhase
<1>3. NoSpanOverride'
  BY <1>2 DEF FramesSound, NoSpanOverride
<1>4. \A f \in InFlight' : FrameSound(f)'
  BY <1>1, <1>2, EventFrames DEF InFlight
<1>5. PICK n \in Names :
        \/ \E b \in Boxes : Plug(n, b) \/ Move(n, b)
        \/ Unplug(n)
        \/ \E s \in Scales : Scale(n, s)
        \/ \E r \in Fractions : PreferredScale(n, r)
        \/ \E w \in Widths : Configure(n, w)
        \/ Closed(n)
  BY DEF CompositorEvent
<1>6. out[n] \in Output /\ out \in [Names -> Output]
  BY DEF TypeOK, OutputsOK
<1>7. \A m \in Names : out[m].live /\ ~out[m].configured => out[m].width = 0
  BY DEF FramesSound, SizedByConfigure
\* each event either ends or configures the surface, or keeps its size
<1>8. ASSUME NEW x, out' = [out EXCEPT ![n] = x],
             x.live /\ ~x.configured => x.width = 0
      PROVE  SizedByConfigure'
  BY <1>6, <1>7, <1>8 DEF SizedByConfigure
<1>9. ASSUME NEW b \in Boxes, Plug(n, b) PROVE SizedByConfigure'
  BY <1>8, <1>9 DEF Plug, NewOutput, Unplugged
<1>10. ASSUME NEW b \in Boxes, Move(n, b) PROVE SizedByConfigure'
  <2>1. out' = [out EXCEPT ![n] = Moved(out[n], b)]
    BY <1>10, EventOutput
  <2>2. /\ Moved(out[n], b).live = out[n].live /\ Moved(out[n], b).width = out[n].width
        /\ Moved(out[n], b).configured = out[n].configured
    BY <1>6 DEF Moved, Output
  <2> QED BY <1>7, <1>8, <2>1, <2>2
<1>11. ASSUME Unplug(n) PROVE SizedByConfigure'
  <2>1. ~Unplugged.live
    BY DEF Unplugged
  <2>2. out' = [out EXCEPT ![n] = Unplugged]
    BY <1>11 DEF Unplug
  <2>3. Unplugged.live /\ ~Unplugged.configured => Unplugged.width = 0
    BY <2>1
  <2> QED BY <1>8, <2>2, <2>3
<1>12. ASSUME NEW s \in Scales, Scale(n, s) PROVE SizedByConfigure'
  <2>1. out' = [out EXCEPT ![n] = Scaled(out[n], s)]
    BY <1>12, EventOutput
  <2>2. /\ Scaled(out[n], s).live = out[n].live /\ Scaled(out[n], s).width = out[n].width
        /\ Scaled(out[n], s).configured = out[n].configured
    BY <1>6 DEF Scaled, Output
  <2> QED BY <1>7, <1>8, <2>1, <2>2
<1>13. ASSUME NEW r \in Fractions, PreferredScale(n, r) PROVE SizedByConfigure'
  <2>1. out' = [out EXCEPT ![n] = Preferred(out[n], r)]
    BY <1>13, EventOutput
  <2>2. /\ Preferred(out[n], r).live = out[n].live
        /\ Preferred(out[n], r).width = out[n].width
        /\ Preferred(out[n], r).configured = out[n].configured
    BY <1>6 DEF Preferred, Output
  <2> QED BY <1>7, <1>8, <2>1, <2>2
<1>14. ASSUME NEW w \in Widths, Configure(n, w) PROVE SizedByConfigure'
  <2>1. PICK dirty \in BOOLEAN : out' = [out EXCEPT ![n] = Sized(out[n], w, dirty)]
    BY <1>14, EventOutput
  <2>2. Sized(out[n], w, dirty).configured = TRUE
    BY <1>6 DEF Sized, Output
  <2> QED BY <1>8, <2>1, <2>2
<1>15. ASSUME Closed(n) PROVE SizedByConfigure'
  <2>1. ~ClosedSurface(out[n]).live
    BY <1>6 DEF ClosedSurface, Output
  <2>2. out' = [out EXCEPT ![n] = ClosedSurface(out[n])]
    BY <1>15 DEF Closed
  <2>3. ClosedSurface(out[n]).live /\ ~ClosedSurface(out[n]).configured => ClosedSurface(out[n]).width = 0
    BY <2>1
  <2> QED BY <1>8, <2>2, <2>3
<1>16. SizedByConfigure'
  BY <1>5, <1>9, <1>10, <1>11, <1>12, <1>13, <1>14, <1>15
<1> QED BY <1>1, <1>3, <1>4, <1>16 DEF FramesSound

-----------------------------------------------------------------------------
(* The theorems.                                                           *)

LEMMA InitSound == ASSUME Init PROVE TypeOK /\ FramesSound
<1>1. NoOverride \in Override
  BY DEF NoOverride, Override, Image
<1>2. NoDaemon \in Daemon
  BY <1>1, DataAssumption DEF NoDaemon, Daemon, Fits
<1>3. /\ Unplugged \in Output /\ Unplugged.plugged = FALSE
      /\ Unplugged.live = FALSE /\ Unplugged.configured = FALSE
  BY NewOutputTypes DEF Unplugged
<1>4. OutputsOK(out)
  BY <1>3 DEF Init, OutputsOK
<1>5. DOMAIN jobs = {} /\ IsABag(jobs)
  BY DEF Init, EmptyBag, SetToBag, IsABag
<1>6. TypeOK
  BY <1>2, <1>4, <1>5 DEF Init, TypeOK, ClientsOK
<1>7. InFlight = {}
  BY <1>5 DEF InFlight, FramesOf
<1>8. NoSpanOverride
  BY DEF Init, NoSpanOverride, NoDaemon, NoOverride, GlobalOnly, Unset
<1>9. SizedByConfigure
  BY <1>3 DEF Init, SizedByConfigure
<1> QED BY <1>6, <1>7, <1>8, <1>9 DEF FramesSound

LEMMA NextSound ==
  ASSUME TypeOK, FramesSound, [Next]_vars PROVE TypeOK' /\ FramesSound'
<1>1. CASE CompositorEvent
  BY <1>1, EventSound
<1>2. CASE Loop
  BY <1>2, LoopSound
<1>3. CASE UserRequest
  BY <1>3, UserRequestSound
<1>4. ASSUME NEW cmd \in ImgCommands, StartImg(cmd) PROVE TypeOK' /\ FramesSound'
  BY <1>4, StartImgSound
<1>5. CASE ClientRequest
  BY <1>5, ClientRequestSound
<1>6. CASE ClientFault
  BY <1>6, ClientFaultSound
<1>7. CASE Stop
  BY <1>7, StopSound
<1>8. CASE Boot
  BY <1>8, BootSound
<1>9. CASE Wake
  BY <1>9, WakeSound
<1>10. CASE UNCHANGED vars
  <2>1. UNCHANGED <<phase, daemon, out, layoutDirty, listed, jobs, plugs>>
    BY <1>10 DEF vars
  <2>2. ClientsOK(jobs') /\ FramesOf(jobs') \subseteq InFlight
    BY <2>1 DEF TypeOK, InFlight
  <2> QED BY <2>1, <2>2, ClientsAlone
<1> QED BY <1>1, <1>2, <1>3, <1>4, <1>5, <1>6, <1>7, <1>8, <1>9, <1>10 DEF Next

(* The daemon, its outputs and its clients keep their types.               *)
THEOREM TypeCorrect == Spec => []TypeOK
<1>1. Init => TypeOK /\ FramesSound
  BY InitSound
<1>2. TypeOK /\ FramesSound /\ [Next]_vars => (TypeOK /\ FramesSound)'
  BY NextSound
<1> QED BY <1>1, <1>2, PTL DEF Spec

(* At every point of the loop, in every interleaving of requests, clients  *)
(* and compositor events, a frame carrying its output's generation is up   *)
(* to date unless its output is already condemned.                         *)
THEOREM FramesAreSound == Spec => []FramesSound
<1>1. Init => TypeOK /\ FramesSound
  BY InitSound
<1>2. TypeOK /\ FramesSound /\ [Next]_vars => (TypeOK /\ FramesSound)'
  BY NextSound
<1> QED BY <1>1, <1>2, PTL DEF Spec

\* What FramesSound says when a client is about to be served.
LEMMA FreshFromSound ==
  ASSUME TypeOK, FramesSound PROVE FreshIfSameGeneration
<1> SUFFICES ASSUME phase = "ipc", NEW f \in InFlight, SamePlug(f),
                    out[f.name].configured, f.gen = out[f.name].gen
             PROVE  SamePicture(f.pic, Render(f.pic.path, EffFit(daemon, f.name),
                                              daemon, out, f.name))
  BY DEF FreshIfSameGeneration
<1> DEFINE n == f.name
           wanted == Render(f.pic.path, EffFit(daemon, n), daemon, out, n)
<1>1. f.pic \in Pictures /\ FrameSound(f)
  BY FrameParts DEF TypeOK, FramesSound
<1>2. UpToDate(f, n)
  BY <1>1 DEF FrameSound, Condemned
<1>3. /\ f.pic.path = wanted.path /\ f.pic.fit = wanted.fit /\ f.pic.buf = wanted.buf
      /\ f.pic.fill = wanted.fill
  BY <1>2 DEF UpToDate, Render
<1>4. wanted = [path |-> wanted.path, fit |-> wanted.fit, buf |-> wanted.buf,
                fill |-> wanted.fill, span |-> wanted.span]
  BY DEF Render
<1>5. wanted.span = IF f.pic.fit = "span" THEN Layout(out) ELSE NoSpan
  BY <1>2 DEF UpToDate, Render
<1>6. f.pic.span = wanted.span \/ ~Settled
  BY <1>2, <1>5 DEF UpToDate, LayoutPending
<1> HIDE DEF wanted
<1>7. CASE f.pic.span = wanted.span
  <2>1. f.pic = wanted
    BY <1>1, <1>3, <1>4, <1>7 DEF Pictures
  <2> QED BY <2>1 DEF SamePicture, wanted
<1>8. CASE ~Settled
  <2>1. [f.pic EXCEPT !.span = wanted.span] = wanted
    BY <1>1, <1>3, <1>4 DEF Pictures
  <2> QED BY <1>8, <2>1 DEF SamePicture, wanted
<1> QED BY <1>6, <1>7, <1>8

(* The generation number is sound: a frame that carries its output's       *)
(* current generation when a client is served is what the daemon would     *)
(* render now.                                                             *)
THEOREM GenerationSound == Spec => []FreshIfSameGeneration
<1>1. TypeOK /\ FramesSound => FreshIfSameGeneration
  BY FreshFromSound
<1> QED BY <1>1, TypeCorrect, FramesAreSound, PTL
=============================================================================
