------------------------ MODULE SweetbgdTableProofs ------------------------
(***************************************************************************)
(* Proofs about what the daemon remembers, for every value of the          *)
(* constants of Sweetbgd: the override table never outgrows its array, and *)
(* a reported palette belongs to the image that is shown.                  *)
(***************************************************************************)
EXTENDS SweetbgdProofs, FiniteSetTheorems

-----------------------------------------------------------------------------
(* The inductive invariant of the override table and of the palettes.      *)

Tidy(over) == \A n \in Names : ~HasEntry(over, n) => over[n] = NoOverride

Taken(over) ==
  \A n \in Names : over[n].path # Unset => over[n].palette \in {Unset, over[n].path}

TableOK(over) ==
  /\ Cardinality(Entries(over)) <= MaxOverrides
  /\ Tidy(over)
  /\ Taken(over)

MemoryOK(d) == TableOK(d.over) /\ d.palette \in {Unset, d.path}

\* Only entries of `over`, none with an image or a palette it has not.
Within(o, over) ==
  \A n \in Names :
    /\ HasEntry(o, n) => HasEntry(over, n)
    /\ o[n].path # Unset => o[n].path = over[n].path /\ o[n].palette = over[n].palette

\* Fewer entries fit.
LEMMA FewerFit ==
  ASSUME NEW S \in SUBSET Names, NEW T \in SUBSET S, Cardinality(S) <= MaxOverrides
  PROVE  Cardinality(T) <= MaxOverrides
<1>1. IsFiniteSet(S)
  BY FS_Subset, DataAssumption
<1>2. IsFiniteSet(T) /\ Cardinality(T) <= Cardinality(S)
  BY <1>1, FS_Subset
<1>3. Cardinality(S) \in Nat /\ Cardinality(T) \in Nat
  BY <1>1, <1>2, FS_CardinalityType
<1> QED BY <1>2, <1>3, BoundAssumption

\* Compacting a table that lost images or fits keeps it legal.
LEMMA CompactOK ==
  ASSUME NEW over, TableOK(over), NEW o \in [Names -> Override], Within(o, over)
  PROVE  TableOK(Compact(o))
<1> DEFINE c == Compact(o)
<1>1. \A n \in Names : IF HasEntry(o, n) THEN c[n] = o[n] ELSE c[n] = NoOverride
  BY DEF Compact
<1>2. NoOverride.path = Unset /\ NoOverride.fit = Unset
  BY DEF NoOverride
<1> HIDE DEF c
<1>3. \A n \in Names : HasEntry(c, n) => HasEntry(o, n)
  BY <1>1, <1>2 DEF HasEntry
<1>4. Entries(c) \subseteq Entries(over) /\ Entries(over) \subseteq Names
  BY <1>3 DEF Entries, Within
<1>5. Cardinality(Entries(c)) <= MaxOverrides
  BY <1>4, FewerFit DEF TableOK
<1>6. Tidy(c)
  BY <1>1 DEF Tidy, HasEntry
<1>7. Taken(c)
  <2> SUFFICES ASSUME NEW n \in Names, c[n].path # Unset
               PROVE  c[n].palette \in {Unset, c[n].path}
    BY DEF Taken
  <2>1. c[n] = o[n]
    BY <1>1, <1>2
  <2>2. o[n].path = over[n].path /\ o[n].palette = over[n].palette
    BY <2>1 DEF Within
  <2> QED BY <2>1, <2>2 DEF TableOK, Taken
<1> QED BY <1>5, <1>6, <1>7 DEF TableOK, c

\* Every way to forget images or fits keeps the table legal.
LEMMA ForgetOK ==
  ASSUME NEW over \in [Names -> Override], TableOK(over)
  PROVE  /\ TableOK(WithoutImages(over)) /\ TableOK(WithoutFits(over))
         /\ \A n \in Names : /\ TableOK(WithoutImage(over, n))
                             /\ TableOK(WithoutFit(over, n))
<1>1. ASSUME NEW e \in Override
      PROVE  /\ [e EXCEPT !.path = Unset] \in Override
             /\ [e EXCEPT !.path = Unset].path = Unset
             /\ [e EXCEPT !.path = Unset].fit = e.fit
             /\ [e EXCEPT !.fit = Unset] \in Override
             /\ [e EXCEPT !.fit = Unset].fit = Unset
             /\ [e EXCEPT !.fit = Unset].path = e.path
             /\ [e EXCEPT !.fit = Unset].palette = e.palette
  BY DEF Override, Image
<1>2. TableOK(WithoutImages(over))
  <2> DEFINE o == [n \in Names |-> [over[n] EXCEPT !.path = Unset]]
  <2>1. o \in [Names -> Override]
    BY <1>1
  <2>2. Within(o, over)
    BY <1>1 DEF Within, HasEntry
  <2> QED BY <2>1, <2>2, CompactOK DEF WithoutImages
<1>3. TableOK(WithoutFits(over))
  <2> DEFINE o == [n \in Names |-> [over[n] EXCEPT !.fit = Unset]]
  <2>1. o \in [Names -> Override]
    BY <1>1
  <2>2. Within(o, over)
    BY <1>1 DEF Within, HasEntry
  <2> QED BY <2>1, <2>2, CompactOK DEF WithoutFits
<1>4. ASSUME NEW n \in Names PROVE TableOK(WithoutImage(over, n))
  <2> DEFINE o == [over EXCEPT ![n].path = Unset]
  <2>1. \A m \in Names : o[m] = IF m = n THEN [over[m] EXCEPT !.path = Unset] ELSE over[m]
    OBVIOUS
  <2>2. o \in [Names -> Override]
    BY <1>1
  <2> HIDE DEF o
  <2>3. Within(o, over)
    BY <1>1, <2>1 DEF Within, HasEntry
  <2> QED BY <2>2, <2>3, CompactOK DEF WithoutImage, o
<1>5. ASSUME NEW n \in Names PROVE TableOK(WithoutFit(over, n))
  <2> DEFINE o == [over EXCEPT ![n].fit = Unset]
  <2>1. \A m \in Names : o[m] = IF m = n THEN [over[m] EXCEPT !.fit = Unset] ELSE over[m]
    OBVIOUS
  <2>2. o \in [Names -> Override]
    BY <1>1
  <2> HIDE DEF o
  <2>3. \A m \in Names : /\ o[m].path = over[m].path /\ o[m].palette = over[m].palette
                         /\ o[m].fit \in {Unset, over[m].fit}
    <3> SUFFICES ASSUME NEW m \in Names
                 PROVE  /\ o[m].path = over[m].path /\ o[m].palette = over[m].palette
                        /\ o[m].fit \in {Unset, over[m].fit}
      OBVIOUS
    <3> DEFINE e == over[m]
    <3>1. e \in Override /\ o[m] = IF m = n THEN [e EXCEPT !.fit = Unset] ELSE e
      BY <2>1
    <3> HIDE DEF e
    <3>2. o[m].path = e.path /\ o[m].palette = e.palette /\ o[m].fit \in {Unset, e.fit}
      BY <1>1, <3>1
    <3> QED BY <3>2 DEF e
  <2>4. Within(o, over)
    BY <2>3 DEF Within, HasEntry
  <2> QED BY <2>2, <2>4, CompactOK DEF WithoutFit, o
<1> QED BY <1>2, <1>3, <1>4, <1>5

\* An entry the table can hold, with a palette of its own image, keeps it legal.
LEMMA EntryOK ==
  ASSUME NEW over \in [Names -> Override], TableOK(over),
         NEW n \in Names, CanHold(over, n),
         NEW e, e.path # Unset \/ e.fit # Unset,
         e.path # Unset => e.palette \in {Unset, e.path}
  PROVE  TableOK([over EXCEPT ![n] = e])
<1> DEFINE o == [over EXCEPT ![n] = e]
<1>1. \A m \in Names : o[m] = IF m = n THEN e ELSE over[m]
  OBVIOUS
<1> HIDE DEF o
<1>2. Entries(o) \subseteq Entries(over) \cup {n} /\ Entries(over) \subseteq Names
  BY <1>1 DEF Entries, HasEntry
<1>3. Cardinality(Entries(o)) <= MaxOverrides
  <2>1. CASE HasEntry(over, n)
    <3>1. Entries(o) \subseteq Entries(over)
      BY <1>2, <2>1 DEF Entries
    <3> QED BY <1>2, <3>1, FewerFit DEF TableOK
  <2>2. CASE ~HasEntry(over, n)
    <3>1. IsFiniteSet(Entries(over))
      BY <1>2, FS_Subset, DataAssumption
    <3>2. n \notin Entries(over)
      BY <2>2 DEF Entries
    <3>3. Cardinality(Entries(over) \cup {n}) = Cardinality(Entries(over)) + 1
      BY <3>1, <3>2, FS_AddElement
    <3>4. ~(Cardinality(Entries(over)) >= MaxOverrides)
      BY <2>2 DEF CanHold, TableFull
    <3>5. Cardinality(Entries(over)) \in Nat
      BY <3>1, FS_CardinalityType
    <3>6. Cardinality(Entries(over) \cup {n}) <= MaxOverrides
      BY <3>3, <3>4, <3>5, BoundAssumption
    <3>7. Entries(over) \cup {n} \in SUBSET Names
      BY <1>2
    <3> QED BY <1>2, <3>6, <3>7, FewerFit
  <2> QED BY <2>1, <2>2
<1>4. Tidy(o)
  BY <1>1 DEF Tidy, HasEntry, TableOK
<1>5. Taken(o)
  BY <1>1 DEF Taken, TableOK
<1> QED BY <1>3, <1>4, <1>5 DEF TableOK, o

-----------------------------------------------------------------------------
(* The requests.                                                           *)

\* The images of a configuration have no palette yet.
LEMMA LoadedOK ==
  ASSUME NEW cfg \in UserConfigs, NEW readable \in ReadableSets
  PROVE  MemoryOK(Loaded(cfg, readable))
<1> DEFINE d == Loaded(cfg, readable)
           S == {n \in Names : \/ cfg.outputs[n].image # Unset
                               \/ cfg.outputs[n].fit # Unset}
<1>1. Cardinality(S) <= MaxOverrides
  BY ConfigAssumption
<1>2. ASSUME NEW n \in Names
      PROVE  /\ d.over[n].path \in {Unset, cfg.outputs[n].image}
             /\ d.over[n].fit = cfg.outputs[n].fit
             /\ d.over[n].palette = Unset
             /\ ~HasEntry(d.over, n) => d.over[n] = NoOverride
  <2> DEFINE sec == cfg.outputs[n]
             path == IF Readable(sec.image, readable) THEN sec.image ELSE Unset
  <2>1. d.over[n] = [path |-> path, fit |-> sec.fit, palette |-> Unset]
    BY DEF Loaded, LoadedOverride, NoOverride
  <2> HIDE DEF d
  <2>2. path \in {Unset, sec.image}
    OBVIOUS
  <2> HIDE DEF path
  <2> QED BY <2>1, <2>2 DEF HasEntry, NoOverride
<1>3. d.palette = Unset
  BY DEF Loaded
<1> HIDE DEF d
<1>4. Entries(d.over) \subseteq S /\ S \subseteq Names
  BY <1>2 DEF Entries, HasEntry
<1>5. Cardinality(Entries(d.over)) <= MaxOverrides
  <2> HIDE DEF S
  <2> QED BY <1>1, <1>4, FewerFit
<1> QED BY <1>2, <1>3, <1>5 DEF MemoryOK, TableOK, Tidy, Taken, d

\* A fit, a colour or a clear for all outputs.
LEMMA SetFitMemory ==
  ASSUME TypeOK, MemoryOK(daemon), NEW f \in UserFits, SetFit(f)
  PROVE  MemoryOK(daemon')
<1>1. daemon \in Daemon /\ daemon.over \in [Names -> Override]
  BY DaemonParts DEF TypeOK
<1>2. /\ daemon'.over = WithoutFits(daemon.over)
      /\ daemon'.path = daemon.path /\ daemon'.palette = daemon.palette
  BY <1>1 DEF SetFit, Daemon
<1> QED BY <1>1, <1>2, ForgetOK DEF MemoryOK

LEMMA SetColorMemory ==
  ASSUME TypeOK, MemoryOK(daemon), NEW c \in UserColors, SetColor(c)
  PROVE  MemoryOK(daemon')
<1>1. daemon \in Daemon
  BY DEF TypeOK
<1>2. /\ daemon'.over = daemon.over
      /\ daemon'.path = daemon.path /\ daemon'.palette = daemon.palette
  BY <1>1 DEF SetColor, Daemon
<1> QED BY <1>2 DEF MemoryOK

LEMMA ClearAllMemory ==
  ASSUME TypeOK, MemoryOK(daemon), NEW flags \in UserClears, ClearAll(flags)
  PROVE  MemoryOK(daemon')
<1> DEFINE image == "image" \in flags
           fit == "fit" \in flags
           d1 == IF image THEN [daemon EXCEPT !.path = Unset, !.palette = Unset,
                                              !.over = WithoutImages(@)]
                          ELSE daemon
           d == IF fit THEN [d1 EXCEPT !.fit = "cover", !.over = WithoutFits(@)]
                       ELSE d1
<1>1. daemon \in Daemon /\ daemon.over \in [Names -> Override]
  BY DaemonParts DEF TypeOK
<1>2. MemoryOK(d1) /\ d1 \in Daemon
  <2>1. CASE image
    <3>1. WithoutImages(daemon.over) \in [Names -> Override]
      BY <1>1, TableTypes
    <3>2. /\ d1.over = WithoutImages(daemon.over) /\ d1.palette = Unset
          /\ d1.path = Unset /\ d1 \in Daemon
      BY <1>1, <2>1, <3>1 DEF Daemon
    <3> HIDE DEF d1
    <3> QED BY <1>1, <3>2, ForgetOK DEF MemoryOK
  <2>2. CASE ~image
    BY <1>1, <2>2
  <2> QED BY <2>1, <2>2
<1> HIDE DEF d1
<1>3. MemoryOK(d)
  <2>1. CASE fit
    <3>1. /\ d.over = WithoutFits(d1.over) /\ d.palette = d1.palette
          /\ d.path = d1.path /\ d1.over \in [Names -> Override]
      BY <1>2, <2>1 DEF Daemon
    <3> HIDE DEF d
    <3> QED BY <1>2, <3>1, ForgetOK DEF MemoryOK
  <2>2. CASE ~fit
    BY <1>2, <2>2
  <2> QED BY <2>1, <2>2
<1>4. daemon' = d
  BY DEF ClearAll, d1
<1> QED BY <1>3, <1>4

\* A fit or a clear for one output.
LEMMA SetOutputFitMemory ==
  ASSUME TypeOK, MemoryOK(daemon), NEW n \in Names, NEW f \in UserFits,
         SetOutputFit(n, f)
  PROVE  MemoryOK(daemon')
<1> DEFINE over == daemon.over
           e == [over[n] EXCEPT !.fit = f]
<1>1. daemon \in Daemon /\ over \in [Names -> Override] /\ f \in Fits
  BY DaemonParts, DataAssumption DEF TypeOK
<1>2. over[n] \in Override /\ f # Unset
  BY <1>1, Distinct
<1>3. e.path = over[n].path /\ e.palette = over[n].palette /\ e.fit = f
  BY <1>2 DEF Override
<1>4. daemon' = [daemon EXCEPT !.over = [over EXCEPT ![n] = e]] /\ CanHold(over, n)
  BY <1>1, <1>2 DEF SetOutputFit, Daemon, Override
<1>5. /\ daemon'.over = [over EXCEPT ![n] = e]
      /\ daemon'.path = daemon.path /\ daemon'.palette = daemon.palette
  BY <1>1, <1>4 DEF Daemon
<1> HIDE DEF e, over
<1>6. TableOK(over)
  BY DEF MemoryOK, over
<1>7. e.path # Unset => e.palette \in {Unset, e.path}
  BY <1>3, <1>6 DEF TableOK, Taken
<1>8. TableOK([over EXCEPT ![n] = e])
  BY <1>1, <1>2, <1>3, <1>4, <1>6, <1>7, EntryOK
<1> QED BY <1>5, <1>8 DEF MemoryOK

LEMMA ClearOutputMemory ==
  ASSUME TypeOK, MemoryOK(daemon), NEW n \in Names, NEW flags \in UserClears,
         ClearOutput(flags, n)
  PROVE  MemoryOK(daemon')
<1> DEFINE over == daemon.over
           e == [over[n] EXCEPT !.path = Blank, !.palette = Unset]
           over1 == IF "blank" \in flags THEN [over EXCEPT ![n] = e]
                    ELSE IF "image" \in flags THEN WithoutImage(over, n)
                    ELSE over
           over2 == IF "fit" \in flags THEN WithoutFit(over1, n) ELSE over1
<1>1. daemon \in Daemon /\ over \in [Names -> Override] /\ TableOK(over)
  BY DaemonParts DEF TypeOK, MemoryOK
<1>2. over[n] \in Override
  BY <1>1
<1>3. e \in Override /\ e.path = Blank /\ e.palette = Unset
  BY <1>2 DEF Override, Image
<1>4. daemon' = [daemon EXCEPT !.over = over2] /\ ("blank" \in flags => CanHold(over, n))
  BY <1>1, <1>2 DEF ClearOutput, Daemon, Override
<1>5. /\ daemon'.over = over2
      /\ daemon'.path = daemon.path /\ daemon'.palette = daemon.palette
  BY <1>1, <1>4 DEF Daemon
<1> HIDE DEF e, over
<1>6. over1 \in [Names -> Override] /\ TableOK(over1)
  <2>1. CASE "blank" \in flags
    <3>1. TableOK([over EXCEPT ![n] = e])
      BY <1>1, <1>3, <1>4, <2>1, EntryOK, Distinct
    <3>2. [over EXCEPT ![n] = e] \in [Names -> Override]
      BY <1>1, <1>3
    <3> QED BY <2>1, <3>1, <3>2
  <2>2. CASE "blank" \notin flags
    BY <1>1, <2>2, ForgetOK, TableTypes
  <2> QED BY <2>1, <2>2
<1> HIDE DEF over1
<1>7. TableOK(over2)
  BY <1>6, ForgetOK
<1> HIDE DEF over2
<1> QED BY <1>5, <1>7 DEF MemoryOK

LEMMA UserRequestMemory ==
  ASSUME TypeOK, MemoryOK(daemon), UserRequest PROVE MemoryOK(daemon')
<1>1. ASSUME NEW f \in UserFits, SetFit(f) PROVE MemoryOK(daemon')
  BY <1>1, SetFitMemory
<1>2. ASSUME NEW f \in UserFits, NEW n \in Names, SetOutputFit(n, f)
      PROVE  MemoryOK(daemon')
  BY <1>2, SetOutputFitMemory
<1>3. ASSUME NEW c \in UserColors, SetColor(c) PROVE MemoryOK(daemon')
  BY <1>3, SetColorMemory
<1>4. ASSUME NEW flags \in UserClears, ClearAll(flags) PROVE MemoryOK(daemon')
  BY <1>4, ClearAllMemory
<1>5. ASSUME NEW flags \in UserClears, NEW n \in Names, ClearOutput(flags, n)
      PROVE  MemoryOK(daemon')
  BY <1>5, ClearOutputMemory
<1>6. ASSUME NEW cfg \in UserConfigs, NEW r1 \in ReadableSets, NEW r2 \in ReadableSets,
             Reload(cfg, r1, r2)
      PROVE  MemoryOK(daemon')
  BY <1>6, LoadedOK DEF Reload
<1> QED BY <1>1, <1>2, <1>3, <1>4, <1>5, <1>6 DEF UserRequest

-----------------------------------------------------------------------------
(* The frames of clients.                                                  *)

\* Remembering an applied image and taking its palette.
LEMMA SendAppliedMemory ==
  ASSUME TypeOK, MemoryOK(daemon), NEW j \in Working, NEW f \in j.frames, NEW ok,
         SendApplied(j, f, ok)
  PROVE  MemoryOK(daemon')
<1> DEFINE n == f.name
           p == j.path
           over == daemon.over
           e == [over[n] EXCEPT !.path = p, !.palette = p]
<1>1. /\ daemon \in Daemon /\ over \in [Names -> Override] /\ TableOK(over)
      /\ j \in Jobs /\ p \in Paths /\ n \in Names
  BY DaemonParts DEF TypeOK, MemoryOK, ClientsOK, Working, Jobs, Frames
<1>2. p # Unset /\ p # Blank /\ over[n] \in Override /\ n \in DOMAIN over
  BY <1>1, Distinct
<1>3. /\ daemon' = SetPalette(Remembered(daemon, j.mode, n, p), n, p)
      /\ ~Superseded(j, f)
      /\ j.mode = "override" => CanHold(over, n)
  BY DEF SendApplied
<1> HIDE DEF p, n
<1>4. CASE j.mode = "default"
  <2> DEFINE d == [daemon EXCEPT !.path = p, !.over = WithoutImages(@)]
             w == WithoutImages(over)
  <2>1. d.over = w /\ d.path = p
    BY <1>1 DEF Daemon
  <2>2. w[n].path = Unset
    BY <1>1 DEF WithoutImages, Compact, HasEntry, NoOverride, Override
  <2>3. daemon' = [d EXCEPT !.palette = p]
    BY <1>3, <1>4, <2>1, <2>2 DEF SetPalette, Remembered
  <2>4. daemon'.over = w /\ daemon'.path = p /\ daemon'.palette = p
    BY <1>1, <2>1, <2>3 DEF Daemon
  <2>5. TableOK(w)
    BY <1>1, ForgetOK
  <2> HIDE DEF w
  <2> QED BY <2>4, <2>5 DEF MemoryOK
<1>5. CASE j.mode = "override"
  <2> DEFINE d == [daemon EXCEPT !.over[n].path = p]
  <2>1. d.over[n].path = p
    BY <1>1, <1>2 DEF Daemon, Override
  <2>2. daemon' = [d EXCEPT !.over[n].palette = p]
    BY <1>2, <1>3, <1>5, <2>1 DEF SetPalette, Remembered
  <2>3. daemon'.over = [over EXCEPT ![n] = e]
    BY <1>1, <1>2, <2>2 DEF Daemon, Override
  <2>4. daemon'.path = daemon.path /\ daemon'.palette = daemon.palette
    BY <1>1, <2>2 DEF Daemon
  <2>5. e.path = p /\ e.palette = p
    BY <1>2 DEF Override
  <2> HIDE DEF e, over
  <2>6. TableOK([over EXCEPT ![n] = e])
    BY <1>1, <1>2, <1>3, <1>5, <2>5, EntryOK
  <2> QED BY <2>3, <2>4, <2>6 DEF MemoryOK
<1>6. CASE j.mode = "repaint" /\ over[n].path # Unset
  <2>1. over[n].path = p
    BY <1>3, <1>6 DEF Superseded, EffPath, n, p
  <2>2. daemon' = [daemon EXCEPT !.over[n].palette = p]
    BY <1>3, <1>6 DEF SetPalette, Remembered
  <2>3. daemon'.over = [over EXCEPT ![n] = e]
    BY <1>1, <1>2, <2>1, <2>2 DEF Daemon, Override
  <2>4. daemon'.path = daemon.path /\ daemon'.palette = daemon.palette
    BY <1>1, <2>2 DEF Daemon
  <2>5. e.path = p /\ e.palette = p
    BY <1>2 DEF Override
  <2>6. CanHold(over, n)
    BY <1>6 DEF CanHold, HasEntry
  <2> HIDE DEF e, over
  <2>7. TableOK([over EXCEPT ![n] = e])
    BY <1>1, <1>2, <2>5, <2>6, EntryOK
  <2> QED BY <2>3, <2>4, <2>7 DEF MemoryOK
<1>7. CASE j.mode = "repaint" /\ over[n].path = Unset
  <2>1. daemon.path = p
    BY <1>2, <1>3, <1>7 DEF Superseded, EffPath, n, p
  <2>2. daemon' = [daemon EXCEPT !.palette = p]
    BY <1>3, <1>7 DEF SetPalette, Remembered
  <2>3. daemon'.over = over /\ daemon'.path = p /\ daemon'.palette = p
    BY <1>1, <2>1, <2>2 DEF Daemon
  <2> QED BY <1>1, <2>3 DEF MemoryOK
<1> QED BY <1>1, <1>4, <1>5, <1>6, <1>7 DEF Jobs, Modes

LEMMA ClientRequestMemory ==
  ASSUME TypeOK, MemoryOK(daemon), ClientRequest PROVE MemoryOK(daemon')
<1>1. ASSUME NEW j \in Working, Query(j) PROVE MemoryOK(daemon')
  BY <1>1 DEF Query
<1>2. ASSUME NEW j \in Working, NEW f \in j.frames,
             SendRefused(j, f) \/ SendSuperseded(j, f)
      PROVE  MemoryOK(daemon')
  BY <1>2 DEF SendRefused, SendSuperseded
<1>3. ASSUME NEW j \in Working, NEW f \in j.frames, NEW ok \in Replies,
             SendApplied(j, f, ok)
      PROVE  MemoryOK(daemon')
  BY <1>3, SendAppliedMemory
<1> QED BY <1>1, <1>2, <1>3 DEF ClientRequest

-----------------------------------------------------------------------------
(* The theorems.                                                           *)

LEMMA NoDaemonMemory == MemoryOK(NoDaemon)
<1>1. Entries(NoDaemon.over) = {} /\ Tidy(NoDaemon.over) /\ Taken(NoDaemon.over)
  BY DEF NoDaemon, Entries, Tidy, Taken, HasEntry, NoOverride
<1>2. Cardinality({}) = 0
  BY FS_EmptySet
<1>3. NoDaemon.palette = NoDaemon.path
  BY DEF NoDaemon
<1> QED BY <1>1, <1>2, <1>3, BoundAssumption DEF MemoryOK, TableOK

LEMMA NextMemory ==
  ASSUME TypeOK, MemoryOK(daemon), [Next]_vars PROVE MemoryOK(daemon')
<1>1. CASE CompositorEvent
  BY <1>1 DEF CompositorEvent, Plug, Unplug, Move, Scale, PreferredScale, Configure, Closed
<1>2. CASE Loop
  <2>1. ASSUME NEW cfg \in UserConfigs, NEW r \in ReadableSets, Start(cfg, r)
        PROVE  MemoryOK(daemon')
    BY <2>1, LoadedOK DEF Start
  <2>2. CASE FirstSurfaces \/ Reconcile \/ NoRequest
    BY <2>2 DEF FirstSurfaces, Reconcile, NoRequest
  <2> QED BY <1>2, <2>1, <2>2 DEF Loop
<1>3. CASE UserRequest
  BY <1>3, UserRequestMemory
<1>4. ASSUME NEW cmd \in ImgCommands, StartImg(cmd) PROVE MemoryOK(daemon')
  BY <1>4 DEF StartImg
<1>5. CASE ClientRequest
  BY <1>5, ClientRequestMemory
<1>6. CASE ClientFault
  BY <1>6 DEF ClientFault, Fail, Die
<1>7. CASE Stop
  BY <1>7, NoDaemonMemory DEF Stop
<1>8. CASE Boot
  BY <1>8 DEF Boot
<1>9. CASE Wake
  BY <1>9 DEF Wake
<1>10. CASE UNCHANGED vars
  BY <1>10 DEF vars
<1> QED BY <1>1, <1>2, <1>3, <1>4, <1>5, <1>6, <1>7, <1>8, <1>9, <1>10 DEF Next

LEMMA MemoryStays == Spec => [](TypeOK /\ FramesSound /\ MemoryOK(daemon))
<1>1. Init => TypeOK /\ FramesSound /\ MemoryOK(daemon)
  BY InitSound, NoDaemonMemory DEF Init
<1>2. TypeOK /\ FramesSound /\ MemoryOK(daemon) /\ [Next]_vars
        => (TypeOK /\ FramesSound /\ MemoryOK(daemon))'
  <2> SUFFICES ASSUME TypeOK, FramesSound, MemoryOK(daemon), [Next]_vars
               PROVE  TypeOK' /\ FramesSound' /\ MemoryOK(daemon')
    OBVIOUS
  <2> QED BY NextSound, NextMemory
<1> QED BY <1>1, <1>2, PTL DEF Spec

(* Whatever mix of requests, frames, clears and reloads built it, the      *)
(* override table (struct daemon's assignments) holds no more entries than *)
(* its array, no fit that is meant for all outputs, and no empty entry.    *)
THEOREM TableIsLegal == Spec => []OverridesLegal
<1>1. TypeOK /\ FramesSound /\ MemoryOK(daemon) => OverridesLegal
  BY DEF FramesSound, NoSpanOverride, MemoryOK, TableOK, Tidy, OverridesLegal
<1> QED BY <1>1, MemoryStays, PTL

(* The palette handed out for an output (effective_palette) was taken from *)
(* the image the daemon shows on it; a blank output has none.              *)
THEOREM PaletteIsOfShownImage == Spec => []PaletteOfShownImage
<1>1. ASSUME TypeOK, MemoryOK(daemon) PROVE PaletteOfShownImage
  <2> SUFFICES ASSUME NEW n \in Names
               PROVE  EffPalette(daemon, n) \in {Unset, EffPath(daemon, n)} \ {Blank}
    BY DEF PaletteOfShownImage
  <2>1. daemon \in Daemon /\ daemon.over[n] \in Override
    BY <1>1, DaemonParts DEF TypeOK
  <2>2. EffPalette(daemon, n) \in Paths \cup {Unset}
    BY <2>1, DaemonParts DEF EffPalette, Override
  <2>3. EffPalette(daemon, n) \in {Unset, EffPath(daemon, n)}
    BY <1>1 DEF EffPalette, EffPath, MemoryOK, TableOK, Taken
  <2> QED BY <2>2, <2>3, Distinct
<1>2. TypeOK /\ FramesSound /\ MemoryOK(daemon) => PaletteOfShownImage
  BY <1>1
<1> QED BY <1>2, MemoryStays, PTL
=============================================================================
