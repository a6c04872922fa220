---------------------------- MODULE ConfigPersist ----------------------------
(***************************************************************************)
(* The configuration file under `--persist` (src/src/config/): commands    *)
(* that change the running daemon and then read, patch and replace         *)
(* config.toml, each a process of its own that may fail, be killed or lose *)
(* power between any two calls; and what a daemon that starts would load.  *)
(*                                                                         *)
(* The text of the file is a sequence of parts: what stands before the     *)
(* first section header, then one part for each header, with its lines.  A *)
(* line is a key with a value, or holds neither (comments, blanks).  Parse *)
(* reads a text as config_parse does, Patch edits it as config_patch does. *)
(***************************************************************************)
EXTENDS Naturals, SequencesExt, FiniteSets

CONSTANTS
  Names,        \* outputs a section may be about
  Paths,        \* images
  Colors,       \* background colours
  Runners,      \* processes that run sweetbg commands
  Commands,     \* what a user may type: sequences of stages, see Stage
  StartDocs,    \* texts the file may start with
  MaxSections,  \* SWEETBG_MAX_OVERRIDES: sections a file, entries the table may have
  MaxCommands,  \* bound: commands typed
  MaxLosses     \* bound: kills and power losses

Unset == "unset"
Blank == ""
AutoColor == "auto"
DefaultColor == "base"
Fits == {"cover", "contain", "center", "tile", "span"}
Keys == {"image", "fit", "color"}
Values == Paths \cup {Blank, Unset, AutoColor} \cup Fits \cup Colors
Top == "top"              \* the part of the file before its first section
Parts == Names \cup {Top}

Pair(k, v) == [key |-> k, value |-> v]
Other == Pair("#", Unset)          \* a comment or a blank line

Lines == [key : Keys, value : Values] \cup {Other}
EditSet == [key : Keys, value : Values, part : Parts]

\* what the parser accepts in a part
Legal(name, line) ==
  \/ line.key \in {"image", Other.key}
  \/ line.key = "fit" /\ line.value \in (IF name = Top THEN Fits ELSE Fits \ {"span"})
  \/ line.key = "color" /\ name = Top /\ line.value \in Colors \cup {AutoColor}

ASSUME DataAssumption ==
  /\ IsFiniteSet(Names) /\ IsFiniteSet(Runners)
  /\ Top \notin Names
  /\ Paths \cap {Blank, Unset} = {}
  /\ DefaultColor \in Colors /\ Colors \cap {AutoColor, Unset} = {}

\* a stage is about all outputs or one, and so are its edits; a value the
\* daemon accepts is one the parser does, and a colour is never removed
ASSUME CommandAssumption ==
  \A cmd \in Commands :
    /\ cmd # << >>
    /\ cmd \in Seq([part : Parts, edits : Seq(EditSet)])
    /\ \A i \in DOMAIN cmd :
         /\ cmd[i].edits # << >>
         /\ \A j \in DOMAIN cmd[i].edits :
              LET e == cmd[i].edits[j]
              IN /\ e.part = cmd[i].part
                 /\ e.key = "image" => e.value \in Paths \cup {Blank, Unset}
                 /\ \/ e.key # "color" /\ e.value = Unset
                    \/ Legal(e.part, Pair(e.key, e.value))

\* the first part of a text has no header; an image is any text
ASSUME TextAssumption ==
  \A doc \in StartDocs :
    /\ doc \in Seq([name : Parts, ended : BOOLEAN, lines : Seq(Lines)])
    /\ doc # << >> /\ doc[1].name = Top
    /\ \A i \in 2..Len(doc) : doc[i].name # Top
    /\ \A i \in DOMAIN doc : \A j \in DOMAIN doc[i].lines :
         doc[i].lines[j].key = "image" => doc[i].lines[j].value \in Paths \cup {Blank}

ASSUME BoundAssumption ==
  MaxSections \in Nat /\ MaxCommands \in Nat /\ MaxLosses \in Nat

VARIABLES
  file,     \* text at the path of config.toml
  synced,   \* whether that text was fsynced before it was put there
  stable,   \* text that a power loss leaves at the path
  proc,     \* the runners
  daemon,   \* settings of the running daemon
  typed,    \* ghost: commands typed so far
  losses,   \* ghost: kills and power losses so far
  clean     \* ghost: no command has failed, been killed or overlapped another

vars == <<file, synced, stable, proc, daemon, typed, losses, clean>>

-----------------------------------------------------------------------------
(* Texts and settings.                                                     *)

\* `ended`: the last line of the part ends in a newline
Part(name, lines) == [name |-> name, lines |-> lines, ended |-> TRUE]
Unended(part) == [part EXCEPT !.ended = FALSE]

Missing == <<Part(Top, << >>)>>    \* no file is read as an empty one
Torn == <<Part("torn", << >>)>>    \* only a part of a text reached the disk

NoSection == [image |-> Unset, fit |-> Unset]

-----------------------------------------------------------------------------
(* config_parse.                                                           *)

Has(part, key) == \E j \in DOMAIN part.lines : part.lines[j].key = key

LastOf(lines, key) == lines[Max({j \in DOMAIN lines : lines[j].key = key})].value

\* a key given twice, in one section or in two of one name, has its last value
ValueOf(doc, name, key) ==
  LET at == {i \in DOMAIN doc : doc[i].name = name /\ Has(doc[i], key)}
  IN IF at = {} THEN Unset ELSE LastOf(doc[Max(at)].lines, key)

Loadable(doc) ==
  /\ doc # Torn
  /\ Cardinality({doc[i].name : i \in 2..Len(doc)}) <= MaxSections
  /\ \A i \in DOMAIN doc : \A j \in DOMAIN doc[i].lines : Legal(doc[i].name, doc[i].lines[j])

\* auto leaves the colour that a line above it gave
PlainColor(lines) ==
  LET plain == {j \in DOMAIN lines : lines[j].key = "color" /\ lines[j].value # AutoColor}
  IN IF plain = {} THEN DefaultColor ELSE lines[Max(plain)].value

Parse(doc) ==
  [image |-> ValueOf(doc, Top, "image"),
   fit |-> ValueOf(doc, Top, "fit"),
   color |-> PlainColor(doc[1].lines),
   auto |-> ValueOf(doc, Top, "color") = AutoColor,
   over |-> [n \in Names |-> [image |-> ValueOf(doc, n, "image"),
                              fit |-> ValueOf(doc, n, "fit")]]]

\* config_load: a file that does not parse is the defaults
Load(doc) == IF Loadable(doc) THEN Parse(doc) ELSE Parse(Missing)

-----------------------------------------------------------------------------
(* config_patch: set (or, with value Unset, remove) a key in the top part  *)
(* or in the section of an output.  The first line with the key is         *)
(* replaced, later ones are dropped; a key that is missing is added at the *)
(* end of its part, and a section that is missing at the end of the text.  *)

Edit(part, key, value) == [key |-> key, value |-> value, part |-> part]

\* SelectSeq, as a function that can be reasoned about
Without(lines, key) ==
  LET kept[n \in 0..Len(lines)] ==
        IF n = 0 THEN << >>
        ELSE IF lines[n].key = key THEN kept[n - 1] ELSE Append(kept[n - 1], lines[n])
  IN kept[Len(lines)]

\* mutant: later lines with the key stay
ReplacedFirstOnly(lines, e) ==
  LET at == Min({j \in DOMAIN lines : lines[j].key = e.key})
  IN [lines EXCEPT ![at] = Pair(e.key, e.value)]

Replaced(lines, e) ==
  LET at == Min({j \in DOMAIN lines : lines[j].key = e.key})
  IN SubSeq(lines, 1, at - 1) \o <<Pair(e.key, e.value)>>
     \o Without(SubSeq(lines, at + 1, Len(lines)), e.key)

\* `owed`: the pair is still to be written when this part begins.  What is
\* written always ends in a newline, and so does what is left when the last
\* line is dropped.
PatchPart(part, e, owed) ==
  [part EXCEPT
     !.lines = IF ~owed THEN Without(@, e.key)
               ELSE IF Has(part, e.key) THEN Replaced(@, e)
               ELSE Append(@, Pair(e.key, e.value)),
     !.ended = @ \/ (owed /\ ~Has(part, e.key))
                 \/ (part.lines # << >> /\ Last(part.lines).key = e.key)]

\* a section that is missing follows a blank line
AddSection(doc, e) ==
  LET above == IF doc = Missing THEN doc
               ELSE [doc EXCEPT ![Len(doc)].lines = Append(@, Other),
                                ![Len(doc)].ended = TRUE]
  IN Append(above, Part(e.part, <<Pair(e.key, e.value)>>))

\* parts the edit is about; a key is removed for all outputs from every part
Targets(doc, e) ==
  {i \in DOMAIN doc : doc[i].name = e.part \/ (e.part = Top /\ e.value = Unset)}

Patch(doc, e) ==
  LET at == Targets(doc, e)
  IN IF at = {} THEN IF e.value = Unset THEN doc ELSE AddSection(doc, e)
     ELSE [i \in DOMAIN doc |->
             IF i \in at THEN PatchPart(doc[i], e, e.value # Unset /\ i = Min(at))
                         ELSE doc[i]]

-----------------------------------------------------------------------------
(* Commands.  A stage is one request to the daemon and the edits that save *)
(* it: `set` and `clear` have one stage, `img` one for each image.         *)

Stage(part, edits) == [part |-> part, edits |-> edits]

SetStage(part, key, value) == Stage(part, <<Edit(part, key, value)>>)

\* persist_clear: blank, image, fit, in this order
ClearStage(part, flags) ==
  Stage(part,
        (IF "blank" \in flags THEN <<Edit(part, "image", Blank)>> ELSE << >>)
        \o (IF "image" \in flags THEN <<Edit(part, "image", Unset)>> ELSE << >>)
        \o (IF "fit" \in flags THEN <<Edit(part, "fit", Unset)>> ELSE << >>))

\* What the daemon makes of a request: one for all outputs drops what single
\* outputs had of their own.
ChangeTop(d, key, value) ==
  IF key = "color"
  THEN [d EXCEPT !.auto = (value = AutoColor), !.color = IF value = AutoColor THEN @ ELSE value]
  ELSE [d EXCEPT ![key] = value, !.over = [n \in Names |-> [@[n] EXCEPT ![key] = Unset]]]

Change(d, e) ==
  IF e.part = Top THEN ChangeTop(d, e.key, e.value)
                  ELSE [d EXCEPT !.over[e.part][e.key] = e.value]

Changed(d, stage) == FoldLeft(Change, d, stage.edits)

HasEntry(d, n) == d.over[n] # NoSection

\* a request for one output needs room in the table of overrides
Accepts(d, stage) ==
  stage.part \in Names /\ (\E i \in DOMAIN stage.edits : stage.edits[i].value # Unset) =>
    \/ HasEntry(d, stage.part)
    \/ Cardinality({n \in Names : HasEntry(d, n)}) < MaxSections

-----------------------------------------------------------------------------
(* Runners.  `stages` is what is left of the command, its head the stage   *)
(* at work; `saves` the edits of that stage still to be made; `read` and   *)
(* `temp` the text read and the temporary file of the edit at work.        *)

NoFile == [text |-> Missing, synced |-> FALSE]

Idle == [pc |-> "idle", stages |-> << >>, saves |-> << >>, read |-> Missing, temp |-> NoFile]

\* what a runner does after the stage at its head
NextStage(r) ==
  IF Len(r.stages) > 1 THEN [Idle EXCEPT !.pc = "request", !.stages = Tail(r.stages)]
                       ELSE Idle

\* mutant: only the first flag of a clear is saved
NextSaveFirstOnly(r) == NextStage(r)

\* ... and after an edit was saved
NextSave(r) ==
  IF Len(r.saves) > 1
  THEN [r EXCEPT !.pc = "read", !.saves = Tail(@), !.read = Missing, !.temp = NoFile]
  ELSE NextStage(r)

AllIdle == \A p \in Runners : proc[p].pc = "idle"

Init ==
  /\ file \in StartDocs
  /\ synced = TRUE
  /\ stable = file
  /\ proc = [p \in Runners |-> Idle]
  /\ daemon = Load(file)
  /\ typed = 0
  /\ losses = 0
  /\ clean = TRUE

Type(p, cmd) ==
  /\ proc[p].pc = "idle"
  /\ typed < MaxCommands
  /\ typed' = typed + 1
  /\ proc' = [proc EXCEPT ![p] = [Idle EXCEPT !.pc = "request", !.stages = cmd]]
  /\ clean' = (clean /\ AllIdle)
  /\ UNCHANGED <<file, synced, stable, daemon, losses>>

Request(p) ==
  LET stage == Head(proc[p].stages)
  IN /\ proc[p].pc = "request"
     /\ Accepts(daemon, stage)
     /\ daemon' = Changed(daemon, stage)
     /\ proc' = [proc EXCEPT ![p].pc = "read", ![p].saves = stage.edits]
     /\ UNCHANGED <<file, synced, stable, typed, losses, clean>>

\* the daemon refuses the request, or obeys it and the reply is lost
RequestFails(p) ==
  LET stage == Head(proc[p].stages)
  IN /\ proc[p].pc = "request"
     /\ proc' = [proc EXCEPT ![p] = NextStage(proc[p])]
     /\ \/ UNCHANGED <<daemon, clean>>
        \/ Accepts(daemon, stage) /\ daemon' = Changed(daemon, stage) /\ clean' = FALSE
     /\ UNCHANGED <<file, synced, stable, typed, losses>>

\* read_config.  The text under an open descriptor never changes: the file
\* is only ever replaced.
Read(p) ==
  /\ proc[p].pc = "read"
  /\ proc' = [proc EXCEPT ![p].pc = "write", ![p].read = file]
  /\ UNCHANGED <<file, synced, stable, daemon, typed, losses, clean>>

\* mutant: the temporary file is not synced before it is renamed
WrittenOnly(text) == [text |-> text, synced |-> FALSE]

Written(text) == [text |-> text, synced |-> TRUE]

\* patch, then mkostemp, write, fchmod, fsync and close: nobody sees the
\* temporary file before it is renamed
Write(p) ==
  /\ proc[p].pc = "write"
  /\ proc' = [proc EXCEPT ![p].pc = "rename",
                          ![p].temp = Written(Patch(proc[p].read, Head(proc[p].saves)))]
  /\ UNCHANGED <<file, synced, stable, daemon, typed, losses, clean>>

Rename(p) ==
  /\ proc[p].pc = "rename"
  /\ file' = proc[p].temp.text
  /\ synced' = proc[p].temp.synced
  /\ proc' = [proc EXCEPT ![p] = NextSave(proc[p])]
  /\ UNCHANGED <<stable, daemon, typed, losses, clean>>

\* any call of config_persist fails: the temporary file is unlinked and the
\* rest of the stage dropped
Fail(p) ==
  /\ proc[p].pc \in {"read", "write", "rename"}
  /\ proc' = [proc EXCEPT ![p] = NextStage(proc[p])]
  /\ clean' = FALSE
  /\ UNCHANGED <<file, synced, stable, daemon, typed, losses>>

Kill(p) ==
  /\ proc[p].pc # "idle"
  /\ losses < MaxLosses
  /\ losses' = losses + 1
  /\ proc' = [proc EXCEPT ![p] = Idle]
  /\ clean' = FALSE
  /\ UNCHANGED <<file, synced, stable, daemon, typed>>

\* the file system writes the directory back some time after a rename; the
\* data of a file that was not synced may not have followed
WriteBack ==
  /\ stable # file
  /\ stable' \in (IF synced THEN {file} ELSE {file, Torn})
  /\ UNCHANGED <<file, synced, proc, daemon, typed, losses, clean>>

\* the machine starts again from the disk, and the daemon with it
PowerLoss ==
  /\ losses < MaxLosses
  /\ losses' = losses + 1
  /\ file' = stable
  /\ synced' = TRUE
  /\ daemon' = Load(stable)
  /\ proc' = [p \in Runners |-> Idle]
  /\ clean' = (clean /\ AllIdle /\ stable = file)
  /\ UNCHANGED <<stable, typed>>

Next ==
  \/ \E p \in Runners :
       \/ \E cmd \in Commands : Type(p, cmd)
       \/ Request(p) \/ RequestFails(p)
       \/ Read(p) \/ Write(p) \/ Rename(p)
       \/ Fail(p) \/ Kill(p)
  \/ WriteBack
  \/ PowerLoss

Spec == Init /\ [][Next]_vars

-----------------------------------------------------------------------------
(* Properties.                                                             *)

\* Write to a temporary file, fsync, rename: whatever is killed and whenever
\* the power fails, the path never holds, now or after the loss, a text of
\* which only a part was written.
FileIsWhole == file # Torn /\ stable # Torn

EffImage(s, n) ==
  IF s.over[n].image # Unset THEN s.over[n].image
  ELSE IF s.image # Unset THEN s.image ELSE Blank

FitOf(s) == IF s.fit # Unset THEN s.fit ELSE "cover"
EffFit(s, n) == IF s.over[n].fit # Unset THEN s.over[n].fit ELSE FitOf(s)

SameColor(s, d) == s.auto = d.auto /\ (s.auto \/ s.color = d.color)

\* After commands that were all saved, one after the other, everything the
\* daemon was told is in the file: what it has for all outputs, and what it
\* has for single ones.
NothingLost ==
  clean /\ AllIdle =>
    LET s == Load(file)
    IN /\ s.image = daemon.image /\ FitOf(s) = FitOf(daemon) /\ SameColor(s, daemon)
       /\ \A n \in Names, key \in {"image", "fit"} :
            daemon.over[n][key] # Unset => s.over[n][key] = daemon.over[n][key]

\* "Same, but also save it to the config so it comes back next start": after
\* commands that were all saved, one after the other, a start shows on every
\* output what the daemon shows now.
ComesBack ==
  clean /\ AllIdle =>
    LET s == Load(file)
    IN \A n \in Names : /\ EffImage(s, n) = EffImage(daemon, n)
                        /\ EffFit(s, n) = EffFit(daemon, n)

Edits == UNION {Range(stage.edits) : stage \in UNION {Range(cmd) : cmd \in Commands}}
Saving == {p \in Runners : proc[p].pc \in {"write", "rename"}}

Base == {[who |-> p, from |-> Load(proc[p].read), edit |-> Head(proc[p].saves)] : p \in Saving}

Saved == INSTANCE SavedSettings WITH
  saved <- Load(file),
  kept <- Load(stable),
  base <- Base

\* Reading, patching, writing and renaming lines is, for a reader of the
\* settings, one step that makes exactly the edit that was asked for in what
\* was read, and no step at all when it fails or is killed.
SavesSettings == Saved!Spec
=============================================================================
