--------------------------- MODULE CompilerProofs ---------------------------
(***************************************************************************)
(* The build cache, proved for any builders, sources, outputs, builds side *)
(* by side and kills; and the ownership maps, for any writes, indices,     *)
(* thresholds and branches, whatever addresses malloc gives out again.     *)
(***************************************************************************)
EXTENDS Compiler, SequenceTheorems, WellFoundedInduction, TLAPS

Content == Sources \cup {Absent, Part}
Entries == {"cache", "hash_source", "hash_ll"} \X Sources

\* Steps of a build, by what it has behind it.
Before  == {"probe", "check", "open"}
Linking == {"link", "native", "restore", "keep", "keeping"}
Made    == {"stamp", "stamping"} \cup Linking \cup {"store", "storing", "end"}
Steps   == Before \cup {"fill"} \cup Made \cup {"failed"}

Build == [at : Steps, src : Sources, out : Outs, cached : BOOLEAN, link : BOOLEAN, hit : BOOLEAN]

Typed ==
  /\ disk \in [Files -> Content]
  /\ build \in [Builders -> Build \cup {Idle}]
  /\ builds \in Nat /\ kills \in Nat

\* What holds of every running build, misled or not: what it found is still
\* there, and what it has open is in doubt.
Control(b) ==
  /\ build[b].hit => disk[Entry(build[b].src)] # Absent
  /\ build[b].at \notin Before => disk[Ll(build[b].out)] # Absent
  /\ build[b].at = "restore" => disk[KeptExe(b)] # Absent
  /\ build[b].at \in {"fill", "stamp", "stamping"} => Stamp(build[b].out) \in doubt
  /\ build[b].at = "keeping" => KeptExe(b) \in doubt
  /\ build[b].at = "storing" => Entry(build[b].src) \in doubt

\* What a running build that is not misled has made so far, alone at its output.
Progress(b) ==
  /\ \A c \in Others(b) : Running(c) => build[c].out # build[b].out
  /\ build[b].at # "failed"
  /\ build[b].at = "fill" => disk[Ll(build[b].out)] = Part /\ b \notin cut
  /\ build[b].at \in Made => disk[Ll(build[b].out)] = build[b].src
  /\ build[b].at = "stamping" => disk[Stamp(build[b].out)] = Part /\ b \notin cut
  /\ build[b].at \in Linking \ {"link"} => build[b].link
  /\ build[b].at = "restore" => disk[Exe(build[b].out)] = Part /\ b \notin cut
  /\ build[b].at \in {"keep", "keeping"} => disk[Exe(build[b].out)] = build[b].src
  /\ build[b].at \in {"store", "storing", "end"} /\ build[b].link =>
       disk[Exe(build[b].out)] = build[b].src

\* A stamp that is not in doubt tells of the .ll beside it.
StampTells(o) ==
  Stamp(o) \in doubt \/ disk[Stamp(o)] \notin Sources \/ disk[Ll(o)] = disk[Stamp(o)]

EntrySound(f) == f \in doubt \/ disk[f] \in {Absent, f[2]}

\* An entry that a build writes which is not misled has nothing of another
\* source in it; if it was opened again since, it is whole or the last to open
\* it is still at it.
WriterSound(b, f) ==
  /\ disk[f] \in {Part, f[2]}
  /\ b \in cut => disk[f] = f[2] \/ \E c \in Others(b) : HasOpen(c, f) /\ c \notin cut

BuildInv ==
  /\ Typed
  /\ \A b \in Builders : Running(b) => Control(b)
  /\ \A b \in Builders \ misled : Running(b) => Progress(b)
  /\ \A o \in Outs : StampTells(o)
  /\ \A f \in Entries : EntrySound(f)
  /\ \A f \in Entries : \A b \in Builders \ misled : HasOpen(b, f) => WriterSound(b, f)

-----------------------------------------------------------------------------
\* Where the files of a build are, and that no two names are one file.
LEMMA Names ==
  /\ \A o \in Outs : Ll(o) \in Files /\ Stamp(o) \in Files /\ Exe(o) \in Files
  /\ \A o \in Outs : Ll(o) \notin Entries /\ Stamp(o) \notin Entries /\ Exe(o) \notin Entries
  /\ \A o, p \in Outs : /\ Ll(o) # Stamp(p) /\ Ll(o) # Exe(p) /\ Stamp(o) # Exe(p)
                        /\ o # p => Ll(o) # Ll(p) /\ Stamp(o) # Stamp(p) /\ Exe(o) # Exe(p)
  /\ Entries \subseteq Files
  /\ \A s \in Sources : Entry(s) \in Entries /\ Entry(s)[2] = s
BY DEF Files, Entries, Ll, Stamp, Exe, Entry

LEMMA KeptExeTyped ==
  ASSUME NEW b, build[b] \in Build
  PROVE  KeptExe(b) \in Entries /\ KeptExe(b)[2] = build[b].src
BY DEF KeptExe, ExeEntry, Entries, Build

LEMMA RunningTyped ==
  ASSUME Typed, NEW b \in Builders
  PROVE  /\ Running(b) <=> build[b] \in Build
         /\ ~Running(b) => build[b] = Idle
         /\ \A f : HasOpen(b, f) => Running(b)
BY DEF Typed, Running, Idle, Build, HasOpen, Steps, Before, Made, Linking

\* A build has one file open at most.
LEMMA OneOpen ==
  ASSUME NEW b, NEW f, NEW g, HasOpen(b, f), HasOpen(b, g)
  PROVE  f = g
BY DEF HasOpen

\* A build that goes on to another step keeps its other fields.
LEMMA GotoMoves ==
  ASSUME Typed, NEW b \in Builders, build[b] \in Build, NEW step \in Steps, NEW hit \in BOOLEAN,
         \/ Goto(b, step) /\ hit = build[b].hit
         \/ build' = [build EXCEPT ![b].at = step, ![b].hit = hit]
  PROVE  /\ build' \in [Builders -> Build \cup {Idle}]
         /\ build'[b] \in Build /\ \A c \in Others(b) : build'[c] = build[c]
         /\ build'[b].at = step /\ build'[b].hit = hit
         /\ build'[b].src = build[b].src /\ build'[b].out = build[b].out
         /\ build'[b].cached = build[b].cached /\ build'[b].link = build[b].link
         /\ KeptExe(b)' = KeptExe(b)
<1>1. build \in [Builders -> Build \cup {Idle}]
  BY DEF Typed
<1>2. build' = [build EXCEPT ![b] = [build[b] EXCEPT !.at = step, !.hit = hit]]
  <2>1. CASE Goto(b, step) /\ hit = build[b].hit
    <3>1. [build[b] EXCEPT !.at = step, !.hit = hit] = [build[b] EXCEPT !.at = step]
      BY <2>1 DEF Build
    <3> QED BY <2>1, <3>1 DEF Goto
  <2>2. CASE build' = [build EXCEPT ![b].at = step, ![b].hit = hit]
    BY <1>1, <2>2
  <2> QED BY <2>1, <2>2
<1>3. [build[b] EXCEPT !.at = step, !.hit = hit] \in Build
  BY DEF Build
<1>4. build'[b] = [build[b] EXCEPT !.at = step, !.hit = hit] /\ \A c \in Others(b) : build'[c] = build[c]
  BY <1>1, <1>2 DEF Others
<1>5. build' \in [Builders -> Build \cup {Idle}]
  BY <1>1, <1>2, <1>3
<1> QED BY <1>3, <1>4, <1>5 DEF Build, KeptExe

\* A step of one build keeps the invariant if it writes one file of its own
\* output or an entry, takes out of doubt only what nobody else writes, and
\* gets its own part right.
LEMMA GoingOnKeeps ==
  ASSUME BuildInv, NEW b \in Builders, build[b] \in Build, NEW step \in Steps, NEW hit \in BOOLEAN,
         \/ Goto(b, step) /\ hit = build[b].hit
         \/ build' = [build EXCEPT ![b].at = step, ![b].hit = hit],
         UNCHANGED <<builds, kills>>, disk' \in [Files -> Content],
         NEW o \in Outs, o = build[b].out,
         NEW f \in Entries \cup {Ll(o), Stamp(o), Exe(o)},
         \A g \in Files \ {f} : disk'[g] = disk[g],
         f = Exe(o) \/ disk[f] = Absent \/ disk'[f] # Absent,
         \A c \in Others(b) : c \in cut' => c \in cut \/ HasOpen(c, f),
         \A c \in Others(b) : c \in misled => c \in misled',
         \A g \in doubt : g \in doubt' \/ (g = Stamp(o) /\ b \notin misled)
                                       \/ (g = f /\ f \in Entries /\ \A c \in Others(b) : ~HasOpen(c, f)),
         \A g \in Entries : HasOpen(b, g) \/ HasOpen(b, g)' => g = f,
         Control(b)', b \notin misled' => Progress(b)', StampTells(o)',
         f \in Entries => EntrySound(f)',
         f \in Entries => \A c \in Builders \ misled' : HasOpen(c, f)' => WriterSound(c, f)'
  PROVE  BuildInv'
<1>1. /\ build' \in [Builders -> Build \cup {Idle}]
      /\ build'[b] \in Build /\ \A c \in Others(b) : build'[c] = build[c]
      /\ build'[b].out = o
  BY GotoMoves DEF BuildInv
<1>2. Typed /\ Typed'
  BY <1>1 DEF BuildInv, Typed
<1>3. ASSUME NEW c \in Others(b)
      PROVE  /\ c \in Builders /\ build'[c] = build[c] /\ (Running(c)' <=> Running(c))
             /\ KeptExe(c)' = KeptExe(c) /\ \A g : HasOpen(c, g)' <=> HasOpen(c, g)
             /\ Running(c) => build[c] \in Build
  BY <1>1, <1>2, <1>3, RunningTyped DEF Others, Running, KeptExe, HasOpen
<1>4. ASSUME NEW c \in Builders, Running(c)' PROVE Control(c)'
  <2>1. CASE c = b BY <2>1
  <2>2. CASE c # b
    <3>1. /\ c \in Others(b) /\ Control(c) /\ build'[c] = build[c] /\ KeptExe(c)' = KeptExe(c)
          /\ build[c] \in Build
      BY <1>3, <1>4, <2>2 DEF Others, BuildInv
    <3>2. \A g \in Files : (\A p \in Outs : g # Exe(p)) => disk[g] = Absent \/ disk'[g] # Absent
      OBVIOUS
    <3>3. /\ build[c].hit => disk'[Entry(build[c].src)] # Absent
          /\ build[c].at \notin Before => disk'[Ll(build[c].out)] # Absent
          /\ build[c].at = "restore" => disk'[KeptExe(c)] # Absent
      BY <3>1, <3>2, Names, KeptExeTyped DEF Control, Build
    <3>4. build[c].at \in {"fill", "stamp", "stamping"} => Stamp(build[c].out) \in doubt'
      <4> SUFFICES ASSUME build[c].at \in {"fill", "stamp", "stamping"}, Stamp(build[c].out) \notin doubt'
                   PROVE  FALSE
        OBVIOUS
      <4>1. Stamp(build[c].out) \in doubt /\ build[c].out \in Outs
        BY <3>1 DEF Control, Build
      <4>2. build[c].out = o /\ b \notin misled
        BY <4>1, Names
      <4>3. Progress(b)
        BY <1>2, <4>2, RunningTyped DEF BuildInv
      <4>4. Running(c)
        BY <1>3, <1>4, <3>1
      <4> QED BY <3>1, <4>2, <4>3, <4>4 DEF Progress
    <3>5. build[c].at = "keeping" => KeptExe(c) \in doubt'
      BY <3>1, KeptExeTyped, Names DEF Control, HasOpen
    <3>6. build[c].at = "storing" => Entry(build[c].src) \in doubt'
      BY <3>1, Names DEF Control, HasOpen, Build
    <3> QED BY <3>1, <3>3, <3>4, <3>5, <3>6 DEF Control
  <2> QED BY <2>1, <2>2
<1>5. ASSUME NEW c \in Builders \ misled', Running(c)' PROVE Progress(c)'
  <2>1. CASE c = b BY <1>5, <2>1
  <2>2. CASE c # b
    <3>1. /\ c \in Others(b) /\ c \notin misled /\ Progress(c) /\ build'[c] = build[c] /\ build[c] \in Build
      BY <1>3, <1>5, <2>2 DEF Others, BuildInv
    <3>2. b \in Others(c) /\ Running(b) /\ build[c].out # o /\ build[c].out \in Outs
      BY <1>2, <2>2, <3>1, RunningTyped DEF Progress, Others, Build
    <3>3. /\ disk'[Ll(build[c].out)] = disk[Ll(build[c].out)]
          /\ disk'[Stamp(build[c].out)] = disk[Stamp(build[c].out)]
          /\ disk'[Exe(build[c].out)] = disk[Exe(build[c].out)]
      BY <3>2, Names
    <3>4. build[c].at \in {"fill", "stamping", "restore"} /\ c \notin cut => c \notin cut'
      <4>1. build[c].at \in {"fill", "stamping", "restore"} => ~HasOpen(c, f)
        BY <3>2, Names DEF HasOpen
      <4> QED BY <3>1, <4>1
    <3>5. \A d \in Others(c) : Running(d)' => build'[d].out # build[c].out
      <4> SUFFICES ASSUME NEW d \in Others(c), Running(d)' PROVE build'[d].out # build[c].out
        OBVIOUS
      <4>1. CASE d = b BY <1>1, <3>2, <4>1
      <4>2. CASE d # b
        BY <1>3, <3>1, <4>2 DEF Others, Progress
      <4> QED BY <4>1, <4>2
    <3> QED BY <3>1, <3>3, <3>4, <3>5 DEF Progress, Others
  <2> QED BY <2>1, <2>2
<1>6. ASSUME NEW p \in Outs PROVE StampTells(p)'
  <2>1. CASE p = o BY <2>1
  <2>2. CASE p # o
    <3>1. disk'[Ll(p)] = disk[Ll(p)] /\ disk'[Stamp(p)] = disk[Stamp(p)]
      BY <2>2, Names
    <3>2. Stamp(p) \in doubt => Stamp(p) \in doubt'
      BY <2>2, Names
    <3>3. StampTells(p)
      BY DEF BuildInv
    <3>4. Stamp(p)' = Stamp(p) /\ Ll(p)' = Ll(p)
      BY DEF Stamp, Ll
    <3> QED BY <3>1, <3>2, <3>3, <3>4 DEF StampTells
  <2> QED BY <2>1, <2>2
<1>7. ASSUME NEW g \in Entries PROVE EntrySound(g)'
  <2>1. CASE g = f BY <2>1
  <2>2. CASE g # f
    <3>1. EntrySound(g) /\ disk'[g] = disk[g] /\ (g \in doubt => g \in doubt')
      BY <2>2, Names DEF BuildInv
    <3> QED BY <3>1 DEF EntrySound
  <2> QED BY <2>1, <2>2
<1>8. ASSUME NEW g \in Entries, NEW c \in Builders \ misled', HasOpen(c, g)' PROVE WriterSound(c, g)'
  <2>1. CASE g = f BY <1>8, <2>1
  <2>2. CASE g # f
    <3>1. c \in Others(b) /\ c \notin misled
      BY <1>8, <2>2 DEF Others
    <3>2. HasOpen(c, g) /\ WriterSound(c, g) /\ disk'[g] = disk[g]
      BY <1>3, <1>8, <2>2, <3>1, Names DEF BuildInv
    <3>3. ASSUME NEW d \in Others(b), HasOpen(d, g), d \notin cut PROVE d \notin cut'
      BY <2>2, <3>3, OneOpen
    <3>4. c \in cut' => c \in cut
      BY <2>2, <3>1, <3>2, OneOpen
    <3>5. \A d \in Others(c) : HasOpen(d, g) => d \in Others(b) /\ HasOpen(d, g)'
      BY <1>3, <2>2 DEF Others
    <3> QED BY <3>2, <3>3, <3>4, <3>5 DEF WriterSound, Others
  <2> QED BY <2>1, <2>2
<1> QED BY <1>2, <1>4, <1>5, <1>6, <1>7, <1>8 DEF BuildInv

\* The fields of a build and its place in the invariant.
LEMMA BuildTyped ==
  ASSUME BuildInv, NEW b \in Builders, Running(b)
  PROVE  /\ build[b] \in Build /\ build[b].src \in Sources /\ build[b].out \in Outs
         /\ build[b].hit \in BOOLEAN /\ Control(b) /\ (b \notin misled => Progress(b))
         /\ disk \in [Files -> Content] /\ KeptExe(b) \in Entries /\ KeptExe(b)[2] = build[b].src
BY RunningTyped, KeptExeTyped DEF BuildInv, Build, Typed

-----------------------------------------------------------------------------
\* The steps that write nothing
LEMMA ReadStepsKeep ==
  ASSUME BuildInv, NEW b \in Builders, Probe(b) \/ Check(b) \/ SkipLink(b)
  PROVE  BuildInv'
<1> USE DEF At
<1>0. Running(b)
  BY DEF Probe, Check, SkipLink, Running
<1>1. PICK s \in Sources, o \in Outs : s = build[b].src /\ o = build[b].out
  BY <1>0, BuildTyped
<1>2. /\ build[b] \in Build /\ Control(b) /\ (b \notin misled => Progress(b))
      /\ disk \in [Files -> Content] /\ build[b].hit \in BOOLEAN
  BY <1>0, BuildTyped
<1>3. StampTells(o) /\ \A g \in Entries : EntrySound(g)
  BY DEF BuildInv
<1>4. UNCHANGED <<disk, cut, doubt, builds, kills>> /\ misled \subseteq misled'
  BY DEF Probe, Check, SkipLink, Trust
<1>5. \A g \in Entries : ~HasOpen(b, g)
  BY <1>1, Names DEF HasOpen, Probe, Check, SkipLink
<1>6. PICK step \in {"check", "open", "link", "store", "end"}, hit \in BOOLEAN :
        /\ \/ Goto(b, step) /\ hit = build[b].hit
           \/ build' = [build EXCEPT ![b].at = step, ![b].hit = hit]
        /\ hit => disk[Entry(s)] # Absent
        /\ step \in {"link", "store", "end"} => disk[Ll(o)] # Absent
        /\ b \notin misled' =>
             /\ step \in {"link", "store", "end"} => disk[Ll(o)] = s
             /\ step \in {"store", "end"} => ~build[b].link
  <2>1. CASE Probe(b)
    BY <1>1, <2>1 DEF Probe
  <2>2. CASE Check(b)
    <3>1. CASE UpToDate(o, s)
      <4>1. b \notin misled' => Stamp(o) \notin doubt
        BY <1>1, <2>2, <3>1 DEF Check, Trust
      <4> QED BY <1>1, <1>2, <1>3, <2>2, <3>1, <4>1 DEF Check, UpToDate, StampTells, Control
    <3>2. CASE ~UpToDate(o, s)
      BY <1>1, <1>2, <2>2, <3>2 DEF Check, Control
    <3> QED BY <3>1, <3>2
  <2>3. CASE SkipLink(b)
    BY <1>1, <1>2, <1>4, <2>3 DEF SkipLink, AfterLink, Control, Progress, Made, Linking, Before
  <2> QED BY <2>1, <2>2, <2>3
<1>7. step \in Steps
  BY DEF Steps, Before, Made, Linking
<1>8. /\ build'[b].at = step /\ build'[b].hit = hit /\ build'[b].src = s /\ build'[b].out = o
      /\ build'[b].link = build[b].link /\ \A c \in Others(b) : build'[c] = build[c]
  BY <1>1, <1>2, <1>6, <1>7, GotoMoves DEF BuildInv
<1>9. Control(b)'
  BY <1>4, <1>6, <1>8 DEF Control, Before, Entry, Ll
<1>10. b \notin misled' => Progress(b)'
  <2> SUFFICES ASSUME b \notin misled' PROVE Progress(b)'
    OBVIOUS
  <2>1. Progress(b)
    BY <1>2, <1>4
  <2>2. \A c \in Others(b) : Running(c)' => build'[c].out # o
    BY <1>1, <1>8, <2>1 DEF Progress, Running
  <2> QED BY <1>4, <1>6, <1>8, <2>2 DEF Progress, Others, Made, Linking, Ll
<1>11. StampTells(o)' /\ \A g \in Entries : ~HasOpen(b, g)'
  BY <1>3, <1>4, <1>6, <1>8, Names DEF StampTells, Stamp, Ll, HasOpen
<1>12. Ll(o) \notin Entries
  BY Names
<1> QED BY <1>1, <1>2, <1>4, <1>5, <1>6, <1>7, <1>9, <1>10, <1>11, <1>12, GoingOnKeeps

\* What a write leaves, if nobody else has opened the file.
LEMMA FillGives ==
  ASSUME disk \in [Files -> Content], NEW b, NEW f \in Files, NEW content \in Content, Fill(b, f, content)
  PROVE  /\ disk' \in [Files -> Content] /\ \A g \in Files \ {f} : disk'[g] = disk[g]
         /\ disk'[f] \in {content, disk[f], Part}
         /\ disk[f] = content \/ (disk[f] = Part /\ b \notin cut) => disk'[f] = content
         /\ cut' = cut \ {b}
BY DEF Fill, Content

LEMMA OpenGives ==
  ASSUME disk \in [Files -> Content], NEW b, NEW f \in Files, Open(b, f)
  PROVE  /\ disk' \in [Files -> Content] /\ \A g \in Files \ {f} : disk'[g] = disk[g]
         /\ disk'[f] = Part
         /\ b \notin cut' /\ cut' = (cut \ {b}) \cup {c \in Others(b) : HasOpen(c, f)}
BY DEF Open, Content, Others

\* The steps that write the .ll and its stamp
LEMMA LlStepsKeep ==
  ASSUME BuildInv, NEW b \in Builders, OpenLl(b) \/ FillLl(b) \/ OpenStamp(b) \/ FillStamp(b)
  PROVE  BuildInv'
<1> USE DEF At
<1>0. Running(b)
  BY DEF OpenLl, FillLl, OpenStamp, FillStamp, Running
<1>1. PICK s \in Sources, o \in Outs : s = build[b].src /\ o = build[b].out
  BY <1>0, BuildTyped
<1>2. /\ build[b] \in Build /\ Control(b) /\ (b \notin misled => Progress(b))
      /\ disk \in [Files -> Content] /\ build[b].hit \in BOOLEAN
  BY <1>0, BuildTyped
<1>3. /\ Ll(o) \in Files /\ Stamp(o) \in Files /\ Ll(o) # Stamp(o) /\ Ll(o) # Exe(o)
      /\ Entry(s) \in Files /\ Ll(o) \notin Entries /\ Stamp(o) \notin Entries
      /\ Entry(s) # Ll(o) /\ Entry(s) # Stamp(o) /\ Entry(s) \in Entries /\ Entry(s)[2] = s
      /\ KeptExe(b) \in Entries \cap Files
  BY <1>2, Names, KeptExeTyped
<1>4. StampTells(o) /\ EntrySound(Entry(s)) /\ Absent \notin Sources /\ Part \notin Sources /\ Absent # Part
  BY <1>3, ContentAssumption DEF BuildInv
<1>5. \A g \in Entries : ~HasOpen(b, g)
  BY <1>1, Names DEF HasOpen, OpenLl, FillLl, OpenStamp, FillStamp
<1>6. UNCHANGED <<builds, kills>> /\ \A c \in Others(b) : c \in misled => c \in misled'
  BY DEF OpenLl, FillLl, OpenStamp, FillStamp, Trust, Vouch
<1>7. ASSUME NEW step \in {"fill", "stamp", "stamping", "link"}, Goto(b, step)
      PROVE  /\ step \in Steps /\ build'[b].at = step /\ build'[b].hit = build[b].hit
             /\ build'[b].src = s /\ build'[b].out = o /\ KeptExe(b)' = KeptExe(b)
             /\ build'[b].link = build[b].link /\ \A c \in Others(b) : build'[c] = build[c]
             /\ \A g \in Entries : ~HasOpen(b, g)'
             /\ Progress(b) => \A c \in Others(b) : Running(c)' => build'[c].out # o
  <2>1. step \in Steps
    BY DEF Steps, Before, Made, Linking
  <2>2. /\ build'[b].at = step /\ build'[b].hit = build[b].hit /\ KeptExe(b)' = KeptExe(b)
        /\ build'[b].src = s /\ build'[b].out = o
        /\ build'[b].link = build[b].link /\ \A c \in Others(b) : build'[c] = build[c]
    BY <1>1, <1>2, <1>7, <2>1, GotoMoves DEF BuildInv
  <2>3. \A g \in Entries : ~HasOpen(b, g)'
    BY <1>7, <2>2, Names DEF HasOpen
  <2>4. Progress(b) => \A c \in Others(b) : Running(c)' => build'[c].out # o
    BY <1>1, <2>2 DEF Progress, Running
  <2> QED BY <2>1, <2>2, <2>3, <2>4
<1>8. CASE OpenLl(b)
  <2>1. /\ Open(b, Ll(o)) /\ Goto(b, "fill") /\ doubt' = doubt \cup {Stamp(o)} /\ misled' = misled
    BY <1>1, <1>8 DEF OpenLl
  <2>2. /\ disk' \in [Files -> Content] /\ \A g \in Files \ {Ll(o)} : disk'[g] = disk[g]
        /\ disk'[Ll(o)] = Part
        /\ b \notin cut' /\ \A c \in Others(b) : c \in cut' => c \in cut \/ HasOpen(c, Ll(o))
    BY <1>2, <1>3, <2>1, OpenGives
  <2>3. Control(b)'
    BY <1>1, <1>2, <1>3, <1>4, <1>7, <2>1, <2>2 DEF Control, Ll, Stamp, Entry
  <2>4. b \notin misled' => Progress(b)'
    BY <1>1, <1>2, <1>7, <2>1, <2>2 DEF Progress, Made, Linking, Ll, Others
  <2>5. StampTells(o)'
    BY <2>1 DEF StampTells, Stamp
  <2> QED BY <1>1, <1>2, <1>3, <1>4, <1>5, <1>6, <1>7, <2>1, <2>2, <2>3, <2>4, <2>5, GoingOnKeeps
<1>9. CASE FillLl(b)
  <2> DEFINE text == IF build[b].hit THEN disk[Entry(s)] ELSE s
  <2>1. /\ Fill(b, Ll(o), text) /\ doubt' = doubt /\ (b \in misled => b \in misled')
        /\ build[b].at = "fill" /\ Stamp(o) \in doubt
        /\ build[b].hit /\ b \notin misled' => Entry(s) \notin doubt
    BY <1>1, <1>2, <1>9 DEF FillLl, Trust, Control
  <2>2. text \in Content \ {Absent}
    BY <1>1, <1>2, <1>3, <1>4 DEF Content, Control
  <2>3. PICK step \in {"stamp", "link"} : Goto(b, step)
    BY <1>9 DEF FillLl
  <2>4. /\ disk' \in [Files -> Content] /\ \A g \in Files \ {Ll(o)} : disk'[g] = disk[g]
        /\ disk'[Ll(o)] \in {text, disk[Ll(o)], Part} /\ cut' = cut \ {b}
        /\ disk[Ll(o)] = Part /\ b \notin cut => disk'[Ll(o)] = text
    <3>1. text \in Content /\ Ll(o) \in Files /\ Fill(b, Ll(o), text) /\ disk \in [Files -> Content]
      BY <1>2, <1>3, <2>1, <2>2
    <3> HIDE DEF text
    <3> QED BY <3>1, FillGives
  <2>5. disk[Ll(o)] # Absent /\ disk'[Ll(o)] # Absent
    BY <1>1, <1>2, <1>4, <2>1, <2>2, <2>4 DEF Control, Before
  <2>6. Control(b)'
    BY <1>1, <1>2, <1>3, <1>7, <2>1, <2>3, <2>4, <2>5 DEF Control, Ll, Stamp, Entry
  <2>7. b \notin misled' => Progress(b)'
    <3> SUFFICES ASSUME b \notin misled' PROVE Progress(b)'
      OBVIOUS
    <3>1. Progress(b) /\ text = s
      BY <1>1, <1>2, <1>3, <1>4, <2>1, <2>2 DEF EntrySound
    <3>2. disk'[Ll(o)] = s
      BY <1>1, <2>1, <2>4, <3>1 DEF Progress
    <3> QED BY <1>7, <2>3, <3>1, <3>2 DEF Progress, Made, Linking, Ll, Others
  <2>8. StampTells(o)'
    BY <2>1 DEF StampTells, Stamp
  <2> QED BY <1>1, <1>2, <1>3, <1>5, <1>6, <1>7, <2>1, <2>3, <2>4, <2>5, <2>6, <2>7, <2>8, GoingOnKeeps
<1>10. CASE OpenStamp(b)
  <2>1. /\ Open(b, Stamp(o)) /\ Goto(b, "stamping") /\ doubt' = doubt /\ misled' = misled
        /\ build[b].at = "stamp" /\ Stamp(o) \in doubt /\ disk[Ll(o)] # Absent
    BY <1>1, <1>2, <1>10 DEF OpenStamp, Control, Before
  <2>2. /\ disk' \in [Files -> Content] /\ \A g \in Files \ {Stamp(o)} : disk'[g] = disk[g]
        /\ disk'[Stamp(o)] = Part
        /\ b \notin cut' /\ \A c \in Others(b) : c \in cut' => c \in cut \/ HasOpen(c, Stamp(o))
    BY <1>2, <1>3, <2>1, OpenGives
  <2>3. Control(b)'
    BY <1>1, <1>2, <1>3, <1>7, <2>1, <2>2 DEF Control, Ll, Stamp, Entry
  <2>4. b \notin misled' => Progress(b)'
    BY <1>1, <1>2, <1>3, <1>7, <2>1, <2>2 DEF Progress, Made, Linking, Ll, Stamp, Others
  <2>5. StampTells(o)'
    BY <2>1 DEF StampTells, Stamp
  <2> QED BY <1>1, <1>2, <1>3, <1>4, <1>5, <1>6, <1>7, <2>1, <2>2, <2>3, <2>4, <2>5, GoingOnKeeps
<1>11. CASE FillStamp(b)
  <2>1. /\ Fill(b, Stamp(o), s) /\ Goto(b, "link") /\ (b \in misled => b \in misled')
        /\ build[b].at = "stamping" /\ Stamp(o) \in doubt /\ disk[Ll(o)] # Absent
        /\ \A g \in doubt : g \in doubt' \/ (g = Stamp(o) /\ b \notin misled)
        /\ b \in misled => doubt' = doubt
        /\ b \in misled' => b \in misled
    BY <1>1, <1>2, <1>11 DEF FillStamp, Control, Before, Vouch, Others
  <2>2. /\ disk' \in [Files -> Content] /\ \A g \in Files \ {Stamp(o)} : disk'[g] = disk[g]
        /\ disk'[Stamp(o)] \in {s, disk[Stamp(o)], Part} /\ cut' = cut \ {b}
        /\ disk[Stamp(o)] = Part /\ b \notin cut => disk'[Stamp(o)] = s
    <3>1. s \in Content /\ Stamp(o) \in Files /\ Fill(b, Stamp(o), s) /\ disk \in [Files -> Content]
      BY <1>2, <1>3, <2>1 DEF Content
    <3> QED BY <3>1, FillGives
  <2>3. Control(b)'
    BY <1>1, <1>2, <1>3, <1>7, <2>1, <2>2 DEF Control, Ll, Stamp, Entry
  <2>4. b \notin misled => disk'[Ll(o)] = s
    BY <1>1, <1>2, <1>3, <2>1, <2>2 DEF Progress, Made
  <2>5. b \notin misled' => Progress(b)'
    BY <1>2, <1>7, <2>1, <2>4 DEF Progress, Made, Linking, Ll, Others
  <2>6. StampTells(o)'
    <3>1. CASE b \in misled
      BY <2>1, <3>1 DEF StampTells, Stamp
    <3>2. CASE b \notin misled
      <4>1. disk'[Stamp(o)] = s
        BY <1>1, <1>2, <2>1, <2>2, <3>2 DEF Progress
      <4> QED BY <2>4, <3>2, <4>1 DEF StampTells, Stamp, Ll
    <3> QED BY <3>1, <3>2
  <2>7. disk[Stamp(o)] = Absent \/ disk'[Stamp(o)] # Absent
    BY <1>4, <2>2
  <2> QED BY <1>1, <1>2, <1>3, <1>5, <1>6, <1>7, <2>1, <2>2, <2>3, <2>5, <2>6, <2>7, GoingOnKeeps
<1> QED BY <1>8, <1>9, <1>10, <1>11

\* The steps that write the executable
LEMMA LinkStepsKeep ==
  ASSUME BuildInv, NEW b \in Builders, RemoveExe(b) \/ OpenExe(b) \/ FillExe(b) \/ Clang(b)
  PROVE  BuildInv'
<1> USE DEF At
<1>0. Running(b)
  BY DEF RemoveExe, OpenExe, FillExe, Clang, Running
<1>1. PICK s \in Sources, o \in Outs : s = build[b].src /\ o = build[b].out
  BY <1>0, BuildTyped
<1>2. /\ build[b] \in Build /\ Control(b) /\ (b \notin misled => Progress(b))
      /\ disk \in [Files -> Content] /\ build[b].hit \in BOOLEAN
      /\ KeptExe(b) \in Entries /\ KeptExe(b)[2] = s
  BY <1>0, <1>1, BuildTyped
<1>3. /\ Ll(o) \in Files /\ Stamp(o) \in Files /\ Exe(o) \in Files /\ Ll(o) # Exe(o) /\ Stamp(o) # Exe(o)
      /\ Entry(s) \in Files /\ Entry(s) # Exe(o) /\ KeptExe(b) \in Files /\ KeptExe(b) # Exe(o)
      /\ Exe(o) \notin Entries
  BY <1>2, Names
<1>4. /\ StampTells(o) /\ EntrySound(KeptExe(b))
      /\ Absent \notin Sources /\ Part \notin Sources /\ Absent # Part
  BY <1>2, ContentAssumption DEF BuildInv
<1>5. \A g \in Entries : ~HasOpen(b, g)
  BY <1>1, Names DEF HasOpen, RemoveExe, OpenExe, FillExe, Clang
<1>6. /\ UNCHANGED <<builds, kills, doubt>> /\ misled \subseteq misled'
      /\ build[b].at \in {"link", "native", "restore"} /\ disk[Ll(o)] # Absent
      /\ b \notin misled' => Progress(b) /\ disk[Ll(o)] = s
      /\ b \notin misled' => build[b].link
  <2>1. /\ UNCHANGED <<builds, kills, doubt>> /\ misled \subseteq misled'
        /\ build[b].at \in {"link", "native", "restore"}
    BY DEF RemoveExe, OpenExe, FillExe, Clang, Trust
  <2>2. disk[Ll(o)] # Absent
    BY <1>1, <1>2, <2>1 DEF Control, Before
  <2>3. b \notin misled' => Progress(b) /\ disk[Ll(o)] = s
    BY <1>1, <1>2, <2>1 DEF Progress, Made, Linking
  <2>4. b \notin misled' => build[b].link
    BY <1>2, <2>1, <2>3 DEF Progress, Linking, RemoveExe, OpenExe, FillExe, Clang
  <2> QED BY <2>1, <2>2, <2>3, <2>4
<1>7. ASSUME NEW step \in {"native", "restore", "keep", "store", "end", "failed"}, Goto(b, step),
             disk' \in [Files -> Content], \A g \in Files \ {Exe(o)} : disk'[g] = disk[g],
             \A c \in Others(b) : c \in cut' => c \in cut \/ HasOpen(c, Exe(o)),
             step = "restore" => disk[KeptExe(b)] # Absent,
             b \notin misled' =>
               /\ step # "failed"
               /\ step = "restore" => disk'[Exe(o)] = Part /\ b \notin cut'
               /\ step \in {"keep", "store", "end"} => disk'[Exe(o)] = s
      PROVE  BuildInv'
  <2>1. step \in Steps
    BY DEF Steps, Before, Made, Linking
  <2>2. /\ build'[b].at = step /\ build'[b].hit = build[b].hit /\ KeptExe(b)' = KeptExe(b)
        /\ build'[b].src = s /\ build'[b].out = o
        /\ build'[b].link = build[b].link /\ \A c \in Others(b) : build'[c] = build[c]
    BY <1>1, <1>2, <1>7, <2>1, GotoMoves DEF BuildInv
  <2>3. \A g \in Entries : ~HasOpen(b, g)'
    BY <1>7, <2>2, Names DEF HasOpen
  <2>4. /\ disk'[Ll(o)] = disk[Ll(o)] /\ disk'[Stamp(o)] = disk[Stamp(o)]
        /\ disk'[Entry(s)] = disk[Entry(s)] /\ disk'[KeptExe(b)] = disk[KeptExe(b)]
    BY <1>3, <1>7
  <2>5. Control(b)'
    BY <1>1, <1>2, <1>6, <1>7, <2>2, <2>4 DEF Control, Ll, Entry
  <2>6. b \notin misled' => Progress(b)'
    <3> SUFFICES ASSUME b \notin misled' PROVE Progress(b)'
      OBVIOUS
    <3>1. \A c \in Others(b) : Running(c)' => build'[c].out # o
      BY <1>1, <1>6, <2>2 DEF Progress, Running
    <3> QED BY <1>6, <1>7, <2>2, <2>4, <3>1 DEF Progress, Made, Linking, Ll, Exe, Others
  <2>7. StampTells(o)'
    BY <1>4, <1>6, <2>4 DEF StampTells, Stamp, Ll
  <2> QED BY <1>1, <1>2, <1>3, <1>5, <1>6, <1>7, <2>1, <2>3, <2>5, <2>6, <2>7, GoingOnKeeps
<1>8. AfterLink(b) \in {"store", "end"}
  BY DEF AfterLink
<1>9. CASE RemoveExe(b)
  <2>1. disk' = [disk EXCEPT ![Exe(o)] = Absent] /\ Absent \in Content
    BY <1>1, <1>9 DEF RemoveExe, Content
  <2> QED BY <1>2, <1>7, <1>9, <2>1 DEF RemoveExe
<1>10. CASE OpenExe(b)
  <2>1. Open(b, Exe(o)) /\ Goto(b, "restore") /\ disk[KeptExe(b)] # Absent
    BY <1>1, <1>10 DEF OpenExe
  <2>2. /\ disk' \in [Files -> Content] /\ \A g \in Files \ {Exe(o)} : disk'[g] = disk[g]
        /\ disk'[Exe(o)] = Part
        /\ b \notin cut' /\ \A c \in Others(b) : c \in cut' => c \in cut \/ HasOpen(c, Exe(o))
    BY <1>2, <1>3, <2>1, OpenGives
  <2> QED BY <1>7, <2>1, <2>2
<1>11. CASE FillExe(b)
  <2> DEFINE copy == disk[KeptExe(b)]
  <2>1. /\ Fill(b, Exe(o), copy) /\ Goto(b, AfterLink(b)) /\ build[b].at = "restore"
        /\ b \notin misled' => KeptExe(b) \notin doubt
        /\ copy \in Content /\ copy # Absent
    BY <1>1, <1>2, <1>3, <1>11 DEF FillExe, Trust, Control
  <2>2. /\ disk' \in [Files -> Content] /\ \A g \in Files \ {Exe(o)} : disk'[g] = disk[g]
        /\ disk[Exe(o)] = Part /\ b \notin cut => disk'[Exe(o)] = copy
        /\ cut' = cut \ {b}
    <3>1. copy \in Content /\ Exe(o) \in Files /\ Fill(b, Exe(o), copy) /\ disk \in [Files -> Content]
      BY <1>2, <1>3, <2>1
    <3> HIDE DEF copy
    <3> QED BY <3>1, FillGives
  <2>3. b \notin misled' => copy = s
    BY <1>2, <1>4, <2>1 DEF EntrySound
  <2>4. b \notin misled' => disk'[Exe(o)] = s
    BY <1>1, <1>6, <2>1, <2>2, <2>3 DEF Progress
  <2> QED BY <1>7, <1>8, <2>1, <2>2, <2>4
<1>12. CASE Clang(b)
  <2>1. CASE disk[Ll(o)] # Part
    <3>1. PICK step \in {"keep", "store", "end"} : Goto(b, step)
      BY <1>1, <1>8, <1>12, <2>1 DEF Clang
    <3>2. disk' = [disk EXCEPT ![Exe(o)] = disk[Ll(o)]] /\ cut' = cut
      BY <1>1, <1>12, <2>1 DEF Clang
    <3>3. disk' \in [Files -> Content] /\ disk'[Exe(o)] = disk[Ll(o)]
      BY <1>2, <1>3, <3>2
    <3> QED BY <1>6, <1>7, <3>1, <3>2, <3>3
  <2>2. CASE disk[Ll(o)] = Part
    <3>1. Goto(b, "failed") /\ disk' = disk /\ cut' = cut /\ b \in misled'
      BY <1>1, <1>4, <1>6, <1>12, <2>2 DEF Clang
    <3> QED BY <1>2, <1>7, <3>1
  <2> QED BY <2>1, <2>2
<1> QED BY <1>9, <1>10, <1>11, <1>12

\* Opening an entry cuts the builds that have it open, and the last to open
\* it is still at it.
LEMMA OpenSound ==
  ASSUME BuildInv, NEW b \in Builders, Running(b), NEW f \in Entries, f[2] = build[b].src,
         \A c \in Others(b) : build'[c] = build[c],
         Open(b, f), HasOpen(b, f)', misled' = misled
  PROVE  \A c \in Builders \ misled' : HasOpen(c, f)' => WriterSound(c, f)'
<1>1. disk \in [Files -> Content] /\ f \in Files
  BY BuildTyped, Names
<1>2. \A c \in Others(b) : HasOpen(c, f)' <=> HasOpen(c, f)
  BY DEF HasOpen, KeptExe
<1>3. disk'[f] = Part /\ b \notin cut' /\ cut' = (cut \ {b}) \cup {c \in Others(b) : HasOpen(c, f)}
  BY <1>1, OpenGives
<1>4. ASSUME NEW c \in Builders \ misled', HasOpen(c, f)' PROVE WriterSound(c, f)'
  <2>1. CASE c = b BY <1>3, <2>1 DEF WriterSound
  <2>2. CASE c # b
    <3>1. b \in Others(c) /\ b \notin cut'
      BY <1>3, <2>2 DEF Others
    <3> QED BY <1>3, <3>1 DEF WriterSound, Others
  <2> QED BY <2>1, <2>2
<1> QED BY <1>4

\* A build that is not misled leaves an entry whole, or to another that has it
\* open; one that is misled misleads those who have.
LEMMA FillSound ==
  ASSUME BuildInv, NEW b \in Builders, Running(b), NEW f \in Entries, f[2] = build[b].src,
         \A c \in Others(b) : build'[c] = build[c],
         HasOpen(b, f), ~HasOpen(b, f)', Vouch(b, f),
         NEW content \in Content, Fill(b, f, content), b \notin misled => content = f[2]
  PROVE  /\ \A c \in Builders \ misled' : HasOpen(c, f)' => WriterSound(c, f)'
         /\ EntrySound(f)'
<1>1. /\ disk \in [Files -> Content] /\ f \in Files /\ f[2] \in Sources /\ build[b] \in Build
      /\ Absent \notin Sources /\ Part \notin Sources /\ Absent # Part
  BY BuildTyped, Names, ContentAssumption
<1>2. \A c \in Others(b) : HasOpen(c, f)' <=> HasOpen(c, f)
  BY DEF HasOpen, KeptExe
<1>3. \A c \in Builders \ misled : HasOpen(c, f) => WriterSound(c, f)
  BY DEF BuildInv
<1>4. /\ disk'[f] \in {content, disk[f], Part} /\ cut' = cut \ {b}
      /\ disk[f] = content \/ (disk[f] = Part /\ b \notin cut) => disk'[f] = content
  BY <1>1 DEF Fill
<1>5. ASSUME NEW c \in Builders \ misled', HasOpen(c, f)' PROVE WriterSound(c, f)'
  <2>1. c \in Others(b) /\ HasOpen(c, f)
    BY <1>2, <1>5 DEF Others
  <2>2. b \notin misled /\ c \notin misled
    BY <1>5, <2>1 DEF Vouch
  <2>3. content = f[2] /\ WriterSound(b, f) /\ WriterSound(c, f)
    BY <1>3, <2>1, <2>2 DEF Others
  <2>4. disk'[f] \in {Part, f[2]}
    BY <1>4, <2>3 DEF WriterSound
  <2>5. CASE disk'[f] = f[2] BY <2>4, <2>5 DEF WriterSound
  <2>6. CASE disk'[f] = Part
    <3>1. b \in cut /\ disk[f] = Part
      BY <1>1, <1>4, <2>3, <2>6 DEF WriterSound
    <3>2. SUFFICES ASSUME c \in cut PROVE \E d \in Others(c) : HasOpen(d, f)' /\ d \notin cut'
      BY <1>4, <2>4 DEF WriterSound, Others
    <3>3. PICK d \in Others(c) : HasOpen(d, f) /\ d \notin cut
      BY <1>1, <2>3, <3>1, <3>2 DEF WriterSound
    <3>4. d \in Others(b) /\ d \notin cut'
      BY <1>4, <3>1, <3>3 DEF Others
    <3> QED BY <1>2, <3>3, <3>4
  <2> QED BY <2>4, <2>5, <2>6
<1>6. EntrySound(f)'
  <2>1. f \in doubt
    BY BuildTyped, Names DEF HasOpen, Control
  <2>2. CASE b \in misled \/ \E c \in Others(b) : HasOpen(c, f)
    BY <2>1, <2>2 DEF Vouch, EntrySound
  <2>3. CASE b \notin misled /\ \A c \in Others(b) : ~HasOpen(c, f)
    <3>1. WriterSound(b, f) /\ content = f[2]
      BY <1>3, <2>3
    <3>2. disk'[f] = f[2]
      BY <1>4, <2>3, <3>1 DEF WriterSound
    <3> QED BY <3>2 DEF EntrySound
  <2> QED BY <2>2, <2>3
<1> QED BY <1>5, <1>6

\* The steps that fill the caches
LEMMA StoreStepsKeep ==
  ASSUME BuildInv, NEW b \in Builders,
         OpenKept(b) \/ FillKept(b) \/ OpenStored(b) \/ FillStored(b)
  PROVE  BuildInv'
<1> USE DEF At
<1>0. Running(b)
  BY DEF OpenKept, FillKept, OpenStored, FillStored, Running
<1>1. PICK s \in Sources, o \in Outs : s = build[b].src /\ o = build[b].out
  BY <1>0, BuildTyped
<1>2. /\ build[b] \in Build /\ Control(b) /\ (b \notin misled => Progress(b))
      /\ disk \in [Files -> Content] /\ build[b].hit \in BOOLEAN
      /\ KeptExe(b) \in Entries /\ KeptExe(b)[2] = s
      /\ Entry(s) \in Entries /\ Entry(s)[2] = s
  BY <1>0, <1>1, BuildTyped, Names
<1>3. /\ StampTells(o) /\ \A g \in Entries : EntrySound(g)
      /\ Absent \notin Sources /\ Part \notin Sources /\ Absent # Part
  BY ContentAssumption DEF BuildInv
<1>4. /\ UNCHANGED <<builds, kills>> /\ misled \subseteq misled'
      /\ build[b].at \in {"keep", "keeping", "store", "storing"} /\ disk[Ll(o)] # Absent
      /\ b \notin misled => Progress(b) /\ disk[Ll(o)] = s
      /\ b \in misled' => b \in misled
  <2>1. /\ UNCHANGED <<builds, kills>> /\ misled \subseteq misled'
        /\ build[b].at \in {"keep", "keeping", "store", "storing"}
        /\ b \in misled' => b \in misled
    BY DEF OpenKept, FillKept, OpenStored, FillStored, Vouch, Others
  <2>2. disk[Ll(o)] # Absent
    BY <1>1, <1>2, <2>1 DEF Control, Before
  <2>3. b \notin misled => Progress(b) /\ disk[Ll(o)] = s
    BY <1>1, <1>2, <2>1 DEF Progress, Made, Linking
  <2> QED BY <2>1, <2>2, <2>3
<1>5. \A g \in Files : g \in Entries => g # Ll(o) /\ g # Stamp(o) /\ g # Exe(o)
  BY Names
<1>6. ASSUME NEW step \in {"keeping", "storing", "store", "end"}, Goto(b, step),
             NEW f \in Entries, f[2] = s, \A g \in Entries : HasOpen(b, g) => g = f,
             step = "keeping" => f = KeptExe(b), step = "storing" => f = Entry(s),
             \/ Open(b, f) /\ step \in {"keeping", "storing"} /\ misled' = misled /\ doubt' = doubt \cup {f}
             \/ /\ HasOpen(b, f) /\ step \in {"store", "end"} /\ Vouch(b, f)
                /\ \E content \in Content \ {Absent} :
                      Fill(b, f, content) /\ (b \notin misled => content = f[2]),
             b \notin misled => (build[b].link => disk[Exe(o)] = s),
             b \notin misled => (step = "keeping" => build[b].link)
      PROVE  BuildInv'
  <2>1. step \in Steps
    BY DEF Steps, Before, Made, Linking
  <2>2. /\ build'[b].at = step /\ build'[b].hit = build[b].hit /\ KeptExe(b)' = KeptExe(b)
        /\ build'[b].src = s /\ build'[b].out = o
        /\ build'[b].link = build[b].link /\ \A c \in Others(b) : build'[c] = build[c]
    BY <1>1, <1>2, <1>6, <2>1, GotoMoves DEF BuildInv
  <2>3. /\ \A g : HasOpen(b, g)' <=> step \in {"keeping", "storing"} /\ g = f
        /\ Open(b, f) \/ Vouch(b, f)
    BY <1>6, <2>2 DEF HasOpen, Entry
  <2>4. /\ \A c \in Builders \ misled' : HasOpen(c, f)' => WriterSound(c, f)'
        /\ step \in {"keeping", "storing"} \/ EntrySound(f)'
    <3>1. CASE Open(b, f) /\ step \in {"keeping", "storing"} /\ misled' = misled
      <4>1. HasOpen(b, f)'
        BY <2>3, <3>1
      <4> QED BY <1>0, <1>1, <1>6, <2>2, <3>1, <4>1, OpenSound
    <3>2. CASE ~(Open(b, f) /\ step \in {"keeping", "storing"} /\ misled' = misled)
      <4>1. HasOpen(b, f) /\ ~HasOpen(b, f)' /\ Vouch(b, f) /\ step \in {"store", "end"}
        BY <1>6, <2>3, <3>2
      <4>2. PICK content \in Content : Fill(b, f, content) /\ (b \notin misled => content = f[2])
        BY <1>6, <3>2
      <4> QED BY <1>0, <1>1, <1>6, <2>2, <4>1, <4>2, FillSound
    <3> QED BY <3>1, <3>2
  <2>5. EntrySound(f)'
    BY <1>6, <2>4 DEF EntrySound
  <2>6. /\ disk' \in [Files -> Content] /\ \A g \in Files \ {f} : disk'[g] = disk[g]
        /\ disk[f] = Absent \/ disk'[f] # Absent
        /\ \A c \in Others(b) : c \in cut' => c \in cut \/ HasOpen(c, f)
    <3>1. f \in Files
      BY Names
    <3>2. CASE Open(b, f)
      BY <1>2, <1>3, <3>1, <3>2, OpenGives
    <3>3. CASE ~Open(b, f)
      <4>1. PICK content \in Content \ {Absent} : Fill(b, f, content)
        BY <1>6, <3>3
      <4>2. content \in Content
        OBVIOUS
      <4>3. /\ disk' \in [Files -> Content] /\ \A g \in Files \ {f} : disk'[g] = disk[g]
            /\ disk'[f] \in {content, disk[f], Part} /\ cut' = cut \ {b}
        BY <1>2, <3>1, <4>1, <4>2, FillGives
      <4> QED BY <1>3, <4>3
    <3> QED BY <3>2, <3>3
  <2>7. \A g \in doubt : g \in doubt' \/ (g = f /\ \A c \in Others(b) : ~HasOpen(c, f))
    <3>1. CASE Vouch(b, f) BY <3>1 DEF Vouch
    <3>2. CASE ~Vouch(b, f) BY <1>6, <3>2
    <3> QED BY <3>1, <3>2
  <2>8. /\ disk'[Ll(o)] = disk[Ll(o)] /\ disk'[Stamp(o)] = disk[Stamp(o)] /\ disk'[Exe(o)] = disk[Exe(o)]
        /\ disk[Entry(s)] = Absent \/ disk'[Entry(s)] # Absent
    BY <1>2, <1>5, <2>6, Names
  <2>9. Control(b)'
    <3>1. step = "keeping" => KeptExe(b) \in doubt'
      BY <1>6
    <3>2. step = "storing" => Entry(s) \in doubt'
      BY <1>6
    <3> QED BY <1>1, <1>2, <1>4, <1>6, <2>2, <2>8, <3>1, <3>2 DEF Control, Ll, Entry
  <2>10. b \notin misled' => Progress(b)'
    <3> SUFFICES ASSUME b \notin misled' PROVE Progress(b)'
      OBVIOUS
    <3>1. b \notin misled /\ Progress(b)
      BY <1>4
    <3>2. \A c \in Others(b) : Running(c)' => build'[c].out # o
      BY <1>1, <2>2, <3>1 DEF Progress, Running
    <3>3. step = "keeping" => disk[Exe(o)] = s
      BY <1>6, <3>1
    <3> QED BY <1>4, <1>6, <2>2, <2>8, <3>1, <3>2, <3>3 DEF Progress, Made, Linking, Ll, Exe, Others
  <2>11. StampTells(o)'
    <3>1. Stamp(o) \in doubt => Stamp(o) \in doubt'
      BY <1>5, <2>7, Names
    <3> QED BY <1>3, <2>8, <3>1 DEF StampTells, Stamp, Ll
  <2>12. \A g \in Entries : HasOpen(b, g) \/ HasOpen(b, g)' => g = f
    BY <1>6, <2>3
  <2>13. \A c \in Others(b) : c \in misled => c \in misled'
    BY <1>4
  <2>14. Goto(b, step) /\ UNCHANGED <<builds, kills>> /\ build[b].hit \in BOOLEAN
    BY <1>2, <1>4, <1>6
  <2> QED BY <1>1, <1>2, <2>1, <2>4, <2>5, <2>6, <2>7, <2>9, <2>10, <2>11, <2>12, <2>13, <2>14, GoingOnKeeps
<1>7. \A f, g : HasOpen(b, f) /\ HasOpen(b, g) => f = g
  BY OneOpen
<1>8. b \notin misled /\ build[b].at \in {"keep", "keeping"} => build[b].link /\ disk[Exe(o)] = s
  BY <1>1, <1>4 DEF Progress, Linking
<1>9. b \notin misled /\ build[b].at \in {"store", "storing"} => (build[b].link => disk[Exe(o)] = s)
  BY <1>1, <1>4 DEF Progress
<1>10. AfterLink(b) \in {"store", "end"}
  BY DEF AfterLink
<1>11. CASE OpenKept(b)
  <2>1. CASE disk[Exe(o)] # Absent
    <3>1. /\ Open(b, KeptExe(b)) /\ Goto(b, "keeping") /\ misled' = misled
          /\ doubt' = doubt \cup {KeptExe(b)} /\ build[b].at = "keep"
      BY <1>1, <1>11, <2>1 DEF OpenKept
    <3>2. \A g : ~HasOpen(b, g)
      BY <3>1 DEF HasOpen
    <3>3. b \notin misled => build[b].link /\ disk[Exe(o)] = s
      BY <1>8, <3>1
    <3> QED BY <1>2, <1>6, <3>1, <3>2, <3>3
  <2>2. CASE disk[Exe(o)] = Absent
    <3>1. /\ Goto(b, AfterLink(b)) /\ UNCHANGED <<disk, cut, doubt, misled, builds, kills>>
          /\ build[b].at = "keep" /\ b \in misled /\ AfterLink(b) \in Steps
      BY <1>1, <1>3, <1>8, <1>10, <1>11, <2>2 DEF OpenKept, Steps, Made
    <3>2. /\ build'[b].at \in {"store", "end"} /\ build'[b].hit = build[b].hit
          /\ build'[b].src = s /\ build'[b].out = o
      BY <1>1, <1>2, <1>10, <3>1, GotoMoves DEF BuildInv
    <3>3. \A g \in Entries : ~HasOpen(b, g) /\ ~HasOpen(b, g)'
      BY <3>1, <3>2 DEF HasOpen
    <3>4. Control(b)'
      BY <1>1, <1>2, <1>4, <3>1, <3>2 DEF Control, Ll, Entry
    <3>5. StampTells(o)' /\ Exe(o) \notin Entries
      BY <1>3, <3>1, Names DEF StampTells, Stamp, Ll
    <3> QED BY <1>1, <1>2, <3>1, <3>3, <3>4, <3>5, GoingOnKeeps
  <2> QED BY <2>1, <2>2
<1>12. CASE FillKept(b)
  <2>1. /\ Goto(b, AfterLink(b)) /\ Vouch(b, KeptExe(b)) /\ HasOpen(b, KeptExe(b)) /\ build[b].at = "keeping"
    BY <1>12 DEF FillKept, HasOpen
  <2>2. \E content \in Content \ {Absent} :
          Fill(b, KeptExe(b), content) /\ (b \notin misled => content = KeptExe(b)[2])
    <3>1. CASE disk[Exe(o)] # Absent
      <4>1. Fill(b, KeptExe(b), disk[Exe(o)]) /\ disk[Exe(o)] \in Content
        BY <1>1, <1>2, <1>12, <3>1, Names DEF FillKept
      <4> QED BY <1>2, <1>8, <2>1, <3>1, <4>1
    <3>2. CASE disk[Exe(o)] = Absent
      <4>1. \E content \in Sources \cup {Part} : Fill(b, KeptExe(b), content)
        BY <1>1, <1>12, <3>2 DEF FillKept
      <4>2. b \in misled
        BY <1>3, <1>8, <2>1, <3>2
      <4>3. Sources \cup {Part} \subseteq Content \ {Absent}
        BY <1>3 DEF Content
      <4> QED BY <4>1, <4>2, <4>3
    <3> QED BY <3>1, <3>2
  <2>3. \A g \in Entries : HasOpen(b, g) => g = KeptExe(b)
    BY <1>7, <2>1
  <2> QED BY <1>2, <1>6, <1>8, <1>10, <2>1, <2>2, <2>3
<1>13. CASE OpenStored(b)
  <2>1. /\ Open(b, Entry(s)) /\ Goto(b, "storing") /\ misled' = misled
        /\ doubt' = doubt \cup {Entry(s)} /\ build[b].at = "store"
    BY <1>1, <1>13 DEF OpenStored
  <2>2. \A g : ~HasOpen(b, g)
    BY <2>1 DEF HasOpen
  <2> QED BY <1>2, <1>6, <1>9, <2>1, <2>2
<1>14. CASE FillStored(b)
  <2>1. /\ Goto(b, "end") /\ Vouch(b, Entry(s)) /\ HasOpen(b, Entry(s)) /\ build[b].at = "storing"
        /\ Fill(b, Entry(s), disk[Ll(o)])
    BY <1>1, <1>14 DEF FillStored, HasOpen
  <2>2. \E content \in Content \ {Absent} :
          Fill(b, Entry(s), content) /\ (b \notin misled => content = Entry(s)[2])
    <3>1. disk[Ll(o)] \in Content \ {Absent}
      BY <1>2, <1>4, Names
    <3> QED BY <1>2, <1>4, <2>1, <3>1
  <2>3. \A g \in Entries : HasOpen(b, g) => g = Entry(s)
    BY <1>7, <2>1
  <2> QED BY <1>2, <1>6, <1>9, <2>1, <2>2, <2>3
<1> QED BY <1>11, <1>12, <1>13, <1>14

\* A build that is over leaves everything as it is; one killed amid a write
\* misleads those who have the same file open.
LEMMA IdleKeeps ==
  ASSUME BuildInv, NEW b \in Builders, Running(b), Exit(b) \/ Kill(b)
  PROVE  BuildInv'
<1>1. /\ build' = [build EXCEPT ![b] = Idle] /\ UNCHANGED <<disk, builds, doubt>> /\ kills' \in {kills, kills + 1}
      /\ \A c \in Others(b) : (c \in cut' <=> c \in cut) /\ (c \in misled => c \in misled')
  BY DEF Exit, Kill, Others
<1>2. Typed /\ Typed'
  BY <1>1 DEF BuildInv, Typed
<1>3. build'[b] = Idle /\ \A c \in Others(b) : build'[c] = build[c]
  BY <1>1, <1>2 DEF Typed, Others
<1>4. ~Running(b)' /\ \A g : ~HasOpen(b, g)'
  BY <1>3 DEF Running, HasOpen, Idle
<1>5. ASSUME NEW c \in Others(b)
      PROVE  /\ c \in Builders /\ build'[c] = build[c] /\ (Running(c)' <=> Running(c))
             /\ KeptExe(c)' = KeptExe(c) /\ \A g : HasOpen(c, g)' <=> HasOpen(c, g)
  BY <1>3, <1>5 DEF Others, Running, KeptExe, HasOpen
<1>6. ASSUME NEW c \in Builders, Running(c)' PROVE Control(c)'
  <2>1. c \in Others(b) /\ Control(c)
    BY <1>4, <1>5, <1>6 DEF Others, BuildInv
  <2> QED BY <1>1, <1>5, <2>1 DEF Control, Ll, Stamp, Entry
<1>7. ASSUME NEW c \in Builders \ misled', Running(c)' PROVE Progress(c)'
  <2>1. c \in Others(b) /\ Running(c) /\ c \notin misled /\ Progress(c)
    BY <1>1, <1>4, <1>5, <1>7 DEF Others, BuildInv
  <2>2. \A d \in Others(c) : Running(d)' => build'[d].out # build'[c].out
    BY <1>3, <1>4, <1>5, <2>1 DEF Progress, Others
  <2> QED BY <1>1, <1>5, <2>1, <2>2 DEF Progress, Ll, Stamp, Exe, Others
<1>8. (\A o \in Outs : StampTells(o)') /\ (\A f \in Entries : EntrySound(f)')
  BY <1>1 DEF BuildInv, StampTells, EntrySound, Ll, Stamp
<1>9. ASSUME NEW f \in Entries, NEW c \in Builders \ misled', HasOpen(c, f)' PROVE WriterSound(c, f)'
  <2>1. c \in Others(b) /\ c \notin misled /\ HasOpen(c, f) /\ WriterSound(c, f)
    BY <1>1, <1>4, <1>5, <1>9 DEF Others, BuildInv
  <2>2. ~HasOpen(b, f)
    <3>1. CASE Exit(b) BY <3>1 DEF Exit, HasOpen
    <3>2. CASE Kill(b)
      BY <1>9, <2>1, <3>2, Names DEF Kill, Others
    <3> QED BY <3>1, <3>2
  <2>3. \A d \in Others(c) : HasOpen(d, f) => HasOpen(d, f)' /\ (d \in cut' <=> d \in cut)
    BY <1>1, <1>5, <2>2 DEF Others
  <2> QED BY <1>1, <2>1, <2>3 DEF WriterSound, Others
<1> QED BY <1>2, <1>6, <1>7, <1>8, <1>9 DEF BuildInv

\* A build begins with no claim on what is there.
LEMMA BeginKeeps ==
  ASSUME BuildInv, NEW b \in Builders, NEW s \in Sources, NEW o \in Outs,
         NEW cached \in BOOLEAN, NEW link \in BOOLEAN, Begin(b, s, o, cached, link)
  PROVE  BuildInv'
<1> DEFINE new == [at |-> IF cached THEN "probe" ELSE "open",
                   src |-> s, out |-> o, cached |-> cached, link |-> link, hit |-> FALSE]
<1>1. /\ build' = [build EXCEPT ![b] = new] /\ UNCHANGED <<disk, cut, kills, doubt>> /\ builds' = builds + 1
      /\ ~Running(b) /\ misled \subseteq misled'
      /\ \A c \in Builders : Running(c) /\ build[c].out = o => c \in misled' /\ b \in misled'
  BY DEF Begin
<1>2. new \in Build
  BY DEF Build, Steps, Before
<1>3. Typed /\ Typed' /\ build'[b] = new /\ \A c \in Others(b) : build'[c] = build[c]
  BY <1>1, <1>2 DEF BuildInv, Typed, Others
<1>4. \A g : ~HasOpen(b, g) /\ ~HasOpen(b, g)'
  BY <1>1, <1>3 DEF HasOpen, Running
<1>5. ASSUME NEW c \in Others(b)
      PROVE  /\ c \in Builders /\ build'[c] = build[c] /\ (Running(c)' <=> Running(c))
             /\ KeptExe(c)' = KeptExe(c) /\ \A g : HasOpen(c, g)' <=> HasOpen(c, g)
  BY <1>3, <1>5 DEF Others, Running, KeptExe, HasOpen
<1>6. ASSUME NEW c \in Builders, Running(c)' PROVE Control(c)'
  <2>1. CASE c = b BY <1>3, <2>1 DEF Control, Before
  <2>2. CASE c # b
    <3>1. c \in Others(b) /\ Control(c)
      BY <1>5, <1>6, <2>2 DEF Others, BuildInv
    <3> QED BY <1>1, <1>5, <3>1 DEF Control, Ll, Stamp, Entry
  <2> QED BY <2>1, <2>2
<1>7. ASSUME NEW c \in Builders \ misled', Running(c)' PROVE Progress(c)'
  <2>1. CASE c = b
    <3>1. \A d \in Others(b) : Running(d)' => build'[d].out # o
      BY <1>1, <1>5, <1>7, <2>1
    <3> QED BY <1>3, <2>1, <3>1 DEF Progress, Made, Linking, Others
  <2>2. CASE c # b
    <3>1. c \in Others(b) /\ Running(c) /\ c \notin misled /\ Progress(c) /\ build[c].out # o
      BY <1>1, <1>5, <1>7, <2>2 DEF Others, BuildInv
    <3>2. \A d \in Others(c) : Running(d)' => build'[d].out # build'[c].out
      BY <1>3, <1>5, <3>1 DEF Progress, Others
    <3> QED BY <1>1, <1>5, <3>1, <3>2 DEF Progress, Ll, Stamp, Exe, Others
  <2> QED BY <2>1, <2>2
<1>8. (\A p \in Outs : StampTells(p)') /\ (\A f \in Entries : EntrySound(f)')
  BY <1>1 DEF BuildInv, StampTells, EntrySound, Ll, Stamp
<1>9. ASSUME NEW f \in Entries, NEW c \in Builders \ misled', HasOpen(c, f)' PROVE WriterSound(c, f)'
  <2>1. c \in Others(b) /\ c \notin misled /\ HasOpen(c, f) /\ WriterSound(c, f)
    BY <1>1, <1>4, <1>5, <1>9 DEF Others, BuildInv
  <2>2. \A d \in Others(c) : HasOpen(d, f) => HasOpen(d, f)'
    BY <1>4, <1>5 DEF Others
  <2> QED BY <1>1, <2>1, <2>2 DEF WriterSound, Others
<1> QED BY <1>3, <1>6, <1>7, <1>8, <1>9 DEF BuildInv

-----------------------------------------------------------------------------
(***************************************************************************)
(* The inductive invariant of the build cache, for builds that overlap in  *)
(* any way and are killed anywhere: what each build that is not misled has *)
(* made so far, that a stamp or an entry not in doubt is right, and, since *)
(* several builds may write one entry at once, that the last to open it is *)
(* still writing or it is whole.                                           *)
(***************************************************************************)
THEOREM BuildInvariant == Spec => []BuildInv
<1>1. Init => BuildInv
  <2> SUFFICES ASSUME Init PROVE BuildInv
    OBVIOUS
  <2>1. Typed
    BY DEF Init, Typed, Content
  <2>2. \A b \in Builders : ~Running(b) /\ \A f : ~HasOpen(b, f)
    BY DEF Init, Running, HasOpen, Idle
  <2>3. (\A o \in Outs : StampTells(o)) /\ (\A f \in Entries : EntrySound(f))
    BY Names DEF Init, StampTells, EntrySound
  <2> QED BY <2>1, <2>2, <2>3 DEF BuildInv
<1>2. BuildInv /\ [Next]_vars => BuildInv'
  <2> SUFFICES ASSUME BuildInv, [Next]_vars PROVE BuildInv'
    OBVIOUS
  <2>1. ASSUME NEW b \in Builders, NEW s \in Sources, NEW o \in Outs, NEW cached \in BOOLEAN,
               NEW link \in BOOLEAN, Begin(b, s, o, cached, link)
        PROVE  BuildInv'
    BY <2>1, BeginKeeps
  <2>2. ASSUME NEW b \in Builders, Step(b) \/ Kill(b) PROVE BuildInv'
    <3>1. CASE Exit(b) \/ Kill(b)
      BY <3>1, IdleKeeps DEF Exit, Kill, Running
    <3>2. CASE Probe(b) \/ Check(b) \/ SkipLink(b)
      BY <3>2, ReadStepsKeep
    <3>3. CASE OpenLl(b) \/ FillLl(b) \/ OpenStamp(b) \/ FillStamp(b)
      BY <3>3, LlStepsKeep
    <3>4. CASE RemoveExe(b) \/ OpenExe(b) \/ FillExe(b) \/ Clang(b)
      BY <3>4, LinkStepsKeep
    <3>5. CASE OpenKept(b) \/ FillKept(b) \/ OpenStored(b) \/ FillStored(b)
      BY <3>5, StoreStepsKeep
    <3> QED BY <2>2, <3>1, <3>2, <3>3, <3>4, <3>5 DEF Step
  <2>3. CASE UNCHANGED vars
    BY <2>3 DEF vars, BuildInv, Typed, Running, Control, Progress, StampTells, EntrySound,
                WriterSound, HasOpen, KeptExe, Ll, Stamp, Exe, Entry, ExeEntry, Others
  <2> QED BY <2>1, <2>2, <2>3 DEF Next
<1> QED BY <1>1, <1>2, PTL DEF Spec

\* A build that shared its output with none and took no file in doubt at its
\* word has left, when it ends, the .ll and the executable of its own source,
\* and has not failed; entries that are not in doubt are right.
THEOREM BuildsLeaveTheirOutput == Spec => []BuildsAreSound
<1>1. BuildInv => BuildsAreSound
  <2> SUFFICES ASSUME BuildInv PROVE BuildsAreSound
    OBVIOUS
  <2>1. ASSUME NEW b \in Builders \ misled PROVE GivesItsSource(b)
    <3>1. CASE Running(b)
      <4>1. Progress(b)
        BY <2>1, <3>1 DEF BuildInv
      <4> QED BY <4>1 DEF Progress, GivesItsSource, Made
    <3>2. CASE ~Running(b)
      BY <3>2 DEF Running, GivesItsSource
    <3> QED BY <3>1, <3>2
  <2>2. \A f \in Entries : EntrySound(f)
    BY DEF BuildInv
  <2> QED BY <2>1, <2>2 DEF BuildsAreSound, Entries, EntrySound
<1> QED BY <1>1, BuildInvariant, PTL

-----------------------------------------------------------------------------
(***************************************************************************)
(* The ownership maps.  A sound index says of the first pairs of its map   *)
(* where each key is last; every operation keeps the indices of the maps   *)
(* in use sound, and a lookup in a map whose index is sound is a scan.     *)
(***************************************************************************)

MapKeys == Own!Keys \cup {<<f, k[2]>> : f \in {"cond", "by"}, k \in Own!Keys}
MapPairs == [key : MapKeys, val : Int]
Indices == UNION {[D -> Nat \ {0}] : D \in SUBSET MapKeys}
WarmSlots == [map : Own!Addresses, index : Indices, built : Nat]
MapStates == [vec : [Own!Addresses -> Seq(MapPairs)], warm : Seq(WarmSlots)]

\* i is the last of the first n places of v with the key k.
IsLast(v, n, k, i) == i \in 1 .. n /\ v[i].key = k /\ \A j \in 1 .. n : v[j].key = k => j <= i

\* An index is that of the first `built` pairs of the map.
Sound(slot, v) ==
  /\ slot.built \in 0 .. Len(v)
  /\ DOMAIN slot.index = {v[i].key : i \in 1 .. slot.built}
  /\ \A k \in DOMAIN slot.index : IsLast(v, slot.built, k, slot.index[k])

\* A map has one slot, and those of the maps in use are sound.
Sounds(s, live) ==
  /\ s \in MapStates
  /\ \A i, j \in DOMAIN s.warm : s.warm[i].map = s.warm[j].map => i = j
  /\ \A i \in DOMAIN s.warm : s.warm[i].map \in live => Sound(s.warm[i], s.vec[s.warm[i].map])

-----------------------------------------------------------------------------
\* A set of numbers up to n has a greatest one.
LEMMA GreatestOfSet ==
  ASSUME NEW n \in Nat, NEW T \in SUBSET (1 .. n), T # {}
  PROVE  Own!Max(T) \in T /\ \A m \in T : m <= Own!Max(T)
<1> DEFINE U == {n - i : i \in T}
<1>1. U \in SUBSET Nat /\ U # {}
  <2>1. \A i \in T : n - i \in Nat
    OBVIOUS
  <2>2. PICK i \in T : TRUE
    OBVIOUS
  <2>3. n - i \in U
    BY <2>2
  <2> QED BY <2>1, <2>3
<1>2. PICK l \in U : \A m \in U : <<m, l>> \notin OpToRel(<, Nat)
  BY <1>1, NatLessThanWellFounded, WFMin
<1>3. PICK i \in T : l = n - i
  BY <1>2
<1>4. \A m \in T : m <= i
  <2> SUFFICES ASSUME NEW m \in T, m > i PROVE FALSE
    OBVIOUS
  <2>1. n - m \in U /\ n - m < l /\ n - m \in Nat /\ l \in Nat
    BY <1>1, <1>3
  <2> QED BY <1>2, <2>1 DEF OpToRel
<1> QED BY <1>3, <1>4 DEF Own!Max

LEMMA MaxPlaceIsLast ==
  ASSUME NEW v \in Seq(MapPairs), NEW k, Own!Places(v, k) # {}
  PROVE  IsLast(v, Len(v), k, Own!Max(Own!Places(v, k)))
<1>1. Own!Places(v, k) \in SUBSET (1 .. Len(v)) /\ Len(v) \in Nat
  BY LenProperties DEF Own!Places
<1>2. /\ Own!Max(Own!Places(v, k)) \in Own!Places(v, k)
      /\ \A m \in Own!Places(v, k) : m <= Own!Max(Own!Places(v, k))
  BY <1>1, GreatestOfSet
<1> QED BY <1>1, <1>2, LenProperties DEF Own!Places, IsLast

\* An index that catches up is an index, whatever it was of.
LEMMA CaughtUpIsSlot ==
  ASSUME NEW v \in Seq(MapPairs), NEW slot \in WarmSlots
  PROVE  /\ Own!CaughtUp(slot, v) \in WarmSlots /\ Own!CaughtUp(slot, v).map = slot.map
         /\ Own!CaughtUp(slot, v).built = Len(v)
<1> DEFINE new == {v[i].key : i \in slot.built + 1 .. Len(v)}
           index == [k \in new \cup DOMAIN slot.index |->
                       IF k \in new THEN Own!Max(Own!Places(v, k)) ELSE slot.index[k]]
<1>1. /\ Len(v) \in Nat /\ slot.built \in Nat /\ DOMAIN v = 1 .. Len(v)
      /\ \A i \in 1 .. Len(v) : v[i].key \in MapKeys
  <2>1. Len(v) \in Nat /\ DOMAIN v = 1 .. Len(v)
    BY LenProperties
  <2>2. \A i \in 1 .. Len(v) : v[i] \in MapPairs
    BY ElementOfSeq
  <2> QED BY <2>1, <2>2 DEF MapPairs, WarmSlots
<1>2. PICK D \in SUBSET MapKeys : D = DOMAIN slot.index /\ slot.index \in [D -> Nat \ {0}]
  BY DEF WarmSlots, Indices
<1>3. \A k \in new : k \in MapKeys /\ Own!Places(v, k) # {}
  BY <1>1 DEF Own!Places
<1>4. \A k \in new : Own!Max(Own!Places(v, k)) \in Nat \ {0}
  BY <1>1, <1>3, MaxPlaceIsLast DEF IsLast
<1> HIDE DEF new
<1>5. index \in Indices
  <2>1. index \in [new \cup D -> Nat \ {0}] /\ new \cup D \in SUBSET MapKeys
    BY <1>2, <1>3, <1>4
  <2> QED BY <2>1 DEF Indices
<1>6. Own!CaughtUp(slot, v) = [slot EXCEPT !.index = index, !.built = Len(v)]
  BY DEF Own!CaughtUp, new
<1> HIDE DEF index
<1> QED BY <1>1, <1>5, <1>6 DEF WarmSlots

LEMMA CaughtUpIsSound ==
  ASSUME NEW v \in Seq(MapPairs), NEW slot \in WarmSlots, Sound(slot, v)
  PROVE  /\ Own!CaughtUp(slot, v) \in WarmSlots /\ Own!CaughtUp(slot, v).map = slot.map
         /\ Own!CaughtUp(slot, v).built = Len(v)
         /\ Sound(Own!CaughtUp(slot, v), v)
<1> DEFINE new == {v[i].key : i \in slot.built + 1 .. Len(v)}
           index == [k \in new \cup DOMAIN slot.index |->
                       IF k \in new THEN Own!Max(Own!Places(v, k)) ELSE slot.index[k]]
<1>1. /\ Len(v) \in Nat /\ slot.built \in Nat /\ slot.built <= Len(v)
      /\ DOMAIN v = 1 .. Len(v) /\ \A i \in 1 .. Len(v) : v[i].key \in MapKeys
  <2>1. Len(v) \in Nat /\ DOMAIN v = 1 .. Len(v)
    BY LenProperties
  <2>2. slot.built \in 0 .. Len(v)
    BY DEF Sound
  <2>3. \A i \in 1 .. Len(v) : v[i] \in MapPairs
    BY ElementOfSeq
  <2> QED BY <2>1, <2>2, <2>3 DEF MapPairs
<1>2. DOMAIN index = {v[i].key : i \in 1 .. Len(v)}
  BY <1>1 DEF Sound
<1>3. ASSUME NEW k \in DOMAIN index PROVE IsLast(v, Len(v), k, index[k])
  <2>1. CASE k \in new
    BY <1>1, <2>1, MaxPlaceIsLast DEF Own!Places
  <2>2. CASE k \notin new
    <3>1. k \in DOMAIN slot.index /\ index[k] = slot.index[k]
      BY <2>2
    <3>2. IsLast(v, slot.built, k, slot.index[k])
      BY <3>1 DEF Sound
    <3>3. \A j \in slot.built + 1 .. Len(v) : v[j].key # k
      BY <2>2
    <3> QED BY <1>1, <3>1, <3>2, <3>3 DEF IsLast
  <2> QED BY <2>1, <2>2
<1>4. Own!CaughtUp(slot, v).index = index
  BY DEF Own!CaughtUp, WarmSlots
<1> HIDE DEF index
<1>5. /\ Own!CaughtUp(slot, v) \in WarmSlots /\ Own!CaughtUp(slot, v).map = slot.map
      /\ Own!CaughtUp(slot, v).built = Len(v)
  BY CaughtUpIsSlot
<1> QED BY <1>1, <1>2, <1>3, <1>4, <1>5 DEF Sound

-----------------------------------------------------------------------------
\* An index stays sound while its map grows and values change.
LEMMA SoundStays ==
  ASSUME NEW v \in Seq(MapPairs), NEW w \in Seq(MapPairs), NEW slot, Sound(slot, v),
         Len(v) <= Len(w), \A i \in 1 .. Len(v) : w[i].key = v[i].key
  PROVE  Sound(slot, w)
<1>1. Len(v) \in Nat /\ Len(w) \in Nat /\ slot.built \in 0 .. Len(v)
  BY LenProperties DEF Sound
<1>2. \A i \in 1 .. slot.built : i \in 1 .. Len(v) /\ w[i].key = v[i].key
  BY <1>1
<1>3. {w[i].key : i \in 1 .. slot.built} = {v[i].key : i \in 1 .. slot.built}
  BY <1>2
<1>4. DOMAIN slot.index = {w[i].key : i \in 1 .. slot.built}
  BY <1>3 DEF Sound
<1>5. \A k \in DOMAIN slot.index : IsLast(w, slot.built, k, slot.index[k])
  BY <1>1, <1>2 DEF Sound, IsLast
<1>6. slot.built \in 0 .. Len(w)
  BY <1>1
<1> QED BY <1>4, <1>5, <1>6 DEF Sound

\* A key that the index of the whole map has is where it says, and no other is there.
LEMMA SoundAnswers ==
  ASSUME NEW v \in Seq(MapPairs), NEW slot, Sound(slot, v), slot.built = Len(v), NEW k
  PROVE  /\ k \in DOMAIN slot.index <=> Own!Places(v, k) # {}
         /\ k \in DOMAIN slot.index => Own!IndexHolds(slot, v, k) /\ slot.index[k] = Own!Max(Own!Places(v, k))
<1>1. DOMAIN v = 1 .. Len(v) /\ Len(v) \in Nat
  BY LenProperties
<1>2. k \in DOMAIN slot.index <=> Own!Places(v, k) # {}
  BY <1>1 DEF Sound, Own!Places
<1>3. ASSUME k \in DOMAIN slot.index
      PROVE  Own!IndexHolds(slot, v, k) /\ slot.index[k] = Own!Max(Own!Places(v, k))
  <2>1. IsLast(v, Len(v), k, slot.index[k])
    BY <1>3 DEF Sound
  <2>2. IsLast(v, Len(v), k, Own!Max(Own!Places(v, k)))
    BY <1>2, <1>3, MaxPlaceIsLast
  <2> QED BY <1>1, <2>1, <2>2 DEF IsLast, Own!IndexHolds
<1> QED BY <1>2, <1>3

-----------------------------------------------------------------------------
\* What a sequence is without its p-th element.
LEMMA OthersRemain ==
  ASSUME NEW S, NEW w \in Seq(S), NEW p \in 1 .. Len(w)
  PROVE  /\ Own!RemoveAt(w, p) \in Seq(S) /\ Len(Own!RemoveAt(w, p)) = Len(w) - 1
         /\ \A i \in 1 .. Len(w) - 1 : Own!RemoveAt(w, p)[i] = IF i < p THEN w[i] ELSE w[i + 1]
<1>1. PICK n \in Nat : n = Len(w) /\ p \in 1 .. n
  BY LenProperties
<1> DEFINE x == SubSeq(w, 1, p - 1)
           y == SubSeq(w, p + 1, n)
<1>2. \A i \in 1 .. n : w[i] \in S
  BY <1>1, ElementOfSeq
<1>3. x \in Seq(S) /\ Len(x) = p - 1 /\ \A i \in 1 .. p - 1 : x[i] = w[i]
  <2>1. p - 1 \in Int /\ p - 1 >= 0 /\ \A i \in 1 .. p - 1 : w[i] \in S
    BY <1>1, <1>2
  <2>2. /\ x \in Seq(S) /\ Len(x) = IF 1 <= p - 1 THEN p - 1 ELSE 0
        /\ \A i \in 1 .. p - 1 : x[i] = w[i]
    BY <2>1, SubSeqProperties
  <2> HIDE DEF x
  <2> QED BY <2>1, <2>2
<1>4. y \in Seq(S) /\ Len(y) = n - p /\ \A i \in 1 .. n - p : y[i] = w[p + i]
  <2>1. p + 1 \in Int /\ n \in Int /\ p <= n /\ \A i \in p + 1 .. n : w[i] \in S
    BY <1>1, <1>2
  <2>2. /\ y \in Seq(S) /\ Len(y) = IF p + 1 <= n THEN n - p ELSE 0
        /\ \A i \in 1 .. n - p : y[i] = w[p + i]
    BY <2>1, SubSeqProperties
  <2> HIDE DEF y
  <2> QED BY <1>1, <2>1, <2>2
<1>5. Own!RemoveAt(w, p) = x \o y
  BY <1>1 DEF Own!RemoveAt
<1> HIDE DEF x, y
<1>6. PICK z : /\ z = x \o y /\ z \in Seq(S) /\ Len(z) = Len(x) + Len(y)
               /\ \A i \in 1 .. Len(x) + Len(y) : z[i] = IF i <= Len(x) THEN x[i] ELSE y[i - Len(x)]
  <2>1. /\ x \o y \in Seq(S) /\ Len(x \o y) = Len(x) + Len(y)
        /\ \A i \in 1 .. Len(x) + Len(y) : (x \o y)[i] = IF i <= Len(x) THEN x[i] ELSE y[i - Len(x)]
    BY <1>3, <1>4, ConcatProperties, Zenon
  <2> QED BY ONLY <2>1
<1>7. Len(z) = n - 1 /\ \A i \in 1 .. n - 1 : z[i] = IF i <= p - 1 THEN x[i] ELSE y[i - (p - 1)]
  BY <1>1, <1>3, <1>4, <1>6
<1>8. ASSUME NEW i \in 1 .. n - 1
      PROVE  z[i] = IF i < p THEN w[i] ELSE w[i + 1]
  <2>1. CASE i < p
    BY <1>1, <1>3, <1>7, <2>1
  <2>2. CASE i >= p
    <3>1. i - (p - 1) \in 1 .. n - p /\ p + (i - (p - 1)) = i + 1
      BY <1>1, <2>2
    <3>2. z[i] = y[i - (p - 1)]
      BY <1>1, <1>7, <2>2
    <3> QED BY <1>1, <1>4, <2>2, <3>1, <3>2
  <2> QED BY <1>1, <2>1, <2>2
<1> QED BY <1>1, <1>5, <1>6, <1>7, <1>8

\* The slot of a map that has one.
LEMMA WarmTypes ==
  ASSUME NEW s \in MapStates, NEW m, Own!IsWarm(s, m)
  PROVE  /\ Own!PlaceOf(s, m) \in DOMAIN s.warm /\ Own!Slot(s, m).map = m
         /\ Own!Slot(s, m) \in WarmSlots
<1>1. s.warm \in Seq(WarmSlots)
  BY DEF MapStates
<1>2. Own!PlaceOf(s, m) \in Own!SlotOf(s, m)
  BY DEF Own!PlaceOf, Own!IsWarm
<1> QED BY <1>1, <1>2, ElementOfSeq, LenProperties DEF Own!SlotOf, Own!Slot

\* Taking a slot out of the sequence leaves the others, and puts it at the end.
LEMMA UsedSlots ==
  ASSUME NEW s \in MapStates, NEW slot \in WarmSlots, Own!IsWarm(s, slot.map),
         \A i, j \in DOMAIN s.warm : s.warm[i].map = s.warm[j].map => i = j
  PROVE  /\ Own!Used(s, slot) \in Seq(WarmSlots)
         /\ \A i, j \in DOMAIN Own!Used(s, slot) :
               Own!Used(s, slot)[i].map = Own!Used(s, slot)[j].map => i = j
         /\ \A i \in DOMAIN Own!Used(s, slot) :
               \/ Own!Used(s, slot)[i] = slot
               \/ /\ Own!Used(s, slot)[i].map # slot.map
                  /\ \E j \in DOMAIN s.warm : Own!Used(s, slot)[i] = s.warm[j]
         /\ \E i \in DOMAIN Own!Used(s, slot) : Own!Used(s, slot)[i] = slot
<1>1. PICK p \in DOMAIN s.warm : p = Own!PlaceOf(s, slot.map) /\ s.warm[p].map = slot.map
  BY WarmTypes DEF Own!Slot
<1>2. PICK w \in Seq(WarmSlots) : w = s.warm
  BY DEF MapStates
<1>3. PICK n \in Nat : n = Len(w) /\ DOMAIN w = 1 .. n
  BY LenProperties
<1>4. p \in 1 .. n /\ w[p].map = slot.map /\ \A i, j \in 1 .. n : w[i].map = w[j].map => i = j
  BY <1>1, <1>2, <1>3
<1>5. /\ Own!RemoveAt(w, p) \in Seq(WarmSlots) /\ Len(Own!RemoveAt(w, p)) = n - 1
      /\ \A i \in 1 .. n - 1 : Own!RemoveAt(w, p)[i] = IF i < p THEN w[i] ELSE w[i + 1]
  <2>1. p \in 1 .. Len(w)
    BY <1>4, <1>3
  <2>2. /\ Own!RemoveAt(w, p) \in Seq(WarmSlots) /\ Len(Own!RemoveAt(w, p)) = Len(w) - 1
        /\ \A i \in 1 .. Len(w) - 1 : Own!RemoveAt(w, p)[i] = IF i < p THEN w[i] ELSE w[i + 1]
    BY <2>1, OthersRemain, Zenon
  <2> QED BY <1>3, <2>2
<1>6. PICK r : r = Own!Used(s, slot) /\ r = Append(Own!RemoveAt(w, p), slot)
  BY <1>1, <1>2, <1>5 DEF Own!Used
<1>7. /\ r \in Seq(WarmSlots) /\ DOMAIN r = 1 .. n /\ r[n] = slot
      /\ \A i \in 1 .. n - 1 : r[i] = IF i < p THEN w[i] ELSE w[i + 1]
  <2>1. /\ r \in Seq(WarmSlots) /\ Len(r) = n /\ r[n] = slot
        /\ \A i \in 1 .. n - 1 : r[i] = Own!RemoveAt(w, p)[i]
    BY <1>3, <1>5, <1>6, AppendProperties
  <2> QED BY <1>5, <2>1, LenProperties
<1>8. ASSUME NEW i \in 1 .. n - 1
      PROVE  \E j \in 1 .. n : j # p /\ r[i] = w[j] /\ (j < p => i = j) /\ (j > p => i = j - 1)
  <2>1. CASE i < p
    BY <1>4, <1>3, <1>7, <2>1
  <2>2. CASE i >= p
    <3>1. PICK j \in 1 .. n : j = i + 1
      BY <1>3
    <3>2. j > p /\ r[i] = w[j] /\ i = j - 1
      BY <1>4, <1>3, <1>7, <2>2, <3>1
    <3> QED BY <1>4, <3>2
  <2> QED BY <1>4, <2>1, <2>2
<1>9. \A i \in 1 .. n - 1 : r[i].map # slot.map /\ \E j \in 1 .. n : r[i] = w[j]
  BY <1>4, <1>8
<1>10. ASSUME NEW i \in 1 .. n, NEW j \in 1 .. n, r[i].map = r[j].map PROVE i = j
  <2>1. CASE i = n \/ j = n
    BY <1>3, <1>7, <1>9, <1>10, <2>1
  <2>2. CASE i # n /\ j # n
    <3>1. i \in 1 .. n - 1 /\ j \in 1 .. n - 1
      BY <1>3, <2>2
    <3>2. PICK k \in 1 .. n : k # p /\ r[i] = w[k] /\ (k < p => i = k) /\ (k > p => i = k - 1)
      BY <1>8, <3>1
    <3>3. PICK l \in 1 .. n : l # p /\ r[j] = w[l] /\ (l < p => j = l) /\ (l > p => j = l - 1)
      BY <1>8, <3>1
    <3>4. k = l
      BY <1>4, <1>10, <3>2, <3>3
    <3> QED BY <1>4, <1>3, <3>2, <3>3, <3>4
  <2> QED BY <2>1, <2>2
<1>11. \A i \in 1 .. n : r[i] = slot \/ (r[i].map # slot.map /\ \E j \in DOMAIN s.warm : r[i] = s.warm[j])
  <2>1. \A i \in 1 .. n : i = n \/ i \in 1 .. n - 1
    BY <1>3
  <2>2. \A i \in 1 .. n - 1 : r[i].map # slot.map /\ \E j \in DOMAIN s.warm : r[i] = s.warm[j]
    <3>1. s.warm = w /\ DOMAIN s.warm = 1 .. n
      BY <1>2, <1>3
    <3> QED BY ONLY <1>9, <3>1
  <2> QED BY <1>7, <2>1, <2>2
<1>12. n \in 1 .. n
  BY <1>4
<1> QED BY <1>6, <1>7, <1>10, <1>11, <1>12

-----------------------------------------------------------------------------
\* The slot of a map, when no map has two.
LEMMA SlotIs ==
  ASSUME NEW s \in MapStates, \A i, j \in DOMAIN s.warm : s.warm[i].map = s.warm[j].map => i = j,
         NEW i \in DOMAIN s.warm
  PROVE  Own!IsWarm(s, s.warm[i].map) /\ Own!Slot(s, s.warm[i].map) = s.warm[i]
<1>1. i \in Own!SlotOf(s, s.warm[i].map)
  BY DEF Own!SlotOf
<1>2. Own!IsWarm(s, s.warm[i].map)
  BY <1>1 DEF Own!IsWarm
<1>3. Own!PlaceOf(s, s.warm[i].map) \in DOMAIN s.warm /\ s.warm[Own!PlaceOf(s, s.warm[i].map)].map = s.warm[i].map
  BY <1>2, WarmTypes DEF Own!Slot
<1>4. Own!PlaceOf(s, s.warm[i].map) = i
  BY <1>3
<1> QED BY <1>2, <1>4 DEF Own!Slot

\* What is known of the maps when a slot is used: the others are sound.
LEMMA UsedKeeps ==
  ASSUME NEW s \in MapStates, NEW t \in MapStates, NEW slot \in WarmSlots, NEW live,
         Own!IsWarm(s, slot.map),
         \A i, j \in DOMAIN s.warm : s.warm[i].map = s.warm[j].map => i = j,
         \A i \in DOMAIN s.warm : s.warm[i].map \in live \ {slot.map} => Sound(s.warm[i], t.vec[s.warm[i].map]),
         slot.map \in live => Sound(slot, t.vec[slot.map]),
         t.warm = Own!Used(s, slot)
  PROVE  Sounds(t, live) /\ Own!IsWarm(t, slot.map) /\ Own!Slot(t, slot.map) = slot
<1>1. /\ \A i, j \in DOMAIN t.warm : t.warm[i].map = t.warm[j].map => i = j
      /\ \A i \in DOMAIN t.warm :
            \/ t.warm[i] = slot
            \/ t.warm[i].map # slot.map /\ \E j \in DOMAIN s.warm : t.warm[i] = s.warm[j]
      /\ \E i \in DOMAIN t.warm : t.warm[i] = slot
  BY UsedSlots
<1>2. ASSUME NEW i \in DOMAIN t.warm, t.warm[i].map \in live PROVE Sound(t.warm[i], t.vec[t.warm[i].map])
  <2>1. CASE t.warm[i] = slot
    BY <1>2, <2>1
  <2>2. CASE t.warm[i].map # slot.map /\ \E j \in DOMAIN s.warm : t.warm[i] = s.warm[j]
    BY <1>2, <2>2
  <2> QED BY <1>1, <2>1, <2>2
<1>3. Own!IsWarm(t, slot.map) /\ Own!Slot(t, slot.map) = slot
  BY <1>1, SlotIs
<1> QED BY <1>1, <1>2, <1>3 DEF Sounds

\* An empty index is sound for any map.
LEMMA FreshIsSound ==
  ASSUME NEW m \in Own!Addresses
  PROVE  /\ [map |-> m, index |-> <<>>, built |-> 0] \in WarmSlots
         /\ \A v \in Seq(MapPairs) : Sound([map |-> m, index |-> <<>>, built |-> 0], v)
<1>1. <<>> \in [{} -> Nat \ {0}] /\ {} \in SUBSET MapKeys
  OBVIOUS
<1>2. <<>> \in Indices
  BY <1>1 DEF Indices
<1> QED BY <1>2, LenProperties DEF WarmSlots, Sound

\* A map that had no slot gets an empty one.
LEMMA CreatedKeeps ==
  ASSUME NEW live, NEW s, Sounds(s, live), NEW m \in Own!Addresses
  PROVE  /\ Sounds(Own!Created(s, m), live) /\ Own!Created(s, m).vec = s.vec
         /\ Own!IsWarm(Own!Created(s, m), m)
<1>1. s \in MapStates /\ s.warm \in Seq(WarmSlots)
  BY DEF Sounds, MapStates
<1>2. CASE Own!IsWarm(s, m)
  BY <1>2 DEF Own!Created
<1>3. CASE ~Own!IsWarm(s, m)
  <2> DEFINE fresh == [map |-> m, index |-> <<>>, built |-> 0]
  <2>1. PICK old \in Seq(WarmSlots), n \in Nat, d \in {0, 1} :
          /\ old = IF Len(s.warm) = Ways THEN Tail(s.warm) ELSE s.warm
          /\ Len(old) = n /\ DOMAIN old = 1 .. n
          /\ \A i \in 1 .. n : i + d \in DOMAIN s.warm /\ old[i] = s.warm[i + d]
    <3>1. CASE Len(s.warm) = Ways
      <4>1. s.warm # <<>> /\ Len(s.warm) \in Nat \ {0} /\ DOMAIN s.warm = 1 .. Len(s.warm)
        BY <1>1, <3>1, OwnershipAssumption, LenProperties DEF Own!OwnershipAssumption
      <4>2. PICK old \in Seq(WarmSlots) : /\ old = Tail(s.warm) /\ Len(old) = Len(s.warm) - 1
                                         /\ \A i \in 1 .. Len(old) : old[i] = s.warm[i + 1]
        BY <1>1, <4>1, HeadTailProperties
      <4>3. PICK n \in Nat : n = Len(old) /\ DOMAIN old = 1 .. n
        BY LenProperties
      <4>4. \A i \in 1 .. n : i + 1 \in DOMAIN s.warm /\ old[i] = s.warm[i + 1]
        BY <4>1, <4>2, <4>3
      <4>5. old = IF Len(s.warm) = Ways THEN Tail(s.warm) ELSE s.warm
        BY <3>1, <4>2
      <4>6. 1 \in {0, 1}
        OBVIOUS
      <4> QED BY ONLY old \in Seq(WarmSlots), n \in Nat, <4>3, <4>4, <4>5, <4>6
    <3>2. CASE Len(s.warm) # Ways
      <4>1. PICK n \in Nat : n = Len(s.warm) /\ DOMAIN s.warm = 1 .. n
        BY <1>1, LenProperties
      <4>2. \A i \in 1 .. n : i + 0 \in DOMAIN s.warm /\ s.warm[i] = s.warm[i + 0]
        BY <4>1
      <4>3. s.warm = IF Len(s.warm) = Ways THEN Tail(s.warm) ELSE s.warm
        BY <3>2
      <4>4. 0 \in {0, 1}
        OBVIOUS
      <4> QED BY ONLY <1>1, n \in Nat, <4>1, <4>2, <4>3, <4>4
    <3> QED BY <3>1, <3>2
  <2>2. fresh \in WarmSlots /\ \A v \in Seq(MapPairs) : Sound(fresh, v)
    BY FreshIsSound
  <2>3. PICK t : t = Own!Created(s, m) /\ t = [s EXCEPT !.warm = Append(old, fresh)]
    BY <1>3, <2>1 DEF Own!Created
  <2> HIDE DEF fresh
  <2>4. PICK w : w = Append(old, fresh)
    OBVIOUS
  <2>5. /\ w \in Seq(WarmSlots) /\ DOMAIN w = 1 .. n + 1
        /\ w[n + 1] = fresh /\ \A i \in 1 .. n : w[i] = old[i]
    <3>1. w \in Seq(WarmSlots) /\ Len(w) = n + 1 /\ w[n + 1] = fresh /\ \A i \in 1 .. n : w[i] = old[i]
      BY <2>1, <2>2, <2>4, AppendProperties
    <3> QED BY <3>1, LenProperties
  <2>6. t = [s EXCEPT !.warm = w]
    BY <2>3, <2>4
  <2>7. t \in MapStates /\ t.vec = s.vec /\ t.warm = w
    BY <1>1, <2>5, <2>6 DEF MapStates
  <2>8. \A i \in 1 .. n : w[i] = s.warm[i + d] /\ i + d \in DOMAIN s.warm /\ w[i].map # m
    <3>1. \A i \in DOMAIN s.warm : s.warm[i].map # m
      BY <1>3 DEF Own!IsWarm, Own!SlotOf
    <3>2. ASSUME NEW i \in 1 .. n PROVE w[i] = s.warm[i + d] /\ i + d \in DOMAIN s.warm /\ w[i].map # m
      <4>1. w[i] = old[i]
        BY <2>5
      <4>2. i + d \in DOMAIN s.warm /\ old[i] = s.warm[i + d]
        BY <2>1
      <4> QED BY ONLY <3>1, <4>1, <4>2
    <3> QED BY <3>2
  <2>9. fresh.map = m
    BY DEF fresh
  <2>10. ASSUME NEW i \in 1 .. n + 1, NEW j \in 1 .. n + 1, w[i].map = w[j].map PROVE i = j
    <3>1. CASE i = n + 1 \/ j = n + 1
      BY <2>5, <2>8, <2>9, <2>10, <3>1
    <3>2. CASE i \in 1 .. n /\ j \in 1 .. n
      <4>1. i + d = j + d
        BY <2>8, <2>10, <3>2 DEF Sounds
      <4> QED BY <3>2, <4>1
    <3> QED BY <3>1, <3>2
  <2>11. ASSUME NEW i \in 1 .. n + 1, w[i].map \in live PROVE Sound(w[i], s.vec[w[i].map])
    <3>1. CASE i = n + 1
      BY <1>1, <2>2, <2>5, <2>9, <3>1 DEF MapStates
    <3>2. CASE i \in 1 .. n
      BY <2>8, <2>11, <3>2 DEF Sounds
    <3> QED BY <3>1, <3>2
  <2>12. Own!IsWarm(t, m)
    BY <2>5, <2>7, <2>9 DEF Own!IsWarm, Own!SlotOf
  <2> QED BY <2>3, <2>5, <2>7, <2>10, <2>11, <2>12 DEF Sounds
<1> QED BY <1>2, <1>3

\* A lookup brings the index of the map up to its end, if the map is long enough.
LEMMA AfterGetKeeps ==
  ASSUME NEW live, NEW s, Sounds(s, live), NEW m \in Own!Addresses
  PROVE  /\ Sounds(Own!AfterGet(s, m), live) /\ Own!AfterGet(s, m).vec = s.vec
         /\ Len(s.vec[m]) >= WarmFrom =>
              /\ Own!Slot(Own!AfterGet(s, m), m) \in WarmSlots
              /\ Own!Slot(Own!AfterGet(s, m), m).built = Len(s.vec[m])
              /\ m \in live => Sound(Own!Slot(Own!AfterGet(s, m), m), s.vec[m])
<1>1. Len(s.vec[m]) \in Nat /\ WarmFrom \in Nat
  BY LenProperties, OwnershipAssumption DEF Own!OwnershipAssumption, Sounds, MapStates
<1>2. CASE Len(s.vec[m]) < WarmFrom
  BY <1>1, <1>2 DEF Own!AfterGet
<1>3. CASE ~(Len(s.vec[m]) < WarmFrom)
  <2>1. PICK t : t = Own!Created(s, m) /\ Sounds(t, live) /\ t.vec = s.vec /\ Own!IsWarm(t, m)
    BY CreatedKeeps
  <2>2. t \in MapStates /\ t.vec[m] \in Seq(MapPairs)
    BY <2>1 DEF Sounds, MapStates
  <2>3. PICK old \in WarmSlots : /\ old = Own!Slot(t, m) /\ old.map = m
                                 /\ m \in live => Sound(old, t.vec[m])
    BY <2>1, <2>2, WarmTypes DEF Sounds, Own!Slot
  <2>4. PICK slot \in WarmSlots : /\ slot = Own!CaughtUp(old, t.vec[m]) /\ slot.map = m
                                  /\ slot.built = Len(t.vec[m])
                                  /\ m \in live => Sound(slot, t.vec[m])
    <3>1. PICK v \in Seq(MapPairs) : v = t.vec[m]
      BY <2>2
    <3>2. Sound(old, v) => Sound(Own!CaughtUp(old, v), v)
      BY CaughtUpIsSound
    <3>3. /\ Own!CaughtUp(old, v) \in WarmSlots /\ Own!CaughtUp(old, v).map = old.map
          /\ Own!CaughtUp(old, v).built = Len(v)
      BY CaughtUpIsSlot
    <3> QED BY <2>3, <3>1, <3>2, <3>3
  <2>5. PICK u : u = Own!AfterGet(s, m) /\ u = [t EXCEPT !.warm = Own!Used(t, slot)]
    BY <1>3, <2>1, <2>3, <2>4 DEF Own!AfterGet
  <2>6. Own!Used(t, slot) \in Seq(WarmSlots)
    BY <2>1, <2>2, <2>4, UsedSlots DEF Sounds
  <2>7. u \in MapStates /\ u.vec = t.vec /\ u.warm = Own!Used(t, slot)
    BY <2>2, <2>5, <2>6 DEF MapStates
  <2>8. Sounds(u, live) /\ Own!Slot(u, m) = slot
    <3>1. /\ Own!IsWarm(t, slot.map)
          /\ slot.map \in live => Sound(slot, u.vec[slot.map])
          /\ \A i, j \in DOMAIN t.warm : t.warm[i].map = t.warm[j].map => i = j
          /\ \A i \in DOMAIN t.warm :
                t.warm[i].map \in live \ {slot.map} => Sound(t.warm[i], u.vec[t.warm[i].map])
      BY <2>1, <2>4, <2>7 DEF Sounds
    <3> QED BY <2>2, <2>4, <2>7, <3>1, UsedKeeps
  <2> QED BY <2>1, <2>4, <2>5, <2>7, <2>8
<1> QED BY <1>2, <1>3

\* A scan gives a value, or -1.
LEMMA ScanIsInt ==
  ASSUME NEW v \in Seq(MapPairs), NEW k
  PROVE  Own!Scan(v, k) \in Int
<1>1. CASE Own!Places(v, k) = {}
  BY <1>1 DEF Own!Scan, Own!Missing
<1>2. CASE Own!Places(v, k) # {}
  <2>1. PICK i \in 1 .. Len(v) : i = Own!Max(Own!Places(v, k))
    BY <1>2, MaxPlaceIsLast DEF IsLast
  <2>2. v[i] \in MapPairs
    BY ElementOfSeq
  <2>3. v[i].val \in Int
    BY <2>2 DEF MapPairs
  <2> QED BY <1>2, <2>1, <2>3 DEF Own!Scan
<1> QED BY <1>1, <1>2

\* What the index answers is what a scan finds.
LEMMA LookupIsScan ==
  ASSUME NEW live, NEW s, Sounds(s, live), NEW m \in Own!Addresses, m \in live, NEW k
  PROVE  Own!Lookup(s, m, k) = Own!Scan(s.vec[m], k)
<1>1. s.vec[m] \in Seq(MapPairs)
  BY DEF Sounds, MapStates
<1>2. Len(s.vec[m]) \in Nat /\ WarmFrom \in Nat
  BY <1>1, LenProperties, OwnershipAssumption DEF Own!OwnershipAssumption
<1>3. CASE Len(s.vec[m]) < WarmFrom
  BY <1>3 DEF Own!Lookup
<1>4. CASE ~(Len(s.vec[m]) < WarmFrom)
  <2>1. PICK slot : /\ slot = Own!Slot(Own!AfterGet(s, m), m)
                    /\ slot.built = Len(s.vec[m]) /\ Sound(slot, s.vec[m])
    BY <1>2, <1>4, AfterGetKeeps
  <2>2. /\ k \in DOMAIN slot.index <=> Own!Places(s.vec[m], k) # {}
        /\ k \in DOMAIN slot.index => /\ Own!IndexHolds(slot, s.vec[m], k)
                                      /\ slot.index[k] = Own!Max(Own!Places(s.vec[m], k))
    BY <1>1, <2>1, SoundAnswers
  <2> QED BY <1>4, <2>1, <2>2 DEF Own!Lookup, Own!Scan
<1> QED BY <1>3, <1>4

\* Whatever the index is of, the answer is a value of the map, or -1.
LEMMA LookupIsInt ==
  ASSUME NEW live, NEW s, Sounds(s, live), NEW m \in Own!Addresses, NEW k
  PROVE  Own!Lookup(s, m, k) \in Int
<1>1. PICK v \in Seq(MapPairs) : v = s.vec[m]
  BY DEF Sounds, MapStates
<1>2. Len(v) \in Nat /\ DOMAIN v = 1 .. Len(v) /\ WarmFrom \in Nat
  BY LenProperties, OwnershipAssumption DEF Own!OwnershipAssumption
<1>3. Own!Scan(v, k) \in Int
  BY ScanIsInt
<1>4. ASSUME Len(v) >= WarmFrom, NEW slot \in WarmSlots, k \in DOMAIN slot.index, Own!IndexHolds(slot, v, k)
      PROVE  v[slot.index[k]].val \in Int
  <2>1. slot.index[k] \in Nat \ {0}
    BY <1>4 DEF WarmSlots, Indices
  <2>2. slot.index[k] \in 1 .. Len(v)
    BY <1>2, <1>4, <2>1 DEF Own!IndexHolds
  <2>3. v[slot.index[k]] \in MapPairs
    BY <2>2, ElementOfSeq
  <2> QED BY <2>3 DEF MapPairs
<1>5. CASE Len(v) < WarmFrom
  BY <1>1, <1>3, <1>5 DEF Own!Lookup
<1>6. CASE ~(Len(v) < WarmFrom)
  <2>1. PICK slot \in WarmSlots : slot = Own!Slot(Own!AfterGet(s, m), m)
    BY <1>1, <1>2, <1>6, AfterGetKeeps
  <2> QED BY <1>1, <1>2, <1>3, <1>4, <1>6, <2>1 DEF Own!Lookup, Own!Missing
<1> QED BY <1>5, <1>6

-----------------------------------------------------------------------------
\* A map may change under a sound index where every index sound before is sound after.
LEMMA VecKeeps ==
  ASSUME NEW live, NEW s, Sounds(s, live), NEW m \in Own!Addresses, NEW w \in Seq(MapPairs),
         m \in live /\ Own!IsWarm(s, m) => \A slot : Sound(slot, s.vec[m]) => Sound(slot, w)
  PROVE  Sounds([s EXCEPT !.vec[m] = w], live)
<1>1. PICK t : t = [s EXCEPT !.vec[m] = w]
  OBVIOUS
<1>2. /\ t \in MapStates /\ t.warm = s.warm /\ t.vec[m] = w
      /\ \A n \in Own!Addresses \ {m} : t.vec[n] = s.vec[n]
  BY <1>1 DEF Sounds, MapStates
<1>3. \A i \in DOMAIN s.warm : s.warm[i].map \in Own!Addresses
  <2>1. s.warm \in Seq(WarmSlots)
    BY DEF Sounds, MapStates
  <2>2. \A i \in DOMAIN s.warm : s.warm[i] \in WarmSlots
    BY <2>1, ElementOfSeq, LenProperties
  <2> QED BY <2>2 DEF WarmSlots
<1>4. ASSUME NEW i \in DOMAIN s.warm, s.warm[i].map \in live
      PROVE  Sound(s.warm[i], t.vec[s.warm[i].map])
  <2>1. CASE s.warm[i].map = m
    <3>1. Own!IsWarm(s, m)
      BY <2>1 DEF Own!IsWarm, Own!SlotOf
    <3> QED BY <1>2, <1>4, <2>1, <3>1 DEF Sounds
  <2>2. CASE s.warm[i].map # m
    BY <1>2, <1>3, <1>4, <2>2 DEF Sounds
  <2> QED BY <2>1, <2>2
<1>5. \A i, j \in DOMAIN t.warm : t.warm[i].map = t.warm[j].map => i = j
  BY <1>2 DEF Sounds
<1>6. Sounds(t, live)
  BY <1>2, <1>4, <1>5 DEF Sounds
<1> QED BY <1>1, <1>6

\* Putting a value over another of the same key, or a pair at the end.
LEMMA ValueChanges ==
  ASSUME NEW v \in Seq(MapPairs), NEW at \in DOMAIN v, NEW val \in Int
  PROVE  /\ [v EXCEPT ![at].val = val] \in Seq(MapPairs)
         /\ Len([v EXCEPT ![at].val = val]) = Len(v)
         /\ \A i \in 1 .. Len(v) : [v EXCEPT ![at].val = val][i].key = v[i].key
<1>1. PICK n \in Nat : n = Len(v) /\ DOMAIN v = 1 .. n
  BY LenProperties
<1>2. \A i \in 1 .. n : v[i] \in MapPairs
  BY <1>1, ElementOfSeq
<1>3. PICK w : w = [v EXCEPT ![at].val = val]
  OBVIOUS
<1>4. v \in [1 .. n -> MapPairs]
  BY <1>1, <1>2, LenProperties
<1>5. w = [i \in 1 .. n |-> IF i = at THEN [v[i] EXCEPT !.val = val] ELSE v[i]]
  BY <1>1, <1>3, <1>4
<1>6. \A i \in 1 .. n : w[i] \in MapPairs /\ w[i].key = v[i].key
  BY <1>2, <1>5 DEF MapPairs
<1>7. w \in [1 .. n -> MapPairs]
  BY <1>5, <1>6
<1>8. w \in Seq(MapPairs) /\ Len(w) = n
  BY <1>7, SeqDef, LenProperties
<1> QED BY <1>1, <1>3, <1>6, <1>8

LEMMA PairIsAdded ==
  ASSUME NEW v \in Seq(MapPairs), NEW k \in MapKeys, NEW val \in Int
  PROVE  /\ Append(v, [key |-> k, val |-> val]) \in Seq(MapPairs)
         /\ Len(Append(v, [key |-> k, val |-> val])) = Len(v) + 1
         /\ \A i \in 1 .. Len(v) : Append(v, [key |-> k, val |-> val])[i].key = v[i].key
         /\ Append(v, [key |-> k, val |-> val])[Len(v) + 1].key = k
<1>1. PICK p : p = [key |-> k, val |-> val] /\ p \in MapPairs /\ p.key = k
  <2>1. [key |-> k, val |-> val] \in MapPairs /\ [key |-> k, val |-> val].key = k
    BY DEF MapPairs
  <2> QED BY ONLY <2>1
<1>2. PICK w : w = Append(v, p)
  OBVIOUS
<1>3. /\ w \in Seq(MapPairs) /\ Len(w) = Len(v) + 1 /\ w[Len(v) + 1] = p
      /\ \A i \in 1 .. Len(v) : w[i] = v[i]
  BY <1>1, <1>2, AppendProperties
<1>4. w = Append(v, [key |-> k, val |-> val])
  BY <1>1, <1>2
<1>5. w[Len(v) + 1].key = k
  BY <1>1, <1>3
<1> QED BY <1>3, <1>4, <1>5

\* The key of the new last pair enters the index of a map that does not have it.
LEMMA InsertedIsSound ==
  ASSUME NEW v \in Seq(MapPairs), NEW w \in Seq(MapPairs), NEW k \in MapKeys,
         NEW slot \in WarmSlots, Sound(slot, v), slot.built = Len(v), k \notin DOMAIN slot.index,
         Len(w) = Len(v) + 1, \A i \in 1 .. Len(v) : w[i].key = v[i].key, w[Len(v) + 1].key = k
  PROVE  \E kept \in WarmSlots : /\ kept = [Own!Inserted(slot, k, Len(v) + 1) EXCEPT !.built = Len(v) + 1]
                                 /\ kept.map = slot.map /\ Sound(kept, w)
<1>1. PICK n \in Nat : n = Len(v)
  BY LenProperties
<1>2. PICK D \in SUBSET MapKeys : D = DOMAIN slot.index /\ slot.index \in [D -> Nat \ {0}]
  BY DEF WarmSlots, Indices
<1>3. PICK index : index = [l \in {k} \cup D |-> IF l = k THEN n + 1 ELSE slot.index[l]]
  OBVIOUS
<1>4. index \in Indices /\ DOMAIN index = {k} \cup D
  <2>1. index \in [{k} \cup D -> Nat \ {0}] /\ {k} \cup D \in SUBSET MapKeys
    BY <1>1, <1>2, <1>3
  <2> QED BY <2>1 DEF Indices
<1>5. PICK kept : /\ kept = [Own!Inserted(slot, k, Len(v) + 1) EXCEPT !.built = Len(v) + 1]
                  /\ kept \in WarmSlots /\ kept.map = slot.map /\ kept.index = index /\ kept.built = n + 1
  <2>1. PICK kept : kept = [Own!Inserted(slot, k, Len(v) + 1) EXCEPT !.built = Len(v) + 1]
    OBVIOUS
  <2>2. Own!Inserted(slot, k, Len(v) + 1) = [slot EXCEPT !.index = index]
    <3>1. [l \in {k} \cup DOMAIN slot.index |-> IF l = k THEN Len(v) + 1 ELSE slot.index[l]] = index
      BY <1>1, <1>2, <1>3
    <3> QED BY <3>1 DEF Own!Inserted
  <2>3. kept = [[slot EXCEPT !.index = index] EXCEPT !.built = n + 1]
    BY <1>1, <2>1, <2>2
  <2>4. kept \in WarmSlots /\ kept.map = slot.map /\ kept.index = index /\ kept.built = n + 1
    <3>1. PICK mid : mid = [slot EXCEPT !.index = index]
      OBVIOUS
    <3>2. mid \in WarmSlots /\ mid.map = slot.map /\ mid.index = index
      BY <1>4, <3>1 DEF WarmSlots
    <3>3. kept = [mid EXCEPT !.built = n + 1] /\ n + 1 \in Nat
      BY <2>3, <3>1
    <3> QED BY <3>2, <3>3 DEF WarmSlots
  <2> QED BY <2>1, <2>4
<1>6. D = {v[i].key : i \in 1 .. n} /\ \A l \in D : IsLast(v, n, l, slot.index[l])
  BY <1>1, <1>2 DEF Sound
<1>7. \A i \in 1 .. n : w[i].key = v[i].key
  BY <1>1
<1>8. {w[i].key : i \in 1 .. n + 1} = {k} \cup D
  <2>1. \A i \in 1 .. n + 1 : i = n + 1 \/ i \in 1 .. n
    BY <1>1
  <2>2. w[n + 1].key = k /\ n + 1 \in 1 .. n + 1 /\ \A i \in 1 .. n : i \in 1 .. n + 1
    BY <1>1
  <2>3. ASSUME NEW i \in 1 .. n + 1 PROVE w[i].key \in {k} \cup D
    BY <1>6, <1>7, <2>1, <2>2
  <2>4. ASSUME NEW l \in D PROVE \E i \in 1 .. n + 1 : l = w[i].key
    BY <1>6, <1>7, <2>2
  <2> QED BY <2>2, <2>3, <2>4
<1>9. ASSUME NEW l \in {k} \cup D PROVE IsLast(w, n + 1, l, index[l])
  <2>1. CASE l = k
    BY <1>1, <1>3, <2>1 DEF IsLast
  <2>2. CASE l # k
    <3>1. IsLast(v, n, l, slot.index[l]) /\ index[l] = slot.index[l]
      BY <1>3, <1>6, <2>2
    <3>2. index[l] \in 1 .. n + 1 /\ w[index[l]].key = l
      BY <1>7, <3>1 DEF IsLast
    <3>3. ASSUME NEW j \in 1 .. n + 1, w[j].key = l PROVE j <= index[l]
      <4>1. j \in 1 .. n
        BY <1>1, <2>2, <3>3
      <4> QED BY <1>7, <3>1, <3>3, <4>1 DEF IsLast
    <3> QED BY <3>2, <3>3 DEF IsLast
  <2> QED BY <2>1, <2>2
<1>10. n + 1 \in 0 .. Len(w)
  BY <1>1
<1>11. Sound(kept, w)
  BY <1>4, <1>5, <1>8, <1>9, <1>10 DEF Sound
<1> QED BY <1>5, <1>11

\* A map with a slot changes, and the slot is used.
LEMMA SlotAndVecKeep ==
  ASSUME NEW live, NEW s, Sounds(s, live), NEW m \in Own!Addresses, Own!IsWarm(s, m),
         NEW w \in Seq(MapPairs), NEW slot \in WarmSlots, slot.map = m, Sound(slot, w)
  PROVE  Sounds([[s EXCEPT !.vec[m] = w] EXCEPT !.warm = Own!Used(s, slot)], live)
<1>1. PICK t : t = [[s EXCEPT !.vec[m] = w] EXCEPT !.warm = Own!Used(s, slot)]
  OBVIOUS
<1>2. Own!Used(s, slot) \in Seq(WarmSlots)
  BY UsedSlots DEF Sounds
<1>3. /\ t \in MapStates /\ t.warm = Own!Used(s, slot) /\ t.vec[m] = w
      /\ \A n \in Own!Addresses \ {m} : t.vec[n] = s.vec[n]
  BY <1>1, <1>2 DEF Sounds, MapStates
<1>4. \A i \in DOMAIN s.warm : s.warm[i].map \in Own!Addresses
  <2>1. s.warm \in Seq(WarmSlots)
    BY DEF Sounds, MapStates
  <2>2. \A i \in DOMAIN s.warm : s.warm[i] \in WarmSlots
    BY <2>1, ElementOfSeq, LenProperties
  <2> QED BY <2>2 DEF WarmSlots
<1>5. \A i \in DOMAIN s.warm : s.warm[i].map \in live \ {m} => Sound(s.warm[i], t.vec[s.warm[i].map])
  BY <1>3, <1>4 DEF Sounds
<1>6. Sounds(t, live)
  BY <1>3, <1>5, UsedKeeps DEF Sounds
<1> QED BY <1>1, <1>6

\* own_put_i_full keeps every index sound, and changes no other map.
LEMMA PutKeeps ==
  ASSUME NEW live, NEW s, Sounds(s, live), NEW m \in Own!Addresses, m \in live,
         NEW k \in MapKeys, NEW val \in Int
  PROVE  /\ Sounds(Own!Put(s, m, k, val), live)
         /\ \A n \in Own!Addresses \ {m} : Own!Put(s, m, k, val).vec[n] = s.vec[n]
<1>1. PICK v \in Seq(MapPairs) : v = s.vec[m]
  BY DEF Sounds, MapStates
<1>2. PICK n \in Nat : n = Len(v) /\ DOMAIN v = 1 .. n
  BY LenProperties
<1>3. \A l : Own!Places(v, l) # {} => Own!Max(Own!Places(v, l)) \in 1 .. n
  BY <1>2, MaxPlaceIsLast DEF IsLast
<1>4. ASSUME NEW w \in Seq(MapPairs)
      PROVE  \A i \in Own!Addresses \ {m} : [s EXCEPT !.vec[m] = w].vec[i] = s.vec[i]
  BY DEF Sounds, MapStates
<1>5. \A at : [s EXCEPT !.vec[m][at].val = val] = [s EXCEPT !.vec[m] = [v EXCEPT ![at].val = val]]
  BY <1>1
<1>6. Own!Push(s, m, k, val) = [s EXCEPT !.vec[m] = Append(v, [key |-> k, val |-> val])]
  BY <1>1 DEF Own!Push
<1>7. CASE ~Own!IsWarm(s, m)
  <2>1. CASE Own!Places(v, k) # {}
    <3>1. PICK at \in 1 .. n : at = Own!Max(Own!Places(v, k))
      BY <1>3, <2>1
    <3>2. PICK w \in Seq(MapPairs) : w = [v EXCEPT ![at].val = val]
      BY <1>2, ValueChanges
    <3>3. Own!Put(s, m, k, val) = [s EXCEPT !.vec[m] = w]
      BY <1>1, <1>7, <1>5, <2>1, <3>1, <3>2 DEF Own!Put
    <3>4. Sounds([s EXCEPT !.vec[m] = w], live)
      BY <1>7, VecKeeps
    <3> QED BY <1>4, <3>3, <3>4
  <2>2. CASE Own!Places(v, k) = {}
    <3>1. PICK w \in Seq(MapPairs) : w = Append(v, [key |-> k, val |-> val])
      BY PairIsAdded
    <3>2. Own!Put(s, m, k, val) = [s EXCEPT !.vec[m] = w]
      BY <1>1, <1>7, <1>6, <2>2, <3>1 DEF Own!Put
    <3>3. Sounds([s EXCEPT !.vec[m] = w], live)
      BY <1>7, VecKeeps
    <3> QED BY <1>4, <3>2, <3>3
  <2> QED BY <2>1, <2>2
<1>8. CASE Own!IsWarm(s, m)
  <2>1. PICK old \in WarmSlots : old = Own!Slot(s, m) /\ old.map = m /\ Sound(old, v)
    BY <1>1, <1>8, WarmTypes DEF Sounds, Own!Slot
  <2>2. PICK slot \in WarmSlots : /\ slot = Own!CaughtUp(old, v) /\ slot.map = m
                                 /\ slot.built = Len(v) /\ Sound(slot, v)
    BY <1>2, <2>1, CaughtUpIsSound
  <2>3. /\ k \in DOMAIN slot.index <=> Own!Places(v, k) # {}
        /\ k \in DOMAIN slot.index => /\ Own!IndexHolds(slot, v, k)
                                      /\ slot.index[k] = Own!Max(Own!Places(v, k))
    BY <1>2, <2>2, SoundAnswers
  <2>4. CASE k \in DOMAIN slot.index
    <3>1. PICK at \in 1 .. n : at = slot.index[k]
      BY <1>3, <2>3, <2>4
    <3>2. PICK w \in Seq(MapPairs) : /\ w = [v EXCEPT ![at].val = val] /\ Len(w) = Len(v)
                                    /\ \A i \in 1 .. Len(v) : w[i].key = v[i].key
      <4>1. at \in DOMAIN v
        BY <1>2
      <4>2. /\ [v EXCEPT ![at].val = val] \in Seq(MapPairs)
            /\ Len([v EXCEPT ![at].val = val]) = Len(v)
            /\ \A i \in 1 .. Len(v) : [v EXCEPT ![at].val = val][i].key = v[i].key
        BY <4>1, ValueChanges
      <4> QED BY ONLY <4>2
    <3>3. Own!Inserted(slot, k, at) = slot
      <4>1. PICK D \in SUBSET MapKeys : D = DOMAIN slot.index /\ slot.index \in [D -> Nat \ {0}]
        BY DEF WarmSlots, Indices
      <4>2. [l \in {k} \cup DOMAIN slot.index |-> IF l = k THEN at ELSE slot.index[l]] = slot.index
        BY <2>4, <3>1, <4>1
      <4> QED BY <4>2 DEF Own!Inserted, WarmSlots
    <3>4. Own!Put(s, m, k, val) = [[s EXCEPT !.vec[m] = w] EXCEPT !.warm = Own!Used(s, slot)]
      BY <1>1, <1>8, <1>5, <2>1, <2>2, <2>3, <2>4, <3>1, <3>2, <3>3 DEF Own!Put
    <3>5. Sound(slot, w)
      <4>1. Len(v) <= Len(w) /\ \A i \in 1 .. Len(v) : w[i].key = v[i].key
        BY <1>2, <3>2
      <4>2. Sound(slot, v)
        BY <2>2
      <4> QED BY <4>1, <4>2, SoundStays, Zenon
    <3>6. Sounds([[s EXCEPT !.vec[m] = w] EXCEPT !.warm = Own!Used(s, slot)], live)
      BY <1>8, <2>2, <3>5, SlotAndVecKeep
    <3> QED BY <1>4, <3>4, <3>6
  <2>5. CASE k \notin DOMAIN slot.index
    <3>1. PICK w \in Seq(MapPairs) : /\ w = Append(v, [key |-> k, val |-> val]) /\ Len(w) = Len(v) + 1
                                    /\ \A i \in 1 .. Len(v) : w[i].key = v[i].key
                                    /\ w[Len(v) + 1].key = k
      <4>1. /\ Append(v, [key |-> k, val |-> val]) \in Seq(MapPairs)
            /\ Len(Append(v, [key |-> k, val |-> val])) = Len(v) + 1
            /\ \A i \in 1 .. Len(v) : Append(v, [key |-> k, val |-> val])[i].key = v[i].key
            /\ Append(v, [key |-> k, val |-> val])[Len(v) + 1].key = k
        BY PairIsAdded
      <4> QED BY ONLY <4>1
    <3>2. PICK kept \in WarmSlots : /\ kept = [Own!Inserted(slot, k, Len(v) + 1) EXCEPT !.built = Len(v) + 1]
                                   /\ kept.map = m /\ Sound(kept, w)
      <4>1. /\ Sound(slot, v) /\ slot.built = Len(v) /\ Len(w) = Len(v) + 1
            /\ w[Len(v) + 1].key = k /\ \A i \in 1 .. Len(v) : w[i].key = v[i].key
        BY <2>2, <3>1
      <4>2. \E kept \in WarmSlots : /\ kept = [Own!Inserted(slot, k, Len(v) + 1) EXCEPT !.built = Len(v) + 1]
                                    /\ kept.map = slot.map /\ Sound(kept, w)
        BY <2>5, <4>1, InsertedIsSound
      <4> QED BY <2>2, <4>2
    <3>3. Own!Put(s, m, k, val) = [[s EXCEPT !.vec[m] = w] EXCEPT !.warm = Own!Used(s, kept)]
      BY <1>1, <1>2, <1>8, <1>6, <2>1, <2>2, <2>3, <2>5, <3>1, <3>2 DEF Own!Put
    <3>4. Sounds([[s EXCEPT !.vec[m] = w] EXCEPT !.warm = Own!Used(s, kept)], live)
      BY <1>8, <3>2, SlotAndVecKeep
    <3> QED BY <1>4, <3>3, <3>4
  <2> QED BY <2>4, <2>5
<1> QED BY <1>7, <1>8

\* A snapshot is copied back into a map, whose index starts anew.
LEMMA RestoreKeeps ==
  ASSUME NEW live, NEW s, Sounds(s, live), NEW m \in Own!Addresses, NEW snap \in Own!Addresses
  PROVE  /\ Sounds(Own!Restore(s, m, snap), live)
         /\ \A n \in Own!Addresses \ {m} : Own!Restore(s, m, snap).vec[n] = s.vec[n]
<1>1. PICK w \in Seq(MapPairs) : w = s.vec[snap]
  BY DEF Sounds, MapStates
<1>2. \A n \in Own!Addresses \ {m} : [s EXCEPT !.vec[m] = w].vec[n] = s.vec[n]
  BY DEF Sounds, MapStates
<1>3. CASE ~Own!IsWarm(s, m)
  <2>1. Own!Restore(s, m, snap) = [s EXCEPT !.vec[m] = w]
    BY <1>1, <1>3 DEF Own!Restore
  <2>2. Sounds([s EXCEPT !.vec[m] = w], live)
    BY <1>3, VecKeeps
  <2> QED BY <1>2, <2>1, <2>2
<1>4. CASE Own!IsWarm(s, m)
  <2>1. PICK fresh \in WarmSlots : /\ fresh = [map |-> m, index |-> <<>>, built |-> 0]
                                  /\ fresh.map = m /\ Sound(fresh, w)
    BY FreshIsSound
  <2>2. Own!Restore(s, m, snap) = [[s EXCEPT !.vec[m] = w] EXCEPT !.warm = Own!Used(s, fresh)]
    BY <1>1, <1>4, <2>1 DEF Own!Restore
  <2>3. Sounds([[s EXCEPT !.vec[m] = w] EXCEPT !.warm = Own!Used(s, fresh)], live)
    BY <1>4, <2>1, SlotAndVecKeep
  <2> QED BY <1>2, <2>2, <2>3
<1> QED BY <1>3, <1>4

\* Freed maps are empty and no longer in use.
LEMMA FreedKeeps ==
  ASSUME NEW live, NEW s, Sounds(s, live), NEW ms
  PROVE  /\ Sounds(Own!Freed(s, ms), live \ ms)
         /\ \A n \in Own!Addresses : Own!Freed(s, ms).vec[n] = IF n \in ms THEN <<>> ELSE s.vec[n]
<1>1. PICK t : t = Own!Freed(s, ms)
  OBVIOUS
<1>2. <<>> \in Seq(MapPairs)
  OBVIOUS
<1>3. /\ t \in MapStates /\ t.warm = s.warm
      /\ \A n \in Own!Addresses : t.vec[n] = IF n \in ms THEN <<>> ELSE s.vec[n]
  BY <1>1, <1>2 DEF Sounds, MapStates, Own!Freed
<1>4. \A i \in DOMAIN s.warm : s.warm[i].map \in Own!Addresses
  <2>1. s.warm \in Seq(WarmSlots)
    BY DEF Sounds, MapStates
  <2>2. \A i \in DOMAIN s.warm : s.warm[i] \in WarmSlots
    BY <2>1, ElementOfSeq, LenProperties
  <2> QED BY <2>2 DEF WarmSlots
<1>5. Sounds(t, live \ ms)
  BY <1>3, <1>4 DEF Sounds
<1> QED BY <1>1, <1>3, <1>5

-----------------------------------------------------------------------------
\* What a join puts: nothing, a value of the key, or that and one of its "cond" key.
LEMMA JoinedPuts ==
  ASSUME NEW k \in MapKeys, NEW va \in Int, NEW vb \in Int
  PROVE  \/ Own!Joined(k, va, vb) = <<>>
         \/ \E val \in Int : Own!Joined(k, va, vb) = <<<<k, val>>>>
         \/ \E val \in Int : Own!Joined(k, va, vb) = <<<<k, val>>, <<<<"cond", k[2]>>, 1>>>>
BY DEF Own!Joined

LEMMA JoinsPutKeys ==
  ASSUME NEW k \in MapKeys
  PROVE  <<"cond", k[2]>> \in MapKeys /\ <<"by", k[2]>> \in MapKeys
<1>1. CASE k \in Own!Keys
  BY <1>1 DEF MapKeys
<1>2. CASE k \notin Own!Keys
  <2>1. PICK l \in Own!Keys, f \in {"cond", "by"} : k = <<f, l[2]>>
    BY <1>2 DEF MapKeys
  <2>2. k[2] = l[2]
    BY <2>1
  <2> QED BY <2>2 DEF MapKeys
<1> QED BY <1>1, <1>2

\* Nor does the question of who freed a name, whichever arm answers.
LEMMA JoinFreedByKeeps ==
  ASSUME NEW live, NEW s, Sounds(s, live), NEW m \in Own!Addresses \cap live,
         NEW a \in Own!Addresses, NEW b \in Own!Addresses, NEW by \in MapKeys
  PROVE  /\ Sounds(Own!JoinFreedBy(s, m, a, b, by), live)
         /\ \A n \in Own!Addresses \ {m} : Own!JoinFreedBy(s, m, a, b, by).vec[n] = s.vec[n]
<1>1. PICK t : t = Own!AfterGet(s, a) /\ Sounds(t, live) /\ t.vec = s.vec
  BY AfterGetKeeps
<1>2. PICK u : u = Own!AfterGet(t, b) /\ Sounds(u, live) /\ u.vec = s.vec
  BY <1>1, AfterGetKeeps
<1>3. PICK byA \in Int, byB \in Int : byA = Own!Lookup(s, a, by) /\ byB = Own!Lookup(t, b, by)
  BY <1>1, LookupIsInt
<1>4. \A val \in Int : /\ Sounds(Own!Put(u, m, by, val), live)
                       /\ \A n \in Own!Addresses \ {m} : Own!Put(u, m, by, val).vec[n] = u.vec[n]
  BY <1>2, PutKeeps
<1>5. Own!JoinFreedBy(s, m, a, b, by) \in {u, Own!Put(u, m, by, byA), Own!Put(u, m, by, byB)}
  BY <1>1, <1>2, <1>3 DEF Own!JoinFreedBy
<1> QED BY <1>2, <1>3, <1>4, <1>5

\* The join of a key keeps every index sound, and changes no map but the first.
LEMMA JoinKeyKeeps ==
  ASSUME NEW live, NEW s, Sounds(s, live), NEW m \in Own!Addresses \cap live,
         NEW a \in Own!Addresses, NEW b \in Own!Addresses,
         NEW k \in MapKeys, NEW va \in Int, NEW vb \in Int
  PROVE  /\ Sounds(Own!JoinKey(s, m, a, b, k, va, vb), live)
         /\ \A n \in Own!Addresses \ {m} : Own!JoinKey(s, m, a, b, k, va, vb).vec[n] = s.vec[n]
<1> DEFINE x == Own!AtLeast0(va)
           y == Own!AtLeast0(vb)
           Kept(t) == Sounds(t, live) /\ \A n \in Own!Addresses \ {m} : t.vec[n] = s.vec[n]
           Asked(t) == IF k[1] = "freed" THEN Own!JoinFreedBy(t, m, a, b, <<"by", k[2]>>) ELSE t
<1>1. x \in Int /\ y \in Int
  BY DEF Own!AtLeast0
<1>2. ASSUME NEW t, Kept(t) PROVE Kept(Asked(t))
  <2>1. <<"by", k[2]>> \in MapKeys
    BY JoinsPutKeys
  <2>2. PICK by \in MapKeys : by = <<"by", k[2]>>
    BY <2>1
  <2>3. Sounds(t, live)
    BY <1>2
  <2>4. /\ Sounds(Own!JoinFreedBy(t, m, a, b, by), live)
        /\ \A n \in Own!Addresses \ {m} : Own!JoinFreedBy(t, m, a, b, by).vec[n] = t.vec[n]
    BY <2>3, JoinFreedByKeeps
  <2> QED BY <1>2, <2>2, <2>4
<1>3. ASSUME NEW l \in MapKeys, NEW val \in Int, NEW t, Kept(t) PROVE Kept(Own!Put(t, m, l, val))
  BY <1>3, PutKeeps
<1>4. Kept(s)
  OBVIOUS
<1>5. CASE Own!Joined(k, x, y) = <<>>
  BY <1>5 DEF Own!JoinKey
<1>6. CASE \E val \in Int : Own!Joined(k, x, y) = <<<<k, val>>>>
  <2>1. PICK val \in Int : Own!Joined(k, x, y) = <<<<k, val>>>>
    BY <1>6
  <2>2. Own!JoinKey(s, m, a, b, k, va, vb) = Asked(Own!Put(s, m, k, val))
    BY <2>1 DEF Own!JoinKey
  <2>3. Kept(Asked(Own!Put(s, m, k, val)))
    <3> HIDE DEF Kept, Asked
    <3> QED BY <1>2, <1>3, <1>4
  <2> QED BY <2>2, <2>3
<1>7. CASE \E val \in Int : Own!Joined(k, x, y) = <<<<k, val>>, <<<<"cond", k[2]>>, 1>>>>
  <2>1. PICK val \in Int : Own!Joined(k, x, y) = <<<<k, val>>, <<<<"cond", k[2]>>, 1>>>>
    BY <1>7
  <2>2. PICK l \in MapKeys : l = <<"cond", k[2]>>
    BY JoinsPutKeys
  <2>3. Own!JoinKey(s, m, a, b, k, va, vb) = Asked(Own!Put(Own!Put(s, m, k, val), m, l, 1))
    BY <2>1, <2>2 DEF Own!JoinKey
  <2>4. Kept(Asked(Own!Put(Own!Put(s, m, k, val), m, l, 1)))
    <3> HIDE DEF Kept, Asked
    <3> QED BY <1>2, <1>3, <1>4
  <2> QED BY <2>3, <2>4
<1> HIDE DEF x, y
<1>8. \/ Own!Joined(k, x, y) = <<>>
      \/ \E val \in Int : Own!Joined(k, x, y) = <<<<k, val>>>>
      \/ \E val \in Int : Own!Joined(k, x, y) = <<<<k, val>>, <<<<"cond", k[2]>>, 1>>>>
  BY <1>1, JoinedPuts
<1> QED BY <1>5, <1>6, <1>7, <1>8

\* Either loop of a join, for one pair.
LEMMA JoinPairKeeps ==
  ASSUME NEW live, NEW s, Sounds(s, live), NEW m \in Own!Addresses \cap live,
         NEW a \in Own!Addresses, NEW b \in Own!Addresses, NEW p \in MapPairs
  PROVE  /\ Sounds(Own!JoinPair(s, m, a, b, p), live)
         /\ \A n \in Own!Addresses \ {m} : Own!JoinPair(s, m, a, b, p).vec[n] = s.vec[n]
<1>1. p.key \in MapKeys /\ p.val \in Int
  BY DEF MapPairs
<1>3. PICK vb \in Int : vb = Own!Lookup(s, b, p.key)
  BY LookupIsInt
<1>4. PICK t : t = Own!AfterGet(s, b) /\ Sounds(t, live) /\ t.vec = s.vec
  BY AfterGetKeeps
<1>5. Own!JoinPair(s, m, a, b, p) = Own!JoinKey(t, m, a, b, p.key, p.val, vb)
  BY <1>3, <1>4 DEF Own!JoinPair
<1>6. /\ Sounds(Own!JoinKey(t, m, a, b, p.key, p.val, vb), live)
      /\ \A n \in Own!Addresses \ {m} : Own!JoinKey(t, m, a, b, p.key, p.val, vb).vec[n] = t.vec[n]
  BY <1>1, <1>4, JoinKeyKeeps
<1> QED BY <1>4, <1>5, <1>6

LEMMA JoinMissingKeeps ==
  ASSUME NEW live, NEW s, Sounds(s, live), NEW m \in Own!Addresses \cap live,
         NEW a \in Own!Addresses, NEW b \in Own!Addresses, NEW p \in MapPairs
  PROVE  /\ Sounds(Own!JoinMissing(s, m, a, b, p), live)
         /\ \A n \in Own!Addresses \ {m} : Own!JoinMissing(s, m, a, b, p).vec[n] = s.vec[n]
<1>1. p.key \in MapKeys /\ p.val \in Int
  BY DEF MapPairs
<1>2. PICK t : /\ t = IF Len(s.vec[a]) >= HashFrom THEN s ELSE Own!AfterGet(s, a)
               /\ Sounds(t, live) /\ t.vec = s.vec
  BY AfterGetKeeps
<1>3. /\ Sounds(Own!JoinKey(t, m, a, b, p.key, 0, p.val), live)
      /\ \A n \in Own!Addresses \ {m} : Own!JoinKey(t, m, a, b, p.key, 0, p.val).vec[n] = t.vec[n]
  BY <1>1, <1>2, JoinKeyKeeps
<1>4. Own!JoinMissing(s, m, a, b, p) \in {s, t, Own!JoinKey(t, m, a, b, p.key, 0, p.val)}
  BY <1>2 DEF Own!JoinMissing
<1> QED BY <1>2, <1>3, <1>4

-----------------------------------------------------------------------------
\* The maps in use whose index, if there is one, was filed for them.
Live == Own!Held \ misfiled

\* The snapshots of the open branches are maps of their own.
SnapshotsAreOwn ==
  /\ \A i \in DOMAIN branches :
        /\ branches[i].snap \in 2 .. taken
        /\ branches[i].other \in 1 .. taken
        /\ branches[i].other # branches[i].snap
        /\ branches[i].at = "join" => branches[i].other # Own!Own
  /\ \A i, j \in DOMAIN branches : i # j =>
        /\ branches[i].snap \notin {branches[j].snap, branches[j].other}
        /\ branches[i].other = branches[j].other => branches[i].other = Own!Own

OpenBranches == [kind : {"if", "loop"}, at : {"first", "second", "join"}, snap : Nat, other : Nat, joined : Nat]

OwnInv ==
  /\ taken \in Own!Addresses
  /\ branches \in Seq(OpenBranches)
  /\ Sounds(Own!Maps, Live)
  /\ SnapshotsAreOwn
  /\ Own!Own \notin misfiled

\* Whatever is looked up next is in use.
LEMMA LookedUpIsHeld == OwnInv => Own!LookedUp \subseteq Own!Held \cap Own!Addresses
<1> SUFFICES ASSUME OwnInv, NEW m \in Own!LookedUp PROVE m \in Own!Held \cap Own!Addresses
  OBVIOUS
<1>1. PICK t \in Nat : t = taken /\ Own!Own \in Own!Addresses /\ \A i \in 1 .. t : i \in Own!Addresses
  BY OwnershipAssumption DEF Own!OwnershipAssumption, OwnInv, Own!Addresses, Own!Own
<1>2. Own!Own \in Own!Held
  BY DEF Own!Held
<1>3. CASE m = Own!Own
  BY <1>1, <1>2, <1>3
<1>4. CASE m # Own!Own
  <2>1. branches # <<>> /\ m \in {Own!Inner.other, Own!Inner.snap}
    BY <1>4 DEF Own!LookedUp, Own!At
  <2>2. PICK i \in DOMAIN branches : branches[i] = Own!Inner
    BY <2>1, LenProperties, EmptySeq DEF Own!Inner, OwnInv
  <2>3. m \in {branches[i].snap, branches[i].other}
    BY <2>1, <2>2
  <2>4. m \in Own!Held
    BY <2>3 DEF Own!Held, Own!Range
  <2>5. m \in 1 .. t
    BY <1>1, <2>3 DEF OwnInv, SnapshotsAreOwn
  <2> QED BY <1>1, <2>4, <2>5
<1> QED BY <1>3, <1>4

LEMMA OwnInvAnswers == OwnInv => RightlyFiledAreAuthoritative
<1> SUFFICES ASSUME OwnInv, NEW m \in {Own!Own} \cup (Own!LookedUp \ misfiled), NEW k \in Own!Keys
             PROVE  Own!Lookup(Own!Maps, m, k) = Own!Scan(vec[m], k)
  BY DEF RightlyFiledAreAuthoritative, Own!RightlyFiledAreAuthoritative, Own!Authoritative
<1>1. Own!Own \in Own!LookedUp /\ Own!Own \notin misfiled
  BY DEF Own!LookedUp, OwnInv
<1>2. m \in Live \cap Own!Addresses
  BY <1>1, LookedUpIsHeld DEF Live
<1>3. Sounds(Own!Maps, Live) /\ Own!Maps.vec = vec
  BY DEF OwnInv, Own!Maps
<1> QED BY <1>2, <1>3, LookupIsScan

-----------------------------------------------------------------------------
\* Fewer maps in use ask for less.
LEMMA SoundsLess ==
  ASSUME NEW live, NEW s, Sounds(s, live), NEW less \in SUBSET live
  PROVE  Sounds(s, less)
BY DEF Sounds

LEMMA BecomeIs ==
  ASSUME NEW live, NEW s, Sounds(s, live), Own!Become(s)
  PROVE  Own!Maps' = s
<1>1. s = [vec |-> s.vec, warm |-> s.warm]
  BY DEF Sounds, MapStates
<1> QED BY <1>1 DEF Own!Become, Own!Maps

\* A step that changes no more than the map of the function and how far a join is.
LEMMA OnlyOwnChanges ==
  ASSUME OwnInv, NEW s, Sounds(s, Live), Own!Become(s), UNCHANGED <<taken, branches, misfiled>>
  PROVE  OwnInv'
<1>1. Own!Maps' = s /\ Live' = Live
  BY BecomeIs DEF Live, Own!Held
<1>2. SnapshotsAreOwn'
  BY DEF OwnInv, SnapshotsAreOwn
<1> QED BY <1>1, <1>2 DEF OwnInv

\* The next vector goes to an address that no map in use has.
LEMMA NextAddress ==
  ASSUME OwnInv, NEW m \in Own!Addresses, Own!Allocate(m)
  PROVE  /\ m \notin Own!Held /\ m # Own!Own /\ m \in 2 .. taken' /\ taken \in Nat \ {0}
         /\ taken <= taken' /\ taken' \in Own!Addresses
<1>1. taken \in Nat \ {0} /\ taken \in Own!Addresses /\ m \in Nat \ {0}
  BY DEF OwnInv, Own!Addresses
<1>2. ASSUME NEW l \in Own!Held PROVE l \in 1 .. taken
  BY <1>1, <1>2 DEF Own!Held, Own!Range, OwnInv, SnapshotsAreOwn, Own!Own
<1>3. m \notin Own!Held
  BY <1>1, <1>2 DEF Own!Allocate
<1>4. m # 1
  BY <1>3 DEF Own!Held, Own!Own
<1>5. PICK n \in Nat : taken <= n /\ m <= n
  BY <1>1
<1>6. {taken, m} \in SUBSET (1 .. n) /\ {taken, m} # {}
  BY <1>1, <1>5
<1>7. Own!Max({taken, m}) \in {taken, m} /\ \A i \in {taken, m} : i <= Own!Max({taken, m})
  BY <1>6, GreatestOfSet
<1>8. taken' = Own!Max({taken, m})
  BY DEF Own!Allocate
<1> QED BY <1>1, <1>3, <1>4, <1>7, <1>8 DEF Own!Own

\* The maps in use and a new one at m, but for those misfiled.
LiveWith(m) == (Own!Held \cup {m}) \ misfiled'

\* A copy of the map of the function, at the next address: no index says anything of it,
\* or it is misfiled.
LEMMA CopyKeeps ==
  ASSUME OwnInv, NEW m \in Own!Addresses, Own!Allocate(m)
  PROVE  Sounds(Own!Copied(m), LiveWith(m))
<1>1. Own!Own \in Own!Addresses
  BY OwnershipAssumption DEF Own!OwnershipAssumption, Own!Addresses, Own!Own
<1>2. Sounds(Own!Maps, Live) /\ Own!Maps.vec = vec /\ vec \in [Own!Addresses -> Seq(MapPairs)]
  BY DEF OwnInv, Sounds, MapStates, Own!Maps
<1>3. PICK w \in Seq(MapPairs) : w = vec[Own!Own]
  BY <1>1, <1>2
<1>4. misfiled' = IF Own!IsWarm(Own!Maps, m) THEN misfiled \cup {m} ELSE misfiled \ {m}
  BY DEF Own!Allocate
<1>5. m \in LiveWith(m) => ~Own!IsWarm(Own!Maps, m)
  BY <1>4 DEF LiveWith
<1>6. LiveWith(m) \ {m} \subseteq Live
  BY <1>4 DEF LiveWith, Live
<1>7. Sounds(Own!Maps, LiveWith(m))
  <2>1. PICK s : s = Own!Maps /\ Sounds(s, Live)
    BY <1>2
  <2>2. ASSUME NEW i \in DOMAIN s.warm, s.warm[i].map \in LiveWith(m) PROVE s.warm[i].map \in Live
    <3>1. s.warm[i].map = m => Own!IsWarm(s, m)
      BY DEF Own!IsWarm, Own!SlotOf
    <3> QED BY <1>5, <1>6, <2>1, <2>2, <3>1
  <2>3. Sounds(s, LiveWith(m))
    BY <2>1, <2>2 DEF Sounds
  <2> QED BY <2>1, <2>3
<1>8. Own!Copied(m) = [Own!Maps EXCEPT !.vec[m] = w]
  BY <1>3 DEF Own!Copied
<1>9. Sounds([Own!Maps EXCEPT !.vec[m] = w], LiveWith(m))
  BY <1>5, <1>7, VecKeeps
<1> QED BY <1>8, <1>9

-----------------------------------------------------------------------------
\* The inner branch goes on with snapshots of its own or new ones.
LEMMA AdvanceKeeps ==
  ASSUME OwnInv, branches # <<>>, NEW b \in OpenBranches, Own!Advance(b),
         taken <= taken', taken' \in Own!Addresses,
         b.snap = Own!Inner.snap \/ (b.snap \notin Own!Held /\ b.snap \in 2 .. taken'),
         b.other = Own!Inner.other \/ (b.other \notin Own!Held /\ b.other \in 2 .. taken'),
         b.snap # b.other, b.at = "join" => b.other # Own!Own
  PROVE  /\ branches' \in Seq(OpenBranches) /\ SnapshotsAreOwn'
         /\ \A m \in Own!Held' : m \in Own!Held \cup {b.snap, b.other} /\ (m = Own!Inner.snap => b.snap = m)
<1>1. PICK n \in Nat \ {0} : n = Len(branches) /\ DOMAIN branches = 1 .. n
  BY LenProperties, EmptySeq DEF OwnInv
<1>2. PICK c : c = Own!Inner /\ c = branches[n]
  BY <1>1 DEF Own!Inner
<1>3. branches' = [i \in 1 .. n |-> IF i = n THEN b ELSE branches[i]]
  <2>1. branches \in [1 .. n -> OpenBranches]
    BY <1>1, LenProperties, ElementOfSeq DEF OwnInv
  <2> QED BY <1>1, <2>1 DEF Own!Advance
<1>4. \A i \in 1 .. n : branches[i] \in OpenBranches
  BY <1>1, ElementOfSeq DEF OwnInv
<1>5. branches' \in Seq(OpenBranches) /\ DOMAIN branches' = 1 .. n
  <2>1. \A i \in 1 .. n : branches'[i] \in OpenBranches
    BY <1>3, <1>4
  <2>2. branches' \in [1 .. n -> OpenBranches]
    BY <1>3, <2>1
  <2> QED BY <2>2, SeqDef
<1>6. branches'[n] = b /\ \A i \in 1 .. n : i # n => branches'[i] = branches[i]
  BY <1>3
<1>7. taken \in Nat /\ taken' \in Nat /\ n \in 1 .. n
  BY DEF OwnInv, Own!Addresses
<1>8. /\ \A i \in 1 .. n : /\ branches[i].snap \in 2 .. taken /\ branches[i].other \in 1 .. taken
                           /\ branches[i].other # branches[i].snap
                           /\ branches[i].at = "join" => branches[i].other # Own!Own
      /\ \A i, j \in 1 .. n : i # j =>
            /\ branches[i].snap \notin {branches[j].snap, branches[j].other}
            /\ branches[i].other = branches[j].other => branches[i].other = Own!Own
  BY <1>1 DEF OwnInv, SnapshotsAreOwn
<1>9. b.snap \in 2 .. taken' /\ b.other \in 1 .. taken'
  BY <1>2, <1>7, <1>8
<1>10. \A i \in 1 .. n : i # n => /\ branches[i].snap \notin {b.snap, b.other}
                                  /\ b.snap \notin {branches[i].snap, branches[i].other}
                                  /\ branches[i].other = b.other => b.other = Own!Own
  <2> SUFFICES ASSUME NEW i \in 1 .. n, i # n
               PROVE  /\ branches[i].snap \notin {b.snap, b.other}
                      /\ b.snap \notin {branches[i].snap, branches[i].other}
                      /\ branches[i].other = b.other => b.other = Own!Own
    OBVIOUS
  <2>1. /\ branches[i].snap \notin {c.snap, c.other} /\ c.snap \notin {branches[i].snap, branches[i].other}
        /\ branches[i].other = c.other => c.other = Own!Own
    BY <1>2, <1>7, <1>8
  <2>2. branches[i].snap \in Own!Held /\ branches[i].other \in Own!Held
    BY <1>1 DEF Own!Held, Own!Range
  <2>3. b.snap = c.snap \/ b.snap \notin Own!Held
    BY <1>2
  <2>4. b.other = c.other \/ b.other \notin Own!Held
    BY <1>2
  <2> QED BY <2>1, <2>2, <2>3, <2>4
<1>11. SnapshotsAreOwn'
  <2>1. \A i \in 1 .. n : /\ branches'[i].snap \in 2 .. taken' /\ branches'[i].other \in 1 .. taken'
                          /\ branches'[i].other # branches'[i].snap
                          /\ branches'[i].at = "join" => branches'[i].other # Own!Own
    <3> SUFFICES ASSUME NEW i \in 1 .. n
                 PROVE  /\ branches'[i].snap \in 2 .. taken' /\ branches'[i].other \in 1 .. taken'
                        /\ branches'[i].other # branches'[i].snap
                        /\ branches'[i].at = "join" => branches'[i].other # Own!Own
      OBVIOUS
    <3>1. CASE i = n
      BY <1>6, <1>9, <3>1
    <3>2. CASE i # n
      <4>1. branches'[i] = branches[i]
        BY <1>6, <3>2
      <4>2. /\ branches[i].snap \in 2 .. taken' /\ branches[i].other \in 1 .. taken'
            /\ branches[i].other # branches[i].snap
            /\ branches[i].at = "join" => branches[i].other # Own!Own
        BY <1>7, <1>8
      <4> QED BY <4>1, <4>2
    <3> QED BY <3>1, <3>2
  <2>2. \A i, j \in 1 .. n : i # j =>
            /\ branches'[i].snap \notin {branches'[j].snap, branches'[j].other}
            /\ branches'[i].other = branches'[j].other => branches'[i].other = Own!Own
    <3> SUFFICES ASSUME NEW i \in 1 .. n, NEW j \in 1 .. n, i # j
                 PROVE  /\ branches'[i].snap \notin {branches'[j].snap, branches'[j].other}
                        /\ branches'[i].other = branches'[j].other => branches'[i].other = Own!Own
      OBVIOUS
    <3>1. CASE i = n
      <4>1. branches'[i] = b /\ branches'[j] = branches[j] /\ j # n
        BY <1>6, <3>1
      <4> QED BY <1>10, <4>1
    <3>2. CASE j = n
      <4>1. branches'[j] = b /\ branches'[i] = branches[i] /\ i # n
        BY <1>6, <3>2
      <4> QED BY <1>10, <4>1
    <3>3. CASE i # n /\ j # n
      <4>1. branches'[i] = branches[i] /\ branches'[j] = branches[j]
        BY <1>6, <3>3
      <4> QED BY <1>8, <4>1
    <3> QED BY <3>1, <3>2, <3>3
  <2> QED BY <1>5, <2>1, <2>2 DEF SnapshotsAreOwn, Own!Own
<1>12. ASSUME NEW m \in Own!Held'
       PROVE  m \in Own!Held \cup {b.snap, b.other} /\ (m = c.snap => b.snap = m)
  <2>1. CASE m = Own!Own
    BY <1>2, <1>7, <1>8, <2>1 DEF Own!Held, Own!Own
  <2>2. CASE m \in {b.snap, b.other}
    <3>1. m = b.other /\ m = c.snap => FALSE
      <4>1. c.snap # c.other /\ c.snap \in Own!Held
        BY <1>1, <1>2, <1>7, <1>8 DEF Own!Held, Own!Range
      <4> QED BY <1>2, <4>1
    <3> QED BY <2>2, <3>1
  <2>3. CASE \E i \in 1 .. n : i # n /\ m \in {branches[i].snap, branches[i].other}
    <3>1. PICK i \in 1 .. n : i # n /\ m \in {branches[i].snap, branches[i].other}
      BY <2>3
    <3>2. m \in Own!Held
      BY <1>1, <3>1 DEF Own!Held, Own!Range
    <3>3. m # c.snap
      BY <1>2, <1>7, <1>8, <3>1
    <3> QED BY <3>2, <3>3
  <2>4. m = Own!Own \/ \E i \in 1 .. n : m \in {branches'[i].snap, branches'[i].other}
    BY <1>5 DEF Own!Held, Own!Range, Own!Own
  <2>5. ASSUME NEW i \in 1 .. n, m \in {branches'[i].snap, branches'[i].other}
        PROVE  m \in {b.snap, b.other} \/ \E j \in 1 .. n : j # n /\ m \in {branches[j].snap, branches[j].other}
    BY <1>6, <2>5
  <2> QED BY <2>1, <2>2, <2>3, <2>4, <2>5
<1> QED BY <1>2, <1>5, <1>11, <1>12

-----------------------------------------------------------------------------
\* Every step keeps the invariant.
LEMMA WriteKeeps == ASSUME OwnInv, NEW w \in Writes, Own!Write(w) PROVE OwnInv'
<1>1. Own!Own \in Own!Addresses /\ Own!Own \in Live
  BY OwnershipAssumption DEF Own!OwnershipAssumption, Own!Addresses, Own!Own, OwnInv, Live, Own!Held
<1>2. Sounds(Own!Maps, Live) /\ Own!Maps.vec = vec
  BY DEF OwnInv, Own!Maps
<1>3. w[1] \in MapKeys /\ w[2] \in Int
  BY OwnershipAssumption DEF Own!OwnershipAssumption, MapKeys, Own!Keys
<1>4. PICK t : t = Own!Put(Own!Maps, Own!Own, w[1], w[2]) /\ Sounds(t, Live)
  BY <1>1, <1>2, <1>3, PutKeeps
<1>5. Own!Become(t) /\ UNCHANGED <<taken, branches, misfiled>>
  BY <1>4 DEF Own!Write
<1> QED BY <1>4, <1>5, OnlyOwnChanges

LEMMA ReadKeeps == ASSUME OwnInv, Own!Read PROVE OwnInv'
<1>1. Own!Own \in Own!Addresses /\ Own!Own \in Live
  BY OwnershipAssumption DEF Own!OwnershipAssumption, Own!Addresses, Own!Own, OwnInv, Live, Own!Held
<1>2. Sounds(Own!Maps, Live) /\ Own!Maps.vec = vec
  BY DEF OwnInv, Own!Maps
<1>3. PICK t : t = Own!AfterGet(Own!Maps, Own!Own) /\ Sounds(t, Live)
  BY <1>1, <1>2, AfterGetKeeps
<1>4. Own!Become(t) /\ UNCHANGED <<taken, branches, misfiled>>
  BY <1>3 DEF Own!Read
<1> QED BY <1>3, <1>4, OnlyOwnChanges

LEMMA OpenKeeps ==
  ASSUME OwnInv, NEW kind \in {"if", "loop"}, Own!Open(kind) PROVE OwnInv'
<1>1. PICK m \in Own!Addresses :
        /\ Own!Allocate(m) /\ Own!Become(Own!Copied(m))
        /\ branches' = Append(branches, [kind |-> kind, at |-> "first", snap |-> m, other |-> Own!Own, joined |-> 0])
  BY DEF Own!Open
<1>2. /\ m \notin Own!Held /\ m # Own!Own /\ m \in 2 .. taken' /\ taken \in Nat \ {0}
      /\ taken <= taken' /\ taken' \in Own!Addresses /\ taken' \in Nat
  BY <1>1, NextAddress DEF Own!Addresses
<1>3. PICK t : t = Own!Copied(m) /\ Sounds(t, LiveWith(m))
  BY <1>1, CopyKeeps
<1>4. PICK b : b = [kind |-> kind, at |-> "first", snap |-> m, other |-> Own!Own, joined |-> 0]
  OBVIOUS
<1>5. b \in OpenBranches /\ b.snap = m /\ b.other = Own!Own /\ b.at = "first"
  BY <1>2, <1>4 DEF OpenBranches, Own!Own
<1>6. PICK n \in Nat : n = Len(branches) /\ DOMAIN branches = 1 .. n
  BY LenProperties DEF OwnInv
<1>7. /\ branches' \in Seq(OpenBranches) /\ DOMAIN branches' = 1 .. n + 1 /\ branches'[n + 1] = b
      /\ \A i \in 1 .. n : branches'[i] = branches[i]
  <2>1. /\ Append(branches, b) \in Seq(OpenBranches) /\ Len(Append(branches, b)) = Len(branches) + 1
        /\ Append(branches, b)[Len(branches) + 1] = b
        /\ \A i \in 1 .. Len(branches) : Append(branches, b)[i] = branches[i]
    BY <1>5, AppendProperties DEF OwnInv
  <2> QED BY <1>1, <1>4, <1>6, <2>1, LenProperties
<1>8. /\ \A i \in 1 .. n : /\ branches[i].snap \in 2 .. taken /\ branches[i].other \in 1 .. taken
                           /\ branches[i].other # branches[i].snap
                           /\ branches[i].at = "join" => branches[i].other # Own!Own
      /\ \A i, j \in 1 .. n : i # j =>
            /\ branches[i].snap \notin {branches[j].snap, branches[j].other}
            /\ branches[i].other = branches[j].other => branches[i].other = Own!Own
  BY <1>6 DEF OwnInv, SnapshotsAreOwn
<1>9. SnapshotsAreOwn'
  <2>1. ASSUME NEW i \in 1 .. n + 1
        PROVE  /\ branches'[i].snap \in 2 .. taken' /\ branches'[i].other \in 1 .. taken'
               /\ branches'[i].other # branches'[i].snap
               /\ branches'[i].at = "join" => branches'[i].other # Own!Own
    <3>1. CASE i = n + 1
      BY <1>2, <1>5, <1>7, <3>1 DEF Own!Own
    <3>2. CASE i \in 1 .. n
      BY <1>2, <1>7, <1>8, <3>2
    <3> QED BY <1>6, <3>1, <3>2
  <2>0. \A i \in 1 .. n : branches[i].snap # Own!Own /\ m \notin {branches[i].snap, branches[i].other}
    <3>1. \A i \in 1 .. n : branches[i].snap \in Own!Held /\ branches[i].other \in Own!Held
      BY <1>6 DEF Own!Held, Own!Range
    <3>2. \A i \in 1 .. n : branches[i].snap # 1
      BY <1>8
    <3> QED BY <1>2, <3>1, <3>2 DEF Own!Own
  <2>2. ASSUME NEW i \in 1 .. n + 1, NEW j \in 1 .. n + 1, i # j
        PROVE  /\ branches'[i].snap \notin {branches'[j].snap, branches'[j].other}
               /\ branches'[i].other = branches'[j].other => branches'[i].other = Own!Own
    <3>1. CASE i = n + 1
      <4>1. j \in 1 .. n
        BY <1>6, <2>2, <3>1
      <4> QED BY <1>5, <1>7, <2>0, <3>1, <4>1
    <3>2. CASE i \in 1 .. n /\ j = n + 1
      BY <1>5, <1>7, <2>0, <3>2
    <3>3. CASE i \in 1 .. n /\ j \in 1 .. n
      BY <1>7, <1>8, <2>2, <3>3
    <3> QED BY <1>6, <3>1, <3>2, <3>3
  <2> QED BY <1>7, <2>1, <2>2 DEF SnapshotsAreOwn, Own!Own
<1>10. ASSUME NEW l \in Own!Held' PROVE l \in Own!Held \cup {m}
  <2>1. l = Own!Own \/ \E i \in 1 .. n + 1 : l \in {branches'[i].snap, branches'[i].other}
    BY <1>7 DEF Own!Held, Own!Range, Own!Own
  <2>2. CASE l = Own!Own
    BY <2>2 DEF Own!Held
  <2>3. CASE \E i \in 1 .. n + 1 : l \in {branches'[i].snap, branches'[i].other}
    <3>1. PICK i \in 1 .. n + 1 : l \in {branches'[i].snap, branches'[i].other}
      BY <2>3
    <3>2. CASE i = n + 1
      BY <1>5, <1>7, <2>2, <3>1, <3>2
    <3>3. CASE i \in 1 .. n
      <4>1. i \in DOMAIN branches /\ l \in {branches[i].snap, branches[i].other}
        BY <1>6, <1>7, <3>1, <3>3
      <4> QED BY <4>1 DEF Own!Held, Own!Range
    <3> QED BY <1>6, <3>1, <3>2, <3>3
  <2> QED BY <2>1, <2>2, <2>3
<1>11. Live' \in SUBSET LiveWith(m)
  BY <1>10 DEF Live, LiveWith
<1>12. Sounds(Own!Maps', Live')
  BY <1>1, <1>3, <1>11, BecomeIs, SoundsLess
<1>13. Own!Own \notin misfiled'
  BY <1>1, <1>2 DEF Own!Allocate, OwnInv
<1> QED BY <1>2, <1>7, <1>9, <1>12, <1>13 DEF OwnInv

\* The facts of the inner branch.
LEMMA InnerIs ==
  ASSUME OwnInv, NEW at, Own!At(at)
  PROVE  /\ branches # <<>> /\ Own!Inner \in OpenBranches /\ Own!Inner.at = at
         /\ Own!Inner.snap \in 2 .. taken /\ Own!Inner.other \in 1 .. taken
         /\ Own!Inner.other # Own!Inner.snap /\ taken \in Nat
         /\ {Own!Own, Own!Inner.snap, Own!Inner.other} \subseteq Own!Held \cap Own!Addresses
         /\ at = "join" => Own!Inner.other # Own!Own
<1>1. branches # <<>> /\ Own!Inner.at = at
  BY DEF Own!At
<1>2. PICK n \in DOMAIN branches : Own!Inner = branches[n] /\ branches[n] \in OpenBranches
  BY <1>1, LenProperties, EmptySeq, ElementOfSeq DEF OwnInv, Own!Inner
<1>3. /\ branches[n].snap \in 2 .. taken /\ branches[n].other \in 1 .. taken
      /\ branches[n].other # branches[n].snap
      /\ branches[n].at = "join" => branches[n].other # Own!Own
  BY DEF OwnInv, SnapshotsAreOwn
<1>4. taken \in Nat /\ \A i \in 1 .. taken : i \in Own!Addresses
  BY OwnershipAssumption DEF Own!OwnershipAssumption, OwnInv, Own!Addresses
<1>5. {Own!Own, branches[n].snap, branches[n].other} \subseteq Own!Held
  BY DEF Own!Held, Own!Range
<1>6. Own!Own \in Own!Addresses
  BY OwnershipAssumption DEF Own!OwnershipAssumption, Own!Addresses, Own!Own
<1> QED BY <1>1, <1>2, <1>3, <1>4, <1>5, <1>6

LEMMA ElseKeeps == ASSUME OwnInv, Own!Else PROVE OwnInv'
<1>1. PICK m \in Own!Addresses :
        /\ Own!Allocate(m)
        /\ Own!Become(Own!Freed(Own!Restore(Own!Copied(m), Own!Own, Own!Inner.snap), {Own!Inner.snap}))
        /\ Own!Advance([Own!Inner EXCEPT !.at = "second", !.snap = m])
  BY DEF Own!Else
<1>2. /\ m \notin Own!Held /\ m # Own!Own /\ m \in 2 .. taken' /\ taken \in Nat \ {0}
      /\ taken <= taken' /\ taken' \in Own!Addresses
  BY <1>1, NextAddress
<1>3. PICK c \in OpenBranches :
        /\ c = Own!Inner /\ branches # <<>> /\ c.snap \in Own!Held /\ c.other \in Own!Held
        /\ c.snap \in Own!Addresses /\ Own!Own \in Own!Addresses
  BY InnerIs DEF Own!Else
<1>4. PICK t : t = Own!Copied(m) /\ Sounds(t, LiveWith(m))
  BY <1>1, CopyKeeps
<1>5. PICK u : u = Own!Restore(t, Own!Own, c.snap) /\ Sounds(u, LiveWith(m))
  <2>1. PICK own \in Own!Addresses, snap \in Own!Addresses : own = Own!Own /\ snap = c.snap
    BY <1>3
  <2>2. Sounds(t, LiveWith(m))
    BY <1>4
  <2>3. Sounds(Own!Restore(t, own, snap), LiveWith(m))
    BY ONLY own \in Own!Addresses, snap \in Own!Addresses, <2>2, RestoreKeeps
  <2> QED BY <2>1, <2>3
<1>6. PICK f : f = Own!Freed(u, {c.snap}) /\ Sounds(f, LiveWith(m) \ {c.snap})
  BY <1>5, FreedKeeps
<1>7. Own!Become(f) /\ Own!Maps' = f
  <2>1. Own!Become(f)
    BY <1>1, <1>3, <1>4, <1>5, <1>6
  <2> QED BY <1>6, <2>1, BecomeIs
<1>8. PICK b \in OpenBranches : /\ b = [c EXCEPT !.at = "second", !.snap = m]
                            /\ b.at = "second" /\ b.snap = m /\ b.other = c.other
  <2>1. PICK b : b = [c EXCEPT !.at = "second", !.snap = m]
    OBVIOUS
  <2>2. m \in Nat
    BY DEF Own!Addresses
  <2>3. b \in OpenBranches /\ b.at = "second" /\ b.snap = m /\ b.other = c.other
    BY <2>1, <2>2 DEF OpenBranches
  <2> QED BY <2>1, <2>3
<1>9. /\ branches' \in Seq(OpenBranches) /\ SnapshotsAreOwn'
      /\ \A l \in Own!Held' : l \in Own!Held \cup {b.snap, b.other} /\ (l = Own!Inner.snap => b.snap = l)
  <2>1. Own!Advance(b) /\ taken <= taken' /\ taken' \in Own!Addresses
    BY <1>1, <1>2, <1>3, <1>8
  <2>2. b.snap \notin Own!Held /\ b.snap \in 2 .. taken' /\ b.other = Own!Inner.other
    BY <1>2, <1>3, <1>8
  <2>3. b.snap # b.other /\ b.at # "join"
    BY <1>2, <1>3, <1>8
  <2> QED BY <1>3, <2>1, <2>2, <2>3, AdvanceKeeps
<1>10. Live' \in SUBSET (LiveWith(m) \ {c.snap})
  BY <1>2, <1>3, <1>8, <1>9 DEF Live, LiveWith
<1>11. Sounds(Own!Maps', Live')
  BY <1>6, <1>7, <1>10, SoundsLess
<1>12. Own!Own \notin misfiled'
  BY <1>1, <1>2 DEF Own!Allocate, OwnInv
<1> QED BY <1>2, <1>9, <1>11, <1>12 DEF OwnInv

\* The end of an if or a loop, after which the inner branch joins.
LEMMA JoinBegins ==
  ASSUME OwnInv, NEW at, Own!At(at), NEW m \in Own!Addresses, Own!Allocate(m),
         NEW f, Sounds(f, LiveWith(m)), Own!Become(f),
         Own!Advance([Own!Inner EXCEPT !.at = "join", !.other = m])
  PROVE  OwnInv'
<1>1. /\ m \notin Own!Held /\ m # Own!Own /\ m \in 2 .. taken' /\ taken \in Nat \ {0}
      /\ taken <= taken' /\ taken' \in Own!Addresses
  BY NextAddress
<1>2. PICK c \in OpenBranches : c = Own!Inner /\ branches # <<>> /\ c.snap \in Own!Held
  BY InnerIs
<1>3. PICK b \in OpenBranches : /\ b = [c EXCEPT !.at = "join", !.other = m]
                            /\ b.at = "join" /\ b.snap = c.snap /\ b.other = m
  <2>1. PICK b : b = [c EXCEPT !.at = "join", !.other = m]
    OBVIOUS
  <2>2. m \in Nat
    BY DEF Own!Addresses
  <2>3. b \in OpenBranches /\ b.at = "join" /\ b.snap = c.snap /\ b.other = m
    BY <2>1, <2>2 DEF OpenBranches
  <2> QED BY <2>1, <2>3
<1>4. /\ branches' \in Seq(OpenBranches) /\ SnapshotsAreOwn'
      /\ \A l \in Own!Held' : l \in Own!Held \cup {b.snap, b.other} /\ (l = Own!Inner.snap => b.snap = l)
  <2>1. Own!Advance(b) /\ taken <= taken' /\ taken' \in Own!Addresses
    BY <1>1, <1>2, <1>3
  <2>2. b.snap = Own!Inner.snap /\ b.other \notin Own!Held /\ b.other \in 2 .. taken'
    BY <1>1, <1>2, <1>3
  <2>3. b.snap # b.other /\ b.other # Own!Own
    BY <1>1, <1>2, <1>3
  <2> QED BY <1>2, <2>1, <2>2, <2>3, AdvanceKeeps
<1>5. Live' \in SUBSET LiveWith(m)
  BY <1>2, <1>3, <1>4 DEF Live, LiveWith
<1>6. Sounds(Own!Maps', Live')
  BY <1>5, BecomeIs, SoundsLess
<1>7. Own!Own \notin misfiled'
  BY <1>1 DEF Own!Allocate, OwnInv
<1> QED BY <1>1, <1>4, <1>6, <1>7 DEF OwnInv

LEMMA EndIfKeeps == ASSUME OwnInv, Own!EndIf PROVE OwnInv'
<1>1. PICK m \in Own!Addresses :
        /\ Own!Allocate(m) /\ Own!Become(Own!Copied(m))
        /\ Own!Advance([Own!Inner EXCEPT !.at = "join", !.other = m])
  BY DEF Own!EndIf
<1>2. PICK t : t = Own!Copied(m) /\ Sounds(t, LiveWith(m))
  BY <1>1, CopyKeeps
<1>3. Own!At("second") /\ Own!Become(t)
  BY <1>1, <1>2 DEF Own!EndIf
<1> QED BY <1>1, <1>2, <1>3, JoinBegins

LEMMA EndLoopKeeps == ASSUME OwnInv, Own!EndLoop PROVE OwnInv'
<1>1. PICK m \in Own!Addresses :
        /\ Own!Allocate(m) /\ Own!Become(Own!Restore(Own!Copied(m), Own!Own, Own!Inner.snap))
        /\ Own!Advance([Own!Inner EXCEPT !.at = "join", !.other = m])
  BY DEF Own!EndLoop
<1>2. PICK t : t = Own!Copied(m) /\ Sounds(t, LiveWith(m))
  BY <1>1, CopyKeeps
<1>3. PICK own \in Own!Addresses, snap \in Own!Addresses : own = Own!Own /\ snap = Own!Inner.snap
  BY InnerIs DEF Own!EndLoop
<1>4. PICK f : f = Own!Restore(t, own, snap) /\ Sounds(f, LiveWith(m))
  <2>1. Sounds(t, LiveWith(m))
    BY <1>2
  <2> QED BY ONLY own \in Own!Addresses, snap \in Own!Addresses, <2>1, RestoreKeeps
<1>5. Own!At("first") /\ Own!Become(f)
  BY <1>1, <1>2, <1>3, <1>4 DEF Own!EndLoop
<1> QED BY <1>1, <1>4, <1>5, JoinBegins

\* A pair is joined: the map of the function changes, and how far the join is.
LEMMA JoinStepKeeps ==
  ASSUME OwnInv, Own!At("join"), NEW t, Sounds(t, Live), Own!Become(t), Own!Inner.joined + 1 \in Nat,
         Own!Advance([Own!Inner EXCEPT !.joined = @ + 1]), UNCHANGED <<taken, misfiled>>
  PROVE  OwnInv'
<1>1. PICK c \in OpenBranches :
        /\ c = Own!Inner /\ branches # <<>> /\ c.at = "join" /\ c.snap \in Own!Held /\ c.other \in Own!Held
        /\ c.other # c.snap /\ c.other # Own!Own /\ taken \in Nat
  BY InnerIs
<1>2. PICK b \in OpenBranches : /\ b = [c EXCEPT !.joined = @ + 1]
                            /\ b.snap = c.snap /\ b.other = c.other
  <2>1. PICK b : b = [c EXCEPT !.joined = c.joined + 1]
    OBVIOUS
  <2>2. b \in OpenBranches /\ b.snap = c.snap /\ b.other = c.other
    BY <1>1, <2>1 DEF OpenBranches
  <2> QED BY <2>1, <2>2
<1>3. /\ branches' \in Seq(OpenBranches) /\ SnapshotsAreOwn'
      /\ \A l \in Own!Held' : l \in Own!Held \cup {b.snap, b.other} /\ (l = Own!Inner.snap => b.snap = l)
  <2>1. Own!Advance(b) /\ taken <= taken' /\ taken' \in Own!Addresses
    BY <1>1, <1>2 DEF OwnInv
  <2>2. b.snap = Own!Inner.snap /\ b.other = Own!Inner.other
    BY <1>1, <1>2
  <2>3. b.snap # b.other /\ b.other # Own!Own
    BY <1>1, <1>2
  <2> QED BY <1>1, <2>1, <2>2, <2>3, AdvanceKeeps
<1>4. Live' \in SUBSET Live
  BY <1>1, <1>2, <1>3 DEF Live
<1>5. Sounds(Own!Maps', Live')
  BY <1>4, BecomeIs, SoundsLess
<1> QED BY <1>3, <1>5 DEF OwnInv

LEMMA JoinFirstKeeps == ASSUME OwnInv, Own!JoinFirst PROVE OwnInv'
<1>1. /\ Own!At("join") /\ Own!Inner.joined < Len(vec[Own!Inner.snap])
      /\ Own!Become(Own!JoinPair(Own!Maps, Own!Own, Own!Inner.snap, Own!Inner.other,
                                 vec[Own!Inner.snap][Own!Inner.joined + 1]))
      /\ Own!Advance([Own!Inner EXCEPT !.joined = @ + 1]) /\ UNCHANGED <<taken, misfiled>>
  BY DEF Own!JoinFirst
<1>2. PICK m \in Own!Addresses \cap Live, a \in Own!Addresses, b \in Own!Addresses :
        m = Own!Own /\ a = Own!Inner.snap /\ b = Own!Inner.other
  BY <1>1, InnerIs DEF Live, OwnInv
<1>3. Own!Inner.joined \in Nat
  BY <1>1, InnerIs DEF OpenBranches
<1>4. Sounds(Own!Maps, Live) /\ Own!Maps.vec = vec /\ vec[a] \in Seq(MapPairs)
  BY DEF OwnInv, Own!Maps, Sounds, MapStates
<1>5. PICK p \in MapPairs : p = vec[Own!Inner.snap][Own!Inner.joined + 1]
  <2>1. Own!Inner.joined + 1 \in 1 .. Len(vec[a])
    BY <1>1, <1>2, <1>3, <1>4, LenProperties
  <2> QED BY <1>2, <1>4, <2>1, ElementOfSeq
<1>6. PICK t : t = Own!JoinPair(Own!Maps, m, a, b, p)
  OBVIOUS
<1>7. Sounds(t, Live)
  BY <1>4, <1>6, JoinPairKeeps
<1>8. Own!Become(t)
  BY <1>1, <1>2, <1>5, <1>6
<1> QED BY <1>1, <1>2, <1>3, <1>7, <1>8, JoinStepKeeps

LEMMA JoinSecondKeeps == ASSUME OwnInv, Own!JoinSecond PROVE OwnInv'
<1> DEFINE done == Own!Inner.joined - Len(vec[Own!Inner.snap])
<1>1. /\ Own!At("join") /\ done \in 0 .. Len(vec[Own!Inner.other]) - 1
      /\ Own!Become(Own!JoinMissing(Own!Maps, Own!Own, Own!Inner.snap, Own!Inner.other,
                                    vec[Own!Inner.other][done + 1]))
      /\ Own!Advance([Own!Inner EXCEPT !.joined = @ + 1]) /\ UNCHANGED <<taken, misfiled>>
  BY DEF Own!JoinSecond
<1>2. PICK m \in Own!Addresses \cap Live, a \in Own!Addresses, b \in Own!Addresses :
        m = Own!Own /\ a = Own!Inner.snap /\ b = Own!Inner.other
  BY <1>1, InnerIs DEF Live, OwnInv
<1>3. Own!Inner.joined \in Nat
  BY <1>1, InnerIs DEF OpenBranches
<1>4. Sounds(Own!Maps, Live) /\ Own!Maps.vec = vec /\ vec[b] \in Seq(MapPairs)
  BY DEF OwnInv, Own!Maps, Sounds, MapStates
<1>5. PICK p \in MapPairs : p = vec[Own!Inner.other][done + 1]
  <2>1. done + 1 \in 1 .. Len(vec[b])
    BY <1>1, <1>2, <1>4, LenProperties
  <2> HIDE DEF done
  <2> QED BY <1>2, <1>4, <2>1, ElementOfSeq
<1>6. PICK t : t = Own!JoinMissing(Own!Maps, m, a, b, p)
  OBVIOUS
<1>7. Sounds(t, Live)
  BY <1>4, <1>6, JoinMissingKeeps
<1>8. Own!Become(t)
  BY <1>1, <1>2, <1>5, <1>6
<1> QED BY <1>1, <1>2, <1>3, <1>7, <1>8, JoinStepKeeps

LEMMA EndJoinKeeps == ASSUME OwnInv, Own!EndJoin PROVE OwnInv'
<1>1. /\ Own!At("join") /\ Own!Become(Own!Freed(Own!Maps, {Own!Inner.snap, Own!Inner.other}))
      /\ branches' = Own!Front(branches) /\ UNCHANGED <<taken, misfiled>>
  BY DEF Own!EndJoin
<1>2. PICK c : c = Own!Inner /\ c.snap \in 2 .. taken /\ c.other # Own!Own /\ branches # <<>> /\ taken \in Nat
  BY <1>1, InnerIs
<1>3. PICK n \in Nat \ {0} : n = Len(branches) /\ DOMAIN branches = 1 .. n /\ c = branches[n]
  BY <1>2, LenProperties, EmptySeq DEF OwnInv, Own!Inner
<1>4. /\ branches' \in Seq(OpenBranches) /\ DOMAIN branches' = 1 .. n - 1
      /\ \A i \in 1 .. n - 1 : branches'[i] = branches[i]
  <2>1. \A i \in 1 .. n - 1 : branches[i] \in OpenBranches
    BY <1>3, ElementOfSeq DEF OwnInv
  <2>2. PICK x : x = SubSeq(branches, 1, n - 1)
    OBVIOUS
  <2>3. /\ x \in Seq(OpenBranches) /\ Len(x) = IF 1 <= n - 1 THEN n - 1 ELSE 0
        /\ \A i \in 1 .. n - 1 : x[i] = branches[i]
    BY <2>1, <2>2, SubSeqProperties
  <2>4. branches' = x
    BY <1>1, <1>3, <2>2 DEF Own!Front
  <2> QED BY <2>3, <2>4, LenProperties
<1>5. PICK f : f = Own!Freed(Own!Maps, {c.snap, c.other})
  OBVIOUS
<1>6. Sounds(f, Live \ {c.snap, c.other})
  <2>1. PICK s : s = Own!Maps /\ Sounds(s, Live)
    BY DEF OwnInv
  <2> QED BY <1>5, <2>1, FreedKeeps
<1>7. Own!Become(f)
  BY <1>1, <1>2, <1>5
<1>8. Own!Maps' = f
  BY <1>6, <1>7, BecomeIs
<1>9. /\ \A i \in 1 .. n : branches[i].snap \in 2 .. taken /\ branches[i].other \in 1 .. taken
      /\ \A i, j \in 1 .. n : i # j =>
            /\ branches[i].snap \notin {branches[j].snap, branches[j].other}
            /\ branches[i].other = branches[j].other => branches[i].other = Own!Own
  BY <1>3 DEF OwnInv, SnapshotsAreOwn
<1>10. SnapshotsAreOwn'
  <2>1. \A i \in 1 .. n - 1 : i \in DOMAIN branches /\ branches'[i] = branches[i]
    BY <1>3, <1>4
  <2>2. DOMAIN branches' = 1 .. n - 1 /\ taken' = taken
    BY <1>1, <1>4
  <2>3. SnapshotsAreOwn
    BY DEF OwnInv
  <2> QED BY <2>1, <2>2, <2>3 DEF SnapshotsAreOwn, Own!Own
<1>11. ASSUME NEW l \in Own!Held' PROVE l \in Own!Held \ {c.snap, c.other}
  <2>1. l = Own!Own \/ \E i \in 1 .. n - 1 : l \in {branches'[i].snap, branches'[i].other}
    BY <1>4 DEF Own!Held, Own!Range, Own!Own
  <2>2. CASE l = Own!Own
    BY <1>2, <2>2 DEF Own!Held, Own!Own
  <2>3. CASE \E i \in 1 .. n - 1 : l \in {branches'[i].snap, branches'[i].other}
    <3>1. PICK i \in 1 .. n - 1 : l \in {branches[i].snap, branches[i].other}
      BY <1>4, <2>3
    <3>2. i \in 1 .. n /\ n \in 1 .. n /\ i # n
      BY <1>3
    <3>3. l \in Own!Held
      BY <1>3, <3>1, <3>2 DEF Own!Held, Own!Range
    <3>4. l # c.snap /\ l # c.other
      BY <1>2, <1>3, <1>9, <3>1, <3>2
    <3> QED BY <3>3, <3>4
  <2> QED BY <2>1, <2>2, <2>3
<1>12. Live' \in SUBSET (Live \ {c.snap, c.other})
  BY <1>1, <1>11 DEF Live
<1>13. Sounds(Own!Maps', Live')
  BY <1>6, <1>8, <1>12, SoundsLess
<1> QED BY <1>1, <1>4, <1>10, <1>13 DEF OwnInv

-----------------------------------------------------------------------------
\* Nothing is held at the start but the map of the function, which is empty.
LEMMA OwnInit == Own!Init => OwnInv
<1> SUFFICES ASSUME Own!Init PROVE OwnInv
  OBVIOUS
<1>1. /\ vec = [m \in Own!Addresses |-> <<>>] /\ taken = 1 /\ warm = <<>> /\ branches = <<>>
      /\ misfiled = {}
  BY DEF Own!Init
<1>2. taken \in Own!Addresses
  BY <1>1, OwnershipAssumption DEF Own!OwnershipAssumption, Own!Addresses
<1>3. <<>> \in Seq(MapPairs) /\ <<>> \in Seq(WarmSlots) /\ <<>> \in Seq(OpenBranches) /\ DOMAIN <<>> = {}
  BY LenProperties
<1>4. Own!Maps \in MapStates /\ Own!Maps.warm = <<>>
  BY <1>1, <1>3 DEF Own!Maps, MapStates
<1>5. Sounds(Own!Maps, Live)
  BY <1>3, <1>4 DEF Sounds
<1>6. SnapshotsAreOwn
  BY <1>1, <1>3 DEF SnapshotsAreOwn
<1> QED BY <1>1, <1>2, <1>3, <1>5, <1>6 DEF OwnInv

\* nucleor_llvm_rt.c:2841: a lookup by index in the map of the function, or in an arm of
\* a join that was given an address without an index, gives what a scan of the map gives,
\* whatever was put, restored, joined and freed before, for any malloc, any number of
\* indices and any thresholds.
THEOREM IndicesAreAuthoritative == Own!Spec => []RightlyFiledAreAuthoritative
<1>1. ASSUME OwnInv, [Own!Next]_(Own!vars) PROVE OwnInv'
  <2>1. CASE UNCHANGED Own!vars
    BY <1>1, <2>1 DEF Own!vars, OwnInv, SnapshotsAreOwn, Live, Own!Held, Own!Maps
  <2>2. CASE \E w \in Writes : Own!Write(w)
    BY <1>1, <2>2, WriteKeeps
  <2>3. CASE Own!Read
    BY <1>1, <2>3, ReadKeeps
  <2>4. CASE \E kind \in {"if", "loop"} : Own!Open(kind)
    BY <1>1, <2>4, OpenKeeps
  <2>5. CASE Own!Else
    BY <1>1, <2>5, ElseKeeps
  <2>6. CASE Own!EndIf
    BY <1>1, <2>6, EndIfKeeps
  <2>7. CASE Own!EndLoop
    BY <1>1, <2>7, EndLoopKeeps
  <2>8. CASE Own!JoinFirst
    BY <1>1, <2>8, JoinFirstKeeps
  <2>9. CASE Own!JoinSecond
    BY <1>1, <2>9, JoinSecondKeeps
  <2>10. CASE Own!EndJoin
    BY <1>1, <2>10, EndJoinKeeps
  <2> QED BY <1>1, <2>1, <2>2, <2>3, <2>4, <2>5, <2>6, <2>7, <2>8, <2>9, <2>10 DEF Own!Next
<1> QED BY <1>1, OwnInit, OwnInvAnswers, PTL DEF Own!Spec
=============================================================================
