----------------------------- MODULE BuildCache -----------------------------
(***************************************************************************)
(* What builds leave in target/ and in the build cache: compile_file_mode  *)
(* of src/compiler/s1/cli.nr with the stores of src/compiler/s1/cache.nr,  *)
(* for builds that run in any order and side by side, of any sources and   *)
(* outputs, and that may be killed before any of their steps.              *)
(*                                                                         *)
(* The code takes no lock and writes every file in place: a write or copy  *)
(* opens the file, which empties it, and fills it in a later step.  A file *)
(* is absent, whole (then it is the source it was made from, and a stamp   *)
(* the source whose key it holds) or a part of something.  The hash of a   *)
(* source with the flags is the source.  A kill takes clang with it.       *)
(*                                                                         *)
(* Two histories, which no step reads, say what may be wrong: `doubt`, the *)
(* stamps and cache entries that nothing vouches for, and `misled`, the    *)
(* builds that shared an output or took a file in doubt at its word.       *)
(***************************************************************************)
EXTENDS Integers, FiniteSets

CONSTANTS Builders, Sources, Outs,
          Commands,       \* builds that are asked for: [source, output, with the cache, linking]
          Plain,          \* sources without link flags and C files: their executables are cached
          Absent, Part,   \* a file that is not there, and one that is not whole
          MaxBuilds,      \* bound on builds
          MaxKills        \* bound on kills

ASSUME ContentAssumption == Absent \notin Sources /\ Part \notin Sources /\ Absent # Part

VARIABLES disk,           \* the contents of the files
          build,          \* per builder, its build
          cut,            \* builders whose open file another opened after them
          builds, kills,
          doubt, misled

vars == <<disk, build, cut, builds, kills, doubt, misled>>

\* target/<out>.ll, <out>.ll.cachekey and the executable; .nuc_cache_v2, and
\* the cached executables, by hash of the source or of the emitted text.
Ll(o) == <<"ll", o>>
Stamp(o) == <<"cachekey", o>>
Exe(o) == <<"exe", o>>
Entry(s) == <<"cache", s>>
ExeEntry(hash, s) == <<hash, s>>
Files == ({"ll", "cachekey", "exe"} \X Outs) \cup ({"cache", "hash_source", "hash_ll"} \X Sources)

Idle == [at |-> "idle"]

Init ==
  /\ disk = [f \in Files |-> Absent]
  /\ build = [b \in Builders |-> Idle]
  /\ builds = 0 /\ kills = 0
  /\ cut = {} /\ doubt = {} /\ misled = {}

Running(b) == build[b].at # "idle"
Others(b) == Builders \ {b}

\* Without a key of the source the executable goes by the hash of its text.
KeptExe(b) == ExeEntry(IF build[b].cached THEN "hash_source" ELSE "hash_ll", build[b].src)

\* The file that b has open for writing.
HasOpen(b, f) ==
  \/ build[b].at = "fill" /\ f = Ll(build[b].out)
  \/ build[b].at = "stamping" /\ f = Stamp(build[b].out)
  \/ build[b].at = "restore" /\ f = Exe(build[b].out)
  \/ build[b].at = "keeping" /\ f = KeptExe(b)
  \/ build[b].at = "storing" /\ f = Entry(build[b].src)

\* Whatever compile_file_mode may be called with.
Every == Sources \X Outs \X BOOLEAN \X BOOLEAN

\* Builds of one output at a time mislead each other.
Begin(b, s, o, cached, link) ==
  /\ builds < MaxBuilds
  /\ <<s, o, cached, link>> \in Commands
  /\ ~Running(b)
  /\ build' = [build EXCEPT ![b] = [at |-> IF cached THEN "probe" ELSE "open",
                                    src |-> s, out |-> o, cached |-> cached, link |-> link, hit |-> FALSE]]
  /\ builds' = builds + 1
  /\ LET same == {c \in Builders : Running(c) /\ build[c].out = o}
     IN misled' = IF same = {} THEN misled ELSE misled \cup same \cup {b}
  /\ UNCHANGED <<disk, cut, kills, doubt>>

At(b, step) == build[b].at = step /\ UNCHANGED <<builds, kills>>
Goto(b, step) == build' = [build EXCEPT ![b].at = step]

Open(b, f) ==
  /\ disk' = [disk EXCEPT ![f] = Part]
  /\ cut' = (cut \ {b}) \cup {c \in Others(b) : HasOpen(c, f)}

\* Whoever writes a file that another opened later, or filled in between, may
\* leave either content or a mixture.
Fill(b, f, content) ==
  /\ \E left \in IF disk[f] = content \/ (disk[f] = Part /\ b \notin cut) THEN {content}
                 ELSE {content, disk[f], Part} :
       disk' = [disk EXCEPT ![f] = left]
  /\ cut' = cut \ {b}

\* Taking a file in doubt misleads the build.
Trust(b, f) == misled' = IF f \in doubt THEN misled \cup {b} ELSE misled

\* A file is vouched for once a build that is not misled has filled it and
\* nobody else has it open; a misled one misleads those who have.
Vouch(b, f) ==
  LET writers == {c \in Others(b) : HasOpen(c, f)}
  IN /\ doubt' = IF b \in misled \/ writers # {} THEN doubt ELSE doubt \ {f}
     /\ misled' = IF b \in misled THEN misled \cup writers ELSE misled

Probe(b) ==
  /\ At(b, "probe")
  /\ build' = [build EXCEPT ![b].at = "check", ![b].hit = disk[Entry(build[b].src)] # Absent]
  /\ UNCHANGED <<disk, cut, doubt, misled>>

\* Mutant: any file of that name is taken for up to date.
UpToDateUnstamped(o, s) == disk[Ll(o)] # Absent

\* The file in target/ is left alone if its stamp has the key of this build.
UpToDate(o, s) == disk[Ll(o)] # Absent /\ disk[Stamp(o)] = s

Check(b) ==
  /\ At(b, "check")
  /\ IF UpToDate(build[b].out, build[b].src)
     THEN Goto(b, "link") /\ Trust(b, Stamp(build[b].out))
     ELSE Goto(b, "open") /\ UNCHANGED misled
  /\ UNCHANGED <<disk, cut, doubt>>

\* From here on the stamp may tell of another file.
OpenLl(b) ==
  /\ At(b, "open")
  /\ Open(b, Ll(build[b].out))
  /\ Goto(b, "fill")
  /\ doubt' = doubt \cup {Stamp(build[b].out)}
  /\ UNCHANGED misled

\* The emitted text, or a copy of the cached file; without a key there is no stamp.
FillLl(b) ==
  /\ At(b, "fill")
  /\ Fill(b, Ll(build[b].out), IF build[b].hit THEN disk[Entry(build[b].src)] ELSE build[b].src)
  /\ Goto(b, IF build[b].cached THEN "stamp" ELSE "link")
  /\ IF build[b].hit THEN Trust(b, Entry(build[b].src)) ELSE UNCHANGED misled
  /\ UNCHANGED doubt

OpenStamp(b) ==
  /\ At(b, "stamp")
  /\ Open(b, Stamp(build[b].out))
  /\ Goto(b, "stamping")
  /\ UNCHANGED <<doubt, misled>>

FillStamp(b) ==
  /\ At(b, "stamping")
  /\ Fill(b, Stamp(build[b].out), build[b].src)
  /\ Goto(b, "link")
  /\ Vouch(b, Stamp(build[b].out))

\* A build that missed stores its .ll once it succeeded.
AfterLink(b) == IF build[b].cached /\ ~build[b].hit THEN "store" ELSE "end"

SkipLink(b) ==
  /\ At(b, "link") /\ ~build[b].link
  /\ Goto(b, AfterLink(b))
  /\ UNCHANGED <<disk, cut, doubt, misled>>

RemoveExe(b) ==
  /\ At(b, "link") /\ build[b].link
  /\ disk' = [disk EXCEPT ![Exe(build[b].out)] = Absent]
  /\ Goto(b, "native")
  /\ UNCHANGED <<cut, doubt, misled>>

OpenExe(b) ==
  /\ At(b, "native")
  /\ build[b].src \in Plain /\ disk[KeptExe(b)] # Absent
  /\ Open(b, Exe(build[b].out))
  /\ Goto(b, "restore")
  /\ UNCHANGED <<doubt, misled>>

FillExe(b) ==
  /\ At(b, "restore")
  /\ Fill(b, Exe(build[b].out), disk[KeptExe(b)])
  /\ Goto(b, AfterLink(b))
  /\ Trust(b, KeptExe(b))
  /\ UNCHANGED doubt

\* clang compiles what is in target/; half a file does not compile.
Clang(b) ==
  /\ At(b, "native")
  /\ build[b].src \in Plain => disk[KeptExe(b)] = Absent
  /\ LET text == disk[Ll(build[b].out)]
     IN IF text # Part
        THEN /\ disk' = [disk EXCEPT ![Exe(build[b].out)] = text]
             /\ Goto(b, IF build[b].src \in Plain THEN "keep" ELSE AfterLink(b))
        ELSE /\ Goto(b, "failed")
             /\ UNCHANGED disk
  /\ UNCHANGED <<cut, doubt, misled>>

\* An executable that another build removed meanwhile is not kept.
OpenKept(b) ==
  /\ At(b, "keep")
  /\ IF disk[Exe(build[b].out)] # Absent
     THEN Open(b, KeptExe(b)) /\ Goto(b, "keeping") /\ doubt' = doubt \cup {KeptExe(b)}
     ELSE Goto(b, AfterLink(b)) /\ UNCHANGED <<disk, cut, doubt>>
  /\ UNCHANGED misled

\* One removed under the copy may have been of any source.
FillKept(b) ==
  /\ At(b, "keeping")
  /\ \E copy \in IF disk[Exe(build[b].out)] # Absent THEN {disk[Exe(build[b].out)]} ELSE Sources \cup {Part} :
       Fill(b, KeptExe(b), copy)
  /\ Goto(b, AfterLink(b))
  /\ Vouch(b, KeptExe(b))

OpenStored(b) ==
  /\ At(b, "store")
  /\ Open(b, Entry(build[b].src))
  /\ Goto(b, "storing")
  /\ doubt' = doubt \cup {Entry(build[b].src)}
  /\ UNCHANGED misled

\* The cache gets a copy of the file in target/.
FillStored(b) ==
  /\ At(b, "storing")
  /\ Fill(b, Entry(build[b].src), disk[Ll(build[b].out)])
  /\ Goto(b, "end")
  /\ Vouch(b, Entry(build[b].src))

Exit(b) ==
  /\ build[b].at \in {"end", "failed"}
  /\ build' = [build EXCEPT ![b] = Idle]
  /\ misled' = misled \ {b}
  /\ UNCHANGED <<disk, cut, builds, kills, doubt>>

\* A write broken off misleads those who have the same file open.
Kill(b) ==
  /\ kills < MaxKills
  /\ Running(b)
  /\ build' = [build EXCEPT ![b] = Idle]
  /\ kills' = kills + 1
  /\ cut' = cut \ {b}
  /\ misled' = (misled \ {b}) \cup {c \in Others(b) : \E f \in Files : HasOpen(b, f) /\ HasOpen(c, f)}
  /\ UNCHANGED <<disk, builds, doubt>>

Step(b) ==
  \/ Probe(b) \/ Check(b) \/ OpenLl(b) \/ FillLl(b) \/ OpenStamp(b) \/ FillStamp(b)
  \/ SkipLink(b) \/ RemoveExe(b) \/ OpenExe(b) \/ FillExe(b) \/ Clang(b)
  \/ OpenKept(b) \/ FillKept(b) \/ OpenStored(b) \/ FillStored(b) \/ Exit(b)

Next ==
  \/ \E b \in Builders, s \in Sources, o \in Outs, cached, link \in BOOLEAN : Begin(b, s, o, cached, link)
  \/ \E b \in Builders : Step(b) \/ Kill(b)

Spec == Init /\ [][Next]_vars

-----------------------------------------------------------------------------
\* A build does not fail, and one that ends has left the .ll and, if it links,
\* the executable of the source it was asked to build.
GivesItsSource(b) ==
  /\ build[b].at # "failed"
  /\ build[b].at = "end" =>
       /\ disk[Ll(build[b].out)] = build[b].src
       /\ build[b].link => disk[Exe(build[b].out)] = build[b].src

(***************************************************************************)
(* Every build gives its source.  The code does not keep this: see the     *)
(* builds that --no-cache, a kill or a build of the same output misleads.  *)
(***************************************************************************)
BuildGivesItsSource == \A b \in Builders : GivesItsSource(b)

(***************************************************************************)
(* Whatever was built before, runs beside or was killed, a build gives its *)
(* source unless it shared its output with another, or took a file in      *)
(* doubt; and a cache entry that is not in doubt is whole and made from    *)
(* the source it is filed under.  Builds of one source under several       *)
(* outputs, which write the same entries, are no exception.                *)
(***************************************************************************)
BuildsAreSound ==
  /\ \A b \in Builders \ misled : GivesItsSource(b)
  /\ \A f \in {"cache", "hash_source", "hash_ll"} \X Sources : f \in doubt \/ disk[f] \in {Absent, f[2]}
=============================================================================
