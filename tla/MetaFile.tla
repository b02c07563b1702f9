------------------------------ MODULE MetaFile ------------------------------
(***************************************************************************)
(* What remodel remembers between runs: .remodel/md5hashes, the backup it  *)
(* is written to first, and the outputs of the commands (md5hash.c, and    *)
(* main.c from md5_calculate_for_sources() to md5_save_md5_hashes()).      *)
(*                                                                         *)
(* A hash stands for the content it is the hash of.  Which targets a run   *)
(* builds, and in which order, are the promises of DepGraph and of         *)
(* BuildOrder; the remodelfile is the same in all runs.  The environment   *)
(* edits sources, stops the program at any point and makes commands fail,  *)
(* as far as the constants let it.                                         *)
(***************************************************************************)
EXTENDS Integers, Sequences, FiniteSets, SequencesExt

CONSTANTS
  SourceOrder,     \* the source list, in its order
  Target,
  Reads,           \* Reads[t]: the sources among the dependencies of t
  Uses,            \* Uses[t]: the targets among the dependencies of t
  Goal,            \* the targets that runs ask for
  Garbage,         \* what is left of a hash or a name that was cut short
  LastVersion,     \* bound: the contents a source can have are 0 .. LastVersion
  MaxLines,        \* bound: the lines a crash can leave in the backup
  MayRevert,       \* may a source get a content again that it had before?
  MayEditInRun,    \* may a source be edited while remodel runs?
  MayFail,         \* may a command fail?
  MayCrash,        \* may remodel be killed?
  MayClean         \* may the user run the target that removes what was built?

Source == ToSet(SourceOrder)
Version == 0 .. LastVersion

ASSUME ProjectAssumption ==
  /\ SourceOrder \in Seq(Source)
  /\ \A t \in Target : Reads[t] \subseteq Source /\ Uses[t] \subseteq Target
  /\ Goal \subseteq Target
  /\ Source \cap Target = {}
  /\ LastVersion \in Nat
  /\ Garbage \notin Source /\ Garbage \notin Version
  /\ {MayRevert, MayEditInRun, MayFail, MayCrash, MayClean} \subseteq BOOLEAN

(* A line of a hash file; ended says whether its newline has been written. *)
Line == [src : Source \cup {Garbage}, hash : Version \cup {Garbage},
         ended : BOOLEAN]

VARIABLES
  content,     \* the content of each source
  newest,      \* the newest content that a source has had
  output,      \* the source contents that went into each target's output
  md5hashes,   \* .remodel/md5hashes, a sequence of lines
  bkp,         \* the backup file, the same
  pc,          \* where the run is, if there is one
  md5hash,     \* srcfile_t.md5hash, as calculated at the start of the run
  todo,        \* the targets that the run has still to build
  unwritten    \* the lines in the buffer of the file that is being saved

envVars == <<content, newest>>
fileVars == <<md5hashes, bkp>>
runVars == <<pc, md5hash, todo, unwritten>>
vars == <<envVars, output, fileVars, runVars>>

NoHash == [s \in Source |-> 0]

Init ==
  /\ content = [s \in Source |-> 0]
  /\ newest = 0
  /\ output = [t \in Target |-> {}]
  /\ md5hashes = <<>>
  /\ bkp = <<>>
  /\ pc = "idle"
  /\ md5hash = NoHash
  /\ todo = {}
  /\ unwritten = <<>>

-----------------------------------------------------------------------------
(* The dependencies of the targets, and what is below each target by the   *)
(* productions: the least set that has its dependencies, and theirs.       *)
Deps(t) == Reads[t] \cup Uses[t]
IsClosed(C) == \A t \in C \cap Target : Deps(t) \subseteq C
Below ==
  [t \in Target |->
     {x \in Target \cup Source :
        \A C \in SUBSET (Target \cup Source) :
          IsClosed(C) /\ Deps(t) \subseteq C => x \in C}]

(* A definition marked "bug" is the one below it with a mistake in it; no  *)
(* action uses it.                                                         *)

LinesOf(s) == {j \in DOMAIN md5hashes : md5hashes[j].src = s}

(* bug: the first line of a source counts.                                 *)
FirstRecorded(s) ==
  IF LinesOf(s) = {} THEN Garbage ELSE md5hashes[Min(LinesOf(s))].hash

(* md5_load_from_file(): the last line of a source counts.  A source with  *)
(* no line, or with another hash, has changed.                             *)
Recorded(s) ==
  IF LinesOf(s) = {} THEN Garbage ELSE md5hashes[Max(LinesOf(s))].hash

(* bug: only the sources that a target itself names are looked at.         *)
ToBuildDirectly(goal, hash) ==
  {t \in {goal} \cup (Below[goal] \cap Target) :
     \E s \in Reads[t] : Recorded(s) # hash[s]}

ToBuild(goal, hash) ==
  {t \in {goal} \cup (Below[goal] \cap Target) :
     \E s \in Below[t] \cap Source : Recorded(s) # hash[s]}

(* A run calculates the hashes and finds what to build.  A run that finds  *)
(* nothing to build changes nothing.                                       *)
StartRun(goal) ==
  /\ pc = "idle"
  /\ ToBuild(goal, content) # {}
  /\ md5hash' = content
  /\ todo' = ToBuild(goal, content)
  /\ pc' = "build"
  /\ UNCHANGED <<envVars, output, fileVars, unwritten>>

(* The process ends, and its memory is gone.                               *)
Exit ==
  /\ pc' = "idle"
  /\ md5hash' = NoHash
  /\ todo' = {}
  /\ unwritten' = <<>>

(* The command of a target reads its sources and the outputs of the        *)
(* targets that it uses.  A failed command leaves the output as it was,    *)
(* and the run goes on.                                                    *)
RunCommand(t) ==
  /\ pc = "build"
  /\ t \in todo
  /\ Uses[t] \cap todo = {}
  /\ \/ output' = [output EXCEPT ![t] =
                     {<<s, content[s]>> : s \in Reads[t]}
                       \cup UNION {output[u] : u \in Uses[t]}]
     \/ MayFail /\ UNCHANGED output
  /\ todo' = todo \ {t}
  /\ UNCHANGED <<envVars, fileVars, pc, md5hash, unwritten>>

-----------------------------------------------------------------------------
(* md5_save_md5_hashes() *)

(* bug: the newline is left out.                                           *)
HashOnly(s) == [src |-> s, hash |-> md5hash[s], ended |-> FALSE]

(* bug: the hash is calculated when it is saved.                           *)
HashOfNow(s) == [src |-> s, hash |-> content[s], ended |-> TRUE]

HashLine(s) == [src |-> s, hash |-> md5hash[s], ended |-> TRUE]

(* bug: the hashes are saved while there are commands to run.              *)
SomeBuilt == Target \ todo # {}

BuildDone == todo = {}

(* The backup is opened to be appended to, and a line for every source of  *)
(* the remodelfile goes into its buffer.                                   *)
WriteHashes ==
  /\ pc = "build"
  /\ BuildDone
  /\ unwritten' = [j \in DOMAIN SourceOrder |-> HashLine(SourceOrder[j])]
  /\ pc' = "save"
  /\ UNCHANGED <<envVars, output, fileVars, md5hash, todo>>

IsCutShort(file) == file # <<>> /\ ~Last(file).ended

(* The file with more lines: the first of them runs on from a line that    *)
(* has not been ended.  (A joined line longer than md5_load_from_file()'s  *)
(* arrays overruns them; it is taken to be a garbled line like others.)    *)
Appended(file, lines) ==
  IF lines # <<>> /\ IsCutShort(file)
  THEN Front(file) \o <<[src |-> Last(file).src, hash |-> Garbage, ended |-> TRUE]>>
         \o Tail(lines)
  ELSE file \o lines

(* The backup becomes md5hashes, with what the system has of it so far ... *)
Rename ==
  /\ pc = "save"
  /\ md5hashes' = bkp
  /\ bkp' = <<>>
  /\ pc' = "renamed"
  /\ UNCHANGED <<envVars, output, md5hash, todo, unwritten>>

(* ... and fclose() writes what is left in the buffer.                     *)
Close ==
  /\ pc = "renamed"
  /\ md5hashes' = Appended(md5hashes, unwritten)
  /\ Exit
  /\ UNCHANGED <<envVars, output, bkp>>

(* The ways in which a line can be cut short: its newline is missing, or   *)
(* some of its hash, or some of its name.                                  *)
Cut(line) == {
  [line EXCEPT !.ended = FALSE],
  [line EXCEPT !.ended = FALSE, !.hash = Garbage],
  [line EXCEPT !.ended = FALSE, !.hash = Garbage, !.src = Garbage]}

(* What a crash can leave of the buffer: any number of its first bytes,    *)
(* because stdio writes a full buffer out before fclose() does.            *)
Beginnings(lines) ==
  UNION {{SubSeq(lines, 1, k)} \cup
           (IF k = Len(lines) THEN {}
            ELSE {Append(SubSeq(lines, 1, k), c) : c \in Cut(lines[k + 1])})
         : k \in 0 .. Len(lines)}

(* remodel is killed, or saving fails: mkdir, fopen or rename fail.        *)
Crash ==
  /\ MayCrash
  /\ pc # "idle"
  /\ \E lines \in Beginnings(unwritten) :
       \/ /\ pc = "save"
          /\ Len(bkp) + Len(lines) <= MaxLines
          /\ bkp' = Appended(bkp, lines)
          /\ UNCHANGED md5hashes
       \/ /\ pc # "save"
          /\ md5hashes' = Appended(md5hashes, lines)
          /\ UNCHANGED bkp
  /\ Exit
  /\ UNCHANGED <<envVars, output>>

-----------------------------------------------------------------------------
(* A source gets another content.                                          *)
Edit(s) ==
  /\ pc = "idle" \/ MayEditInRun
  /\ \E v \in Version \ {content[s]} :
       /\ v <= newest + 1
       /\ MayRevert \/ v = newest + 1
       /\ content' = [content EXCEPT ![s] = v]
       /\ newest' = IF v > newest THEN v ELSE newest
  /\ UNCHANGED <<output, fileVars, runVars>>

(* bug: only what the commands made is removed, as by the target clean of  *)
(* testcases/cyclic_dependency/remodelfile.                                *)
RemoveOutputs ==
  /\ pc = "idle"
  /\ MayClean
  /\ output' = [t \in Target |-> {}]
  /\ UNCHANGED <<envVars, fileVars, runVars>>

(* A run for a target without dependencies, clean: its command removes the *)
(* outputs and .remodel, and the run neither reads nor saves hashes.       *)
Clean ==
  /\ pc = "idle"
  /\ MayClean
  /\ output' = [t \in Target |-> {}]
  /\ md5hashes' = <<>>
  /\ bkp' = <<>>
  /\ UNCHANGED <<envVars, runVars>>

RunStep ==
  \/ \E goal \in Goal : StartRun(goal)
  \/ \E t \in Target : RunCommand(t)
  \/ WriteHashes \/ Rename \/ Close

Next ==
  \/ RunStep \/ Crash \/ Clean
  \/ \E s \in Source : Edit(s)

Spec == Init /\ [][Next]_vars

(* The user runs remodel again and again, and the system lets a run go on. *)
FairSpec == Spec /\ WF_vars(RunStep)

-----------------------------------------------------------------------------
(* Properties *)

TypeOK ==
  /\ content \in [Source -> Version]
  /\ newest \in Version
  /\ output \in [Target -> SUBSET (Source \X Version)]
  /\ md5hashes \in Seq(Line)
  /\ bkp \in Seq(Line)
  /\ pc \in {"idle", "build", "save", "renamed"}
  /\ md5hash \in [Source -> Version]
  /\ todo \in SUBSET Target
  /\ unwritten \in Seq([src : Source, hash : Version, ended : {TRUE}])

(* README:10-13: md5diff(oldA, newA) => everything that depends on A must  *)
(* be rebuilt.  Between two runs, whenever the output of a target is not   *)
(* made from the content that a source below it has now, the next run will *)
(* see that source as changed.                                             *)
IsStale(t, s) == {v \in Version : <<s, v>> \in output[t]} # {content[s]}
StaleIsNoticed ==
  pc = "idle" =>
    \A t \in Target : \A s \in Below[t] \cap Source :
      IsStale(t, s) => Recorded(s) # content[s]

(* The hashes come after the commands (main.c:152-156): no line of either  *)
(* file, wherever a crash cut it, says that a content was built that some  *)
(* output below which the source stands was not made from.  Contents are   *)
(* numbered in the order of the edits.                                     *)
RecordsAreBuilt ==
  \A l \in ToSet(md5hashes) \cup ToSet(bkp) :
    l.src # Garbage /\ l.hash # Garbage =>
      \A t \in Target : l.src \in Below[t] =>
        \E v \in l.hash .. LastVersion : <<l.src, v>> \in output[t]

(* What the program is for.  When the edits come to an end, and remodel is *)
(* not killed for ever, the outputs will be made from the sources as they  *)
(* are, and stay so: no edit, and no crash, leaves an output behind that   *)
(* no later run looks at.  (The bound on contents ends the edits.)         *)
IsFresh == \A t \in Target : \A s \in Below[t] \cap Source : ~IsStale(t, s)
UpToDateAtLast == []<><<Crash>>_vars \/ <>[]IsFresh

(* md5hash.c:92, "write all md5 hashes of each source file": when a run    *)
(* has saved the hashes, the next run finds those that it calculated, also *)
(* where killed runs left a backup that they were appended to              *)
(* (md5hash.c:85).  Only the line of the first source can be lost, to one  *)
(* of the backup that was cut short: it is then built once more.           *)
SavesWhatItCalculated ==
  [][Close => \A s \in Source :
       \/ Recorded(s)' = md5hash[s]
       \/ s = SourceOrder[1] /\ IsCutShort(md5hashes)]_vars
=============================================================================
