--------------------------- MODULE MetaFileProofs ---------------------------
(***************************************************************************)
(* What MetaFile promises, for every project: any sources, targets and     *)
(* productions, any number of versions and lines.                          *)
(*                                                                         *)
(* Two inductive invariants carry it.  HistoryInv is for sources that only *)
(* get new contents, and holds with crashes and with edits during a run: a *)
(* line is sound when its content is not newer than what the outputs were  *)
(* made from.  ExactInv is for contents that come back, between runs that  *)
(* end: a record is the very content that was built.                       *)
(***************************************************************************)
EXTENDS MetaFile, Numbers, SequenceTheorems

-----------------------------------------------------------------------------
(* The operators of the model *)

(* What is below a target comes from it or from a target that it uses, as  *)
(* the outputs do.                                                         *)
LEMMA BelowByStep ==
  ASSUME NEW t \in Target, NEW s \in Source
  PROVE  s \in Below[t] <=> s \in Reads[t] \/ \E u \in Uses[t] : s \in Below[u]
<1> USE ProjectAssumption
<1>1. ASSUME s \in Reads[t] PROVE s \in Below[t]
  BY <1>1 DEF Below, Deps
<1>2. ASSUME NEW u \in Uses[t], s \in Below[u] PROVE s \in Below[t]
  <2>1. SUFFICES ASSUME NEW C \in SUBSET (Target \cup Source),
                        IsClosed(C), Deps(t) \subseteq C
                 PROVE  s \in C
    BY DEF Below
  <2>2. Deps(u) \subseteq C
    BY <2>1 DEF IsClosed, Deps
  <2> QED BY <1>2, <2>1, <2>2 DEF Below
<1>3. ASSUME s \in Below[t]
      PROVE  s \in Reads[t] \/ \E u \in Uses[t] : s \in Below[u]
  <2> DEFINE D == Deps(t) \cup UNION {Below[u] : u \in Uses[t]}
  <2>1. D \in SUBSET (Target \cup Source)
    BY DEF Deps, Below
  <2>2. ASSUME NEW x \in D \cap Target, NEW y \in Deps(x) PROVE y \in D
    <3>1. CASE x \in Uses[t]
      <4>1. y \in Below[x]
        BY <3>1 DEF Below, Deps
      <4> QED BY <4>1, <3>1
    <3>2. CASE \E u \in Uses[t] : x \in Below[u]
      <4>1. PICK u \in Uses[t] : x \in Below[u]
        BY <3>2
      <4>2. y \in Below[u]
        BY <4>1, <2>2 DEF Below, IsClosed, Deps
      <4> QED BY <4>2
    <3> QED BY <3>1, <3>2, <2>2 DEF Deps
  <2>3. IsClosed(D)
    BY <2>2 DEF IsClosed
  <2>4. s \in D
    BY <1>3, <2>1, <2>3 DEF Below
  <2> QED BY <2>4 DEF Deps
<1> QED BY <1>1, <1>2, <1>3

(* The hash that is recorded for a source is the hash of one of its lines. *)
LEMMA RecordedLine ==
  ASSUME md5hashes \in Seq(Line), NEW s \in Source, Recorded(s) # Garbage
  PROVE  \E j \in 1 .. Len(md5hashes) :
           md5hashes[j].src = s /\ md5hashes[j].hash = Recorded(s)
<1> DEFINE lines == {j \in DOMAIN md5hashes : md5hashes[j].src = s}
<1>1. lines # {} /\ Recorded(s) = md5hashes[Max(lines)].hash
  BY DEF Recorded, LinesOf
<1>2. lines \in SUBSET Nat /\ \A j \in lines : j <= Len(md5hashes)
  OBVIOUS
<1>3. Len(md5hashes) \in Nat
  OBVIOUS
<1> HIDE DEF lines
<1>4. Max(lines) \in lines
  BY <1>1, <1>2, <1>3, GreatestNumber
<1>5. Max(lines) \in 1 .. Len(md5hashes) /\ md5hashes[Max(lines)].src = s
  BY <1>4 DEF lines
<1> QED BY <1>1, <1>5

(* Lines of a kind that may lose its hash make lines of that kind when     *)
(* they are appended to a file ...                                         *)
LEMMA AppendedKind ==
  ASSUME NEW K \in SUBSET Line,
         \A l \in K : [src |-> l.src, hash |-> Garbage, ended |-> TRUE] \in K,
         NEW file \in Seq(K), NEW lines \in Seq(K)
  PROVE  Appended(file, lines) \in Seq(K)
<1>1. CASE lines # <<>> /\ IsCutShort(file)
  <2>1. Front(file) \in Seq(K) /\ Last(file) \in K
    BY <1>1 DEF Front, Last, IsCutShort
  <2>2. Tail(lines) \in Seq(K)
    BY <1>1
  <2> DEFINE joined == [src |-> Last(file).src, hash |-> Garbage, ended |-> TRUE]
  <2>3. joined \in K
    BY <2>1
  <2>4. Appended(file, lines) = Front(file) \o <<joined>> \o Tail(lines)
    BY <1>1 DEF Appended
  <2> HIDE DEF joined
  <2> QED BY <2>1, <2>2, <2>3, <2>4
<1>2. CASE ~(lines # <<>> /\ IsCutShort(file))
  <2>1. Appended(file, lines) = file \o lines
    BY <1>2 DEF Appended
  <2> QED BY <2>1
<1> QED BY <1>1, <1>2

(* ... and when a crash leaves the beginning of them.                      *)
LEMMA BeginningsKind ==
  ASSUME NEW K \in SUBSET Line, \A l \in K : Cut(l) \subseteq K,
         NEW lines \in Seq(K), NEW b \in Beginnings(lines)
  PROVE  b \in Seq(K)
<1>1. PICK k \in 0 .. Len(lines) :
        \/ b = SubSeq(lines, 1, k)
        \/ k # Len(lines)
             /\ \E c \in Cut(lines[k + 1]) : b = Append(SubSeq(lines, 1, k), c)
  BY DEF Beginnings
<1>2. SubSeq(lines, 1, k) \in Seq(K)
  OBVIOUS
<1>3. ASSUME k # Len(lines) PROVE Cut(lines[k + 1]) \subseteq K
  <2>1. k + 1 \in 1 .. Len(lines)
    BY <1>3
  <2> QED BY <2>1
<1> QED BY <1>1, <1>2, <1>3

-----------------------------------------------------------------------------
(* Types *)

LEMMA LineShapes ==
  /\ \A l \in Line : [src |-> l.src, hash |-> Garbage, ended |-> TRUE] \in Line
  /\ \A l \in Line : Cut(l) \subseteq Line
BY DEF Line, Cut

LEMMA UnwrittenLines ==
  ASSUME md5hash \in [Source -> Version]
  PROVE  [j \in DOMAIN SourceOrder |-> HashLine(SourceOrder[j])]
           \in Seq([src : Source, hash : Version, ended : {TRUE}])
<1>1. ASSUME NEW j \in DOMAIN SourceOrder
      PROVE  HashLine(SourceOrder[j])
               \in [src : Source, hash : Version, ended : {TRUE}]
  <2>1. SourceOrder[j] \in Source
    BY ProjectAssumption
  <2> QED BY <2>1 DEF HashLine
<1> DEFINE L == [src : Source, hash : Version, ended : {TRUE}]
           lines == [j \in DOMAIN SourceOrder |-> HashLine(SourceOrder[j])]
<1>2. DOMAIN SourceOrder = 1 .. Len(SourceOrder) /\ Len(SourceOrder) \in Nat
  BY ProjectAssumption
<1>3. lines \in [1 .. Len(SourceOrder) -> L]
  BY <1>1, <1>2
<1> HIDE DEF lines, L
<1>4. lines \in Seq(L)
  BY <1>2, <1>3, SeqDef
<1> QED BY <1>4 DEF lines, L

LEMMA TypeNext ==
  ASSUME TypeOK, [Next]_vars
  PROVE  TypeOK'
<1> USE ProjectAssumption DEF TypeOK
<1>1. ASSUME NEW goal \in Goal, StartRun(goal) PROVE TypeOK'
  <2>1. ToBuild(goal, content) \subseteq Target
    BY DEF ToBuild
  <2> QED BY <1>1, <2>1 DEF StartRun, envVars, fileVars
<1>2. ASSUME NEW t \in Target, RunCommand(t) PROVE TypeOK'
  <2> DEFINE made == {<<s, content[s]>> : s \in Reads[t]}
                       \cup UNION {output[u] : u \in Uses[t]}
  <2>1. made \in SUBSET (Source \X Version)
    OBVIOUS
  <2> HIDE DEF made
  <2>2. output' = [output EXCEPT ![t] = made] \/ output' = output
    BY <1>2 DEF RunCommand, made
  <2>3. output' \in [Target -> SUBSET (Source \X Version)]
    <3>1. output \in [Target -> SUBSET (Source \X Version)]
      OBVIOUS
    <3> QED BY ONLY <2>1, <2>2, <3>1
  <2> QED BY <1>2, <2>3 DEF RunCommand, envVars, fileVars
<1>3. ASSUME WriteHashes PROVE TypeOK'
  BY <1>3, UnwrittenLines DEF WriteHashes, envVars, fileVars
<1>4. ASSUME Rename PROVE TypeOK'
  BY <1>4 DEF Rename, envVars
<1>5. unwritten \in Seq(Line)
  <2>1. [src : Source, hash : Version, ended : {TRUE}] \subseteq Line
    BY DEF Line
  <2>2. unwritten \in Seq([src : Source, hash : Version, ended : {TRUE}])
    OBVIOUS
  <2> QED BY ONLY <2>1, <2>2, SeqMonotonic
<1>6. ASSUME Exit PROVE
        /\ pc' = "idle" /\ md5hash' \in [Source -> Version] /\ todo' = {}
        /\ unwritten' \in Seq([src : Source, hash : Version, ended : {TRUE}])
  BY <1>6 DEF Exit, NoHash, Version
<1>7. ASSUME Close PROVE TypeOK'
  <2>1. Appended(md5hashes, unwritten) \in Seq(Line)
    BY <1>5, LineShapes, AppendedKind
  <2> QED BY <1>6, <1>7, <2>1 DEF Close, envVars
<1>8. ASSUME Crash PROVE TypeOK'
  <2>1. ASSUME NEW lines \in Beginnings(unwritten)
        PROVE  /\ Appended(md5hashes, lines) \in Seq(Line)
               /\ Appended(bkp, lines) \in Seq(Line)
    <3>1. lines \in Seq(Line)
      BY <1>5, LineShapes, BeginningsKind
    <3> QED BY <3>1, LineShapes, AppendedKind
  <2>2. md5hashes' \in Seq(Line) /\ bkp' \in Seq(Line)
    BY <1>8, <2>1 DEF Crash
  <2> QED BY <1>6, <1>8, <2>2 DEF Crash, envVars
<1>9. ASSUME Clean PROVE TypeOK'
  BY <1>9 DEF Clean, envVars, runVars
<1>10. ASSUME NEW s \in Source, Edit(s) PROVE TypeOK'
  BY <1>10 DEF Edit, fileVars, runVars
<1>11. ASSUME UNCHANGED vars PROVE TypeOK'
  BY <1>11 DEF vars, envVars, fileVars, runVars
<1> QED
  BY <1>1, <1>2, <1>3, <1>4, <1>7, <1>8, <1>9, <1>10, <1>11 DEF Next, RunStep

LEMMA TypeInit == Init => TypeOK
BY ProjectAssumption DEF Init, TypeOK, NoHash, Version

(* Every variable of MetaFile keeps its type, whatever crashes cut off.    *)
THEOREM MetaFileTypes == Spec => []TypeOK
<1>1. TypeOK /\ [Next]_vars => TypeOK'
  BY TypeNext
<1> QED BY TypeInit, <1>1, PTL DEF Spec

-----------------------------------------------------------------------------
(* Records and outputs when no content comes back and no command fails *)

(* Every run asks for a target that has all others below it.               *)
GoalsAreAll == \A goal \in Goal : Target \subseteq {goal} \cup Below[goal]

(* The output of t was made from content k of s, or from later ones.       *)
MadeFrom(t, s, k) ==
  /\ \E v \in Version : <<s, v>> \in output[t]
  /\ \A v \in Version : <<s, v>> \in output[t] => k <= v

(* What a line says has happened.                                          *)
IsSound(l) ==
  l.src # Garbage /\ l.hash # Garbage =>
    /\ l.hash <= content[l.src]
    /\ \A t \in Target : l.src \in Below[t] => MadeFrom(t, l.src, l.hash)
SoundLine == {l \in Line : IsSound(l)}

ContentsAreNewest == \A s \in Source : content[s] <= newest
OutputsAreFromBelow ==
  \A t \in Target, s \in Source, v \in Version :
    <<s, v>> \in output[t] => s \in Below[t] /\ v <= content[s]
LinesAreSound ==
  /\ md5hashes \in Seq(SoundLine)
  /\ bkp \in Seq(SoundLine)
  /\ unwritten \in Seq(SoundLine)
RunIsSound ==
  pc # "idle" =>
    /\ \A s \in Source : md5hash[s] <= content[s]
    /\ \A t \in Target \ todo : \A s \in Below[t] \cap Source :
         MadeFrom(t, s, md5hash[s])
SavedWhenBuilt ==
  IF pc \in {"save", "renamed"} THEN todo = {} ELSE unwritten = <<>>

HistoryInv ==
  /\ ContentsAreNewest
  /\ OutputsAreFromBelow
  /\ LinesAreSound
  /\ RunIsSound
  /\ SavedWhenBuilt

LEMMA SoundKinds ==
  /\ \A l \in SoundLine :
       [src |-> l.src, hash |-> Garbage, ended |-> TRUE] \in SoundLine
  /\ \A l \in SoundLine : Cut(l) \subseteq SoundLine
BY LineShapes DEF SoundLine, IsSound, Cut, Line

(* A line stays sound as long as contents and outputs are what they were.  *)
LEMMA SoundUnchanged ==
  ASSUME UNCHANGED <<content, output>>
  PROVE  SoundLine' = SoundLine
BY DEF SoundLine, IsSound, MadeFrom

LEMMA HistoryInit == Init => HistoryInv
BY ProjectAssumption
   DEF Init, HistoryInv, ContentsAreNewest, OutputsAreFromBelow, LinesAreSound,
       RunIsSound, SavedWhenBuilt

(* A run that starts: the sources of a target that it need not build have  *)
(* a line with their content, so the output was made from it.              *)
LEMMA HistoryStartRun ==
  ASSUME GoalsAreAll, TypeOK, HistoryInv, NEW goal \in Goal, StartRun(goal)
  PROVE  HistoryInv'
<1> USE ProjectAssumption
<1>1. UNCHANGED <<content, newest, output, md5hashes, bkp, unwritten>>
  BY DEF StartRun, envVars, fileVars
<1>2. pc = "idle" /\ pc' = "build" /\ md5hash' = content
      /\ todo' = ToBuild(goal, content)
  BY DEF StartRun
<1>3. SoundLine' = SoundLine
  BY <1>1, SoundUnchanged
<1>4. LinesAreSound'
  BY <1>1, <1>3 DEF LinesAreSound, HistoryInv
<1>5. ContentsAreNewest' /\ OutputsAreFromBelow' /\ SavedWhenBuilt'
  BY <1>1, <1>2 DEF HistoryInv, ContentsAreNewest, OutputsAreFromBelow, SavedWhenBuilt
<1>6. ASSUME NEW t \in Target \ todo', NEW s \in Below[t] \cap Source
      PROVE  MadeFrom(t, s, content[s])
  <2>1. t \in {goal} \cup (Below[goal] \cap Target)
    BY DEF GoalsAreAll
  <2>2. Recorded(s) = content[s]
    BY <1>2, <1>6, <2>1 DEF ToBuild
  <2>3. content[s] \in Version /\ content[s] # Garbage /\ s # Garbage
    BY DEF TypeOK
  <2>4. PICK j \in 1 .. Len(md5hashes) :
          md5hashes[j].src = s /\ md5hashes[j].hash = content[s]
    BY <2>2, <2>3, RecordedLine DEF TypeOK
  <2>5. md5hashes[j] \in SoundLine
    BY <2>4, ElementOfSeq DEF HistoryInv, LinesAreSound
  <2> QED BY <1>6, <2>3, <2>4, <2>5 DEF SoundLine, IsSound
<1>7. RunIsSound'
  <2>1. \A s \in Source : md5hash'[s] <= content'[s]
    BY <1>1, <1>2 DEF TypeOK, Version
  <2>2. ASSUME NEW t \in Target \ todo', NEW s \in Below[t] \cap Source
        PROVE  MadeFrom(t, s, md5hash[s])'
    BY <1>1, <1>2, <1>6, <2>2 DEF MadeFrom
  <2> QED BY <2>1, <2>2 DEF RunIsSound, MadeFrom
<1> QED BY <1>4, <1>5, <1>7 DEF HistoryInv

(* A command makes an output from the contents of now and from outputs.    *)
LEMMA HistoryRunCommand ==
  ASSUME ~MayFail, TypeOK, HistoryInv, NEW t \in Target, RunCommand(t)
  PROVE  HistoryInv'
<1> USE ProjectAssumption
<1> DEFINE made == {<<s, content[s]>> : s \in Reads[t]}
                     \cup UNION {output[u] : u \in Uses[t]}
<1>1. UNCHANGED <<content, newest, md5hashes, bkp, pc, md5hash, unwritten>>
  BY DEF RunCommand, envVars, fileVars
<1>2. pc = "build" /\ t \in todo /\ todo' = todo \ {t} /\ Uses[t] \cap todo = {}
      /\ output' = [output EXCEPT ![t] = made]
  BY DEF RunCommand
<1>3. \A s \in Source, v \in Version :
        <<s, v>> \in made
          <=> (s \in Reads[t] /\ v = content[s])
                \/ \E u \in Uses[t] : <<s, v>> \in output[u]
  <2>1. ASSUME NEW s \in Source, NEW v \in Version
        PROVE  <<s, v>> \in {<<x, content[x]>> : x \in Reads[t]}
                 <=> s \in Reads[t] /\ v = content[s]
    OBVIOUS
  <2> QED BY <2>1
<1>4. output'[t] = made /\ \A u \in Target \ {t} : output'[u] = output[u]
  BY <1>2 DEF TypeOK
<1> HIDE DEF made
<1>5. OutputsAreFromBelow'
  <2>1. ASSUME NEW s \in Source, NEW v \in Version, <<s, v>> \in made
        PROVE  s \in Below[t] /\ v <= content[s]
    <3>1. CASE s \in Reads[t] /\ v = content[s]
      BY <3>1, BelowByStep DEF TypeOK, Version
    <3>2. CASE \E u \in Uses[t] : <<s, v>> \in output[u]
      BY <3>2, BelowByStep DEF HistoryInv, OutputsAreFromBelow
    <3> QED BY <1>3, <2>1, <3>1, <3>2
  <2> QED BY <1>1, <1>4, <2>1 DEF HistoryInv, OutputsAreFromBelow
<1>6. ASSUME NEW s \in Source, NEW k \in Version, k <= content[s], s \in Below[t],
             \A u \in Uses[t] : s \in Below[u] => MadeFrom(u, s, k)
      PROVE  MadeFrom(t, s, k)'
  <2>1. \E v \in Version : <<s, v>> \in made
    <3>1. CASE s \in Reads[t]
      BY <1>3, <3>1 DEF TypeOK
    <3>2. CASE \E u \in Uses[t] : s \in Below[u]
      BY <1>3, <1>6, <3>2 DEF MadeFrom
    <3> QED BY <1>6, <3>1, <3>2, BelowByStep
  <2>2. ASSUME NEW v \in Version, <<s, v>> \in made PROVE k <= v
    <3>1. CASE s \in Reads[t] /\ v = content[s]
      BY <1>6, <3>1
    <3>2. CASE \E u \in Uses[t] : <<s, v>> \in output[u]
      BY <1>6, <3>2 DEF HistoryInv, OutputsAreFromBelow, MadeFrom
    <3> QED BY <1>3, <2>2, <3>1, <3>2
  <2> QED BY <1>4, <2>1, <2>2 DEF MadeFrom
<1>7. ASSUME NEW l \in Line, IsSound(l) PROVE IsSound(l)'
  <2>1. SUFFICES ASSUME l.src # Garbage, l.hash # Garbage, NEW u \in Target,
                        l.src \in Below[u]
                 PROVE  MadeFrom(u, l.src, l.hash)'
    BY <1>1, <1>7 DEF IsSound
  <2>2. l.src \in Source /\ l.hash \in Version
    BY <2>1 DEF Line
  <2>3. CASE u = t
    BY <1>6, <1>7, <2>1, <2>2, <2>3 DEF IsSound
  <2>4. CASE u # t
    BY <1>4, <1>7, <2>1, <2>4 DEF IsSound, MadeFrom
  <2> QED BY <2>3, <2>4
<1>8. LinesAreSound'
  <2>1. SoundLine \subseteq SoundLine'
    BY <1>7 DEF SoundLine
  <2> QED BY <1>1, <2>1, SeqMonotonic DEF HistoryInv, LinesAreSound
<1>9. RunIsSound'
  <2>1. ASSUME NEW u \in Target \ todo', NEW s \in Below[u] \cap Source
        PROVE  MadeFrom(u, s, md5hash[s])'
    <3>1. md5hash[s] \in Version /\ md5hash[s] <= content[s]
      BY <1>2 DEF TypeOK, HistoryInv, RunIsSound
    <3>2. CASE u = t
      <4>1. \A w \in Uses[t] : s \in Below[w] => MadeFrom(w, s, md5hash[s])
        BY <1>2 DEF HistoryInv, RunIsSound
      <4> QED BY <1>1, <1>6, <2>1, <3>1, <3>2, <4>1
    <3>3. CASE u # t
      BY <1>1, <1>2, <1>4, <2>1, <3>3 DEF HistoryInv, RunIsSound, MadeFrom
    <3> QED BY <3>2, <3>3
  <2> QED BY <1>1, <1>2, <2>1 DEF HistoryInv, RunIsSound, MadeFrom
<1>10. ContentsAreNewest' /\ SavedWhenBuilt'
  BY <1>1, <1>2 DEF HistoryInv, ContentsAreNewest, SavedWhenBuilt
<1> QED BY <1>5, <1>8, <1>9, <1>10 DEF HistoryInv

(* Every line that a run saves is sound: all its targets have been built.  *)
LEMMA HistoryWriteHashes ==
  ASSUME TypeOK, HistoryInv, WriteHashes
  PROVE  HistoryInv'
<1> USE ProjectAssumption
<1>1. UNCHANGED <<content, newest, output, md5hashes, bkp, md5hash, todo>>
  BY DEF WriteHashes, envVars, fileVars
<1>2. pc = "build" /\ todo = {} /\ pc' = "save"
      /\ unwritten' = [j \in DOMAIN SourceOrder |-> HashLine(SourceOrder[j])]
  BY DEF WriteHashes, BuildDone
<1>3. SoundLine' = SoundLine
  BY <1>1, SoundUnchanged
<1>4. ASSUME NEW j \in 1 .. Len(SourceOrder)
      PROVE  HashLine(SourceOrder[j]) \in SoundLine
  <2>1. SourceOrder[j] \in Source
    OBVIOUS
  <2>2. \A s \in Source : HashLine(s) \in Line
    BY DEF HashLine, Line, TypeOK
  <2>3. \A s \in Source : IsSound(HashLine(s))
    BY <1>2 DEF HashLine, IsSound, HistoryInv, RunIsSound
  <2> QED BY <2>1, <2>2, <2>3 DEF SoundLine
<1>5. unwritten' \in Seq(SoundLine)
  <2> DEFINE lines == [j \in 1 .. Len(SourceOrder) |-> HashLine(SourceOrder[j])]
  <2>1. DOMAIN SourceOrder = 1 .. Len(SourceOrder) /\ Len(SourceOrder) \in Nat
    OBVIOUS
  <2>2. lines \in [1 .. Len(SourceOrder) -> SoundLine]
    BY <1>4
  <2>3. unwritten' = lines
    BY <1>2, <2>1
  <2> HIDE DEF lines
  <2> QED BY <2>1, <2>2, <2>3, SeqDef
<1>6. LinesAreSound'
  BY <1>1, <1>3, <1>5 DEF HistoryInv, LinesAreSound
<1>7. RunIsSound'
  BY <1>1, <1>2 DEF HistoryInv, RunIsSound, MadeFrom
<1> QED
  BY <1>1, <1>2, <1>6, <1>7
     DEF HistoryInv, ContentsAreNewest, OutputsAreFromBelow, SavedWhenBuilt

(* What is left of the lines of a run, after fclose() or after a crash, is *)
(* appended to a file of sound lines.                                      *)
LEMMA HistorySaved ==
  ASSUME TypeOK, HistoryInv, Rename \/ Close \/ Crash
  PROVE  HistoryInv'
<1>1. UNCHANGED <<content, newest, output>>
  BY DEF Rename, Close, Crash, envVars
<1>2. SoundLine' = SoundLine
  BY <1>1, SoundUnchanged
<1>3. <<>> \in Seq(SoundLine)
  OBVIOUS
<1>4. SoundLine \in SUBSET Line
  BY DEF SoundLine
<1>5. \A file, lines \in Seq(SoundLine) : Appended(file, lines) \in Seq(SoundLine)
  BY <1>4, SoundKinds, AppendedKind
<1>6. Beginnings(unwritten) \subseteq Seq(SoundLine)
  BY <1>4, SoundKinds, BeginningsKind DEF HistoryInv, LinesAreSound
<1>7. LinesAreSound'
  <2>1. CASE Rename
    BY <1>2, <1>3, <2>1 DEF Rename, HistoryInv, LinesAreSound
  <2>2. CASE Close
    BY <1>2, <1>3, <1>5, <2>2 DEF Close, Exit, HistoryInv, LinesAreSound
  <2>3. CASE Crash
    <3>1. PICK lines \in Beginnings(unwritten) :
            \/ bkp' = Appended(bkp, lines) /\ md5hashes' = md5hashes
            \/ md5hashes' = Appended(md5hashes, lines) /\ bkp' = bkp
      BY <2>3 DEF Crash
    <3>2. lines \in Seq(SoundLine)
      BY <1>6
    <3>3. unwritten' = <<>>
      BY <2>3 DEF Crash, Exit
    <3>4. md5hashes' \in Seq(SoundLine) /\ bkp' \in Seq(SoundLine)
      BY <1>5, <3>1, <3>2 DEF HistoryInv, LinesAreSound
    <3> QED BY <1>2, <1>3, <3>3, <3>4 DEF LinesAreSound
  <2> QED BY <2>1, <2>2, <2>3
<1>8. RunIsSound' /\ SavedWhenBuilt'
  <2>1. CASE Rename
    BY <1>1, <2>1 DEF Rename, HistoryInv, RunIsSound, MadeFrom, SavedWhenBuilt
  <2>2. CASE Close \/ Crash
    BY <2>2 DEF Close, Crash, Exit, RunIsSound, SavedWhenBuilt
  <2> QED BY <2>1, <2>2
<1> QED
  BY <1>1, <1>7, <1>8
     DEF HistoryInv, ContentsAreNewest, OutputsAreFromBelow

LEMMA HistoryClean ==
  ASSUME TypeOK, HistoryInv, Clean
  PROVE  HistoryInv'
<1>1. /\ UNCHANGED <<content, newest, pc, md5hash, todo, unwritten>>
      /\ pc = "idle" /\ output' = [t \in Target |-> {}]
      /\ md5hashes' = <<>> /\ bkp' = <<>>
  BY DEF Clean, envVars, runVars
<1>2. <<>> \in Seq(SoundLine') /\ unwritten' = <<>>
  BY <1>1 DEF HistoryInv, SavedWhenBuilt
<1>3. SavedWhenBuilt' /\ RunIsSound' /\ ContentsAreNewest' /\ OutputsAreFromBelow'
  BY <1>1 DEF HistoryInv, SavedWhenBuilt, RunIsSound, ContentsAreNewest,
              OutputsAreFromBelow
<1> QED BY <1>1, <1>2, <1>3 DEF HistoryInv, LinesAreSound

(* A source that is edited gets a newer content than it ever had.          *)
LEMMA HistoryEdit ==
  ASSUME ~MayRevert, TypeOK, HistoryInv, NEW s \in Source, Edit(s)
  PROVE  HistoryInv'
<1> USE ProjectAssumption
<1>1. /\ UNCHANGED <<output, md5hashes, bkp, pc, md5hash, todo, unwritten>>
      /\ content' = [content EXCEPT ![s] = newest + 1]
      /\ newest' = newest + 1
  <2>1. PICK v \in Version : /\ MayRevert \/ v = newest + 1
                             /\ content' = [content EXCEPT ![s] = v]
                             /\ newest' = IF v > newest THEN v ELSE newest
    BY DEF Edit
  <2>2. v = newest + 1 /\ newest' = v
    BY <2>1 DEF TypeOK, Version
  <2> QED BY <2>1, <2>2 DEF Edit, fileVars, runVars
<1>2. \A x \in Source : content[x] <= content'[x] /\ content'[x] <= newest'
  BY <1>1 DEF TypeOK, Version, HistoryInv, ContentsAreNewest
<1>3. \A x \in Source : content[x] \in Int /\ content'[x] \in Int
  BY <1>1 DEF TypeOK, Version
<1>4. SoundLine \subseteq SoundLine'
  BY SMTT(20), <1>1, <1>2, <1>3 DEF SoundLine, Line, IsSound, MadeFrom, Version
<1>5. LinesAreSound'
  BY <1>1, <1>4, SeqMonotonic DEF HistoryInv, LinesAreSound
<1>6. OutputsAreFromBelow'
  BY <1>1, <1>2, <1>3 DEF HistoryInv, OutputsAreFromBelow, Version
<1>7. RunIsSound'
  BY <1>1, <1>2, <1>3 DEF HistoryInv, RunIsSound, MadeFrom, Version, TypeOK
<1> QED
  BY <1>1, <1>2, <1>5, <1>6, <1>7
     DEF HistoryInv, ContentsAreNewest, SavedWhenBuilt

LEMMA HistoryNext ==
  ASSUME ~MayRevert, ~MayFail, GoalsAreAll, TypeOK, HistoryInv, [Next]_vars
  PROVE  HistoryInv'
<1>1. ASSUME NEW goal \in Goal, StartRun(goal) PROVE HistoryInv'
  BY <1>1, HistoryStartRun
<1>2. ASSUME NEW t \in Target, RunCommand(t) PROVE HistoryInv'
  BY <1>2, HistoryRunCommand
<1>3. ASSUME WriteHashes PROVE HistoryInv'
  BY <1>3, HistoryWriteHashes
<1>4. ASSUME Rename \/ Close \/ Crash PROVE HistoryInv'
  BY <1>4, HistorySaved
<1>5. ASSUME Clean PROVE HistoryInv'
  BY <1>5, HistoryClean
<1>6. ASSUME NEW s \in Source, Edit(s) PROVE HistoryInv'
  BY <1>6, HistoryEdit
<1>7. ASSUME UNCHANGED vars PROVE HistoryInv'
  BY <1>7, SoundUnchanged
     DEF vars, envVars, fileVars, runVars, HistoryInv, ContentsAreNewest,
         OutputsAreFromBelow, LinesAreSound, RunIsSound, MadeFrom, SavedWhenBuilt
<1> QED BY <1>1, <1>2, <1>3, <1>4, <1>5, <1>6, <1>7 DEF Next, RunStep

LEMMA HistoryHolds ==
  ASSUME ~MayRevert, ~MayFail, GoalsAreAll
  PROVE  Spec => [](TypeOK /\ HistoryInv)
<1>1. TypeOK /\ HistoryInv /\ [Next]_vars => TypeOK' /\ HistoryInv'
  BY TypeNext, HistoryNext
<1> QED BY TypeInit, HistoryInit, <1>1, PTL DEF Spec

(* The hashes come after the commands: whatever is edited while a run      *)
(* works, and wherever a crash cuts off what it saves, no line says of a   *)
(* content that it was built when some output was not made from it or from *)
(* a later one.                                                            *)
THEOREM RecordsOfBuilds ==
  ASSUME ~MayRevert, ~MayFail, GoalsAreAll
  PROVE  Spec => []RecordsAreBuilt
<1>1. TypeOK /\ HistoryInv => RecordsAreBuilt
  <2>1. SUFFICES ASSUME TypeOK, HistoryInv,
                        NEW l \in ToSet(md5hashes) \cup ToSet(bkp),
                        l.src # Garbage, l.hash # Garbage,
                        NEW t \in Target, l.src \in Below[t]
                 PROVE  \E v \in l.hash .. LastVersion : <<l.src, v>> \in output[t]
    BY DEF RecordsAreBuilt
  <2>2. l \in SoundLine
    BY <2>1 DEF ToSet, HistoryInv, LinesAreSound
  <2>3. l.hash \in Version
    BY <2>1, <2>2 DEF SoundLine, Line
  <2>4. \E v \in Version : <<l.src, v>> \in output[t] /\ l.hash <= v
    BY <2>1, <2>2 DEF SoundLine, IsSound, MadeFrom
  <2>5. PICK v \in Version : <<l.src, v>> \in output[t] /\ l.hash <= v
    BY <2>4
  <2>6. v \in l.hash .. LastVersion
    BY <2>3, <2>5, ProjectAssumption DEF Version
  <2> QED BY <2>5, <2>6
<1> QED BY <1>1, HistoryHolds, PTL

(* Whatever is edited while a run works, and wherever a crash cuts off     *)
(* what it saves, the next run sees every source as changed whose content  *)
(* is not the one that the outputs above it were made from.                *)
THEOREM StaleIsNoticedAfterCrash ==
  ASSUME ~MayRevert, ~MayFail, GoalsAreAll
  PROVE  Spec => []StaleIsNoticed
<1>1. TypeOK /\ HistoryInv => StaleIsNoticed
  <2>1. SUFFICES ASSUME TypeOK, HistoryInv, NEW t \in Target,
                        NEW s \in Below[t] \cap Source, Recorded(s) = content[s]
                 PROVE  ~IsStale(t, s)
    BY DEF StaleIsNoticed
  <2>2. content[s] \in Version /\ content[s] # Garbage /\ s # Garbage
    BY <2>1, ProjectAssumption DEF TypeOK
  <2>3. PICK j \in 1 .. Len(md5hashes) :
          md5hashes[j].src = s /\ md5hashes[j].hash = content[s]
    BY <2>1, <2>2, RecordedLine DEF TypeOK
  <2>4. md5hashes[j] \in SoundLine
    BY <2>1, <2>3, ElementOfSeq DEF HistoryInv, LinesAreSound
  <2>5. MadeFrom(t, s, content[s])
    BY <2>1, <2>2, <2>3, <2>4 DEF SoundLine, IsSound
  <2>6. \A v \in Version : <<s, v>> \in output[t] => v = content[s]
    BY <2>1, <2>2, <2>5, ProjectAssumption
       DEF MadeFrom, HistoryInv, OutputsAreFromBelow, Version
  <2> QED BY <2>5, <2>6 DEF IsStale, MadeFrom
<1> QED BY <1>1, HistoryHolds, PTL

-----------------------------------------------------------------------------
(* What a run that comes to its end leaves to the next one *)

(* The lines in the buffer are those of the hashes that were calculated.   *)
Hashes == [j \in DOMAIN SourceOrder |-> HashLine(SourceOrder[j])]
WritingInv == pc \in {"save", "renamed"} => unwritten = Hashes

LEMMA WritingNext ==
  ASSUME WritingInv, [Next]_vars
  PROVE  WritingInv'
<1> USE DEF Hashes, WritingInv
<1>1. ASSUME NEW goal \in Goal, StartRun(goal) PROVE WritingInv'
  BY <1>1 DEF StartRun
<1>2. ASSUME NEW t \in Target, RunCommand(t) PROVE WritingInv'
  BY <1>2 DEF RunCommand, HashLine
<1>3. ASSUME WriteHashes PROVE WritingInv'
  BY <1>3 DEF WriteHashes, HashLine
<1>4. ASSUME Rename PROVE WritingInv'
  BY <1>4 DEF Rename, HashLine
<1>5. ASSUME Close \/ Crash PROVE WritingInv'
  BY <1>5 DEF Close, Crash, Exit
<1>6. ASSUME UNCHANGED runVars PROVE WritingInv'
  BY <1>6 DEF runVars, HashLine
<1> QED
  BY <1>1, <1>2, <1>3, <1>4, <1>5, <1>6 DEF Next, RunStep, Clean, Edit, vars

LEMMA WritingHolds == Spec => [](TypeOK /\ WritingInv)
<1>1. Init => WritingInv
  BY DEF Init, WritingInv
<1>2. TypeOK /\ WritingInv /\ [Next]_vars => TypeOK' /\ WritingInv'
  BY TypeNext, WritingNext
<1> QED BY TypeInit, <1>1, <1>2, PTL DEF Spec

(* Close leaves a line for each source after k others, but for the first   *)
(* one where it runs on from a line that was cut short.                    *)
EndsWithHashes(file, k, cut) ==
  /\ DOMAIN file = 1 .. k + Len(SourceOrder)
  /\ \A j \in DOMAIN SourceOrder :
       (cut /\ j = 1) \/ file[k + j] = HashLine(SourceOrder[j])

LEMMA CloseAppends ==
  ASSUME TypeOK, WritingInv, Close, SourceOrder # <<>>
  PROVE  \E k \in Nat : EndsWithHashes(md5hashes', k, IsCutShort(md5hashes))
<1> DEFINE m == Len(SourceOrder)
           n == Len(md5hashes)
<1>1. m \in Nat \ {0} /\ DOMAIN SourceOrder = 1 .. m
  BY ProjectAssumption
<1>2. n \in Nat /\ md5hashes \in Seq(Line) /\ DOMAIN md5hashes = 1 .. n
  BY DEF TypeOK
<1>3. unwritten = Hashes /\ md5hashes' = Appended(md5hashes, unwritten)
  BY DEF Close, WritingInv
<1>4. /\ unwritten \in Seq(Line) /\ Len(unwritten) = m /\ unwritten # <<>>
      /\ \A j \in 1 .. m : unwritten[j] = HashLine(SourceOrder[j])
  <2>1. unwritten \in Seq([src : Source, hash : Version, ended : {TRUE}])
    BY DEF TypeOK
  <2>2. DOMAIN unwritten = 1 .. m
    BY <1>1, <1>3 DEF Hashes
  <2>3. Len(unwritten) = m
    BY <1>1, <2>1, <2>2
  <2>4. \A j \in 1 .. m : unwritten[j] = HashLine(SourceOrder[j])
    BY <1>1, <1>3 DEF Hashes
  <2>5. [src : Source, hash : Version, ended : {TRUE}] \subseteq Line
    BY DEF Line
  <2>6. unwritten \in Seq(Line)
    <3> DEFINE K == [src : Source, hash : Version, ended : {TRUE}]
    <3>1. unwritten \in Seq(K) /\ K \subseteq Line
      BY <2>1, <2>5
    <3> HIDE DEF K
    <3> QED BY ONLY <3>1
  <2> HIDE DEF m
  <2>7. unwritten # <<>>
    BY <1>1, <2>3
  <2> QED BY <2>3, <2>4, <2>6, <2>7
<1>5. CASE IsCutShort(md5hashes)
  <2> DEFINE joined == [src |-> Last(md5hashes).src, hash |-> Garbage, ended |-> TRUE]
             front == Front(md5hashes)
             rest == Tail(unwritten)
  <2>1. md5hashes' = front \o <<joined>> \o rest
    BY <1>3, <1>4, <1>5 DEF Appended
  <2>2. n \in Nat \ {0} /\ front \in Seq(Line) /\ Len(front) = n - 1
    <3>1. md5hashes # <<>>
      BY <1>5 DEF IsCutShort
    <3> QED BY <1>2, <3>1 DEF Front
  <2>3. /\ rest \in Seq(Line) /\ Len(rest) = m - 1
        /\ \A j \in 2 .. m : rest[j - 1] = unwritten[j]
    <3> HIDE DEF m
    <3> QED BY <1>1, <1>4
  <2>4. joined \in Line
    <3>1. Last(md5hashes) \in Line
      BY <1>2, <2>2 DEF Last
    <3> QED BY <3>1 DEF Line
  <2> HIDE DEF joined, front, rest, m, n
  <2>5. front \o <<joined>> \in Seq(Line) /\ Len(front \o <<joined>>) = n
    BY ONLY <2>2, <2>4
  <2>6. md5hashes' \in Seq(Line) /\ Len(md5hashes') = n + (m - 1)
    <3> DEFINE start == front \o <<joined>>
    <3>1. start \in Seq(Line) /\ Len(start) = n
      BY <2>5
    <3> HIDE DEF start
    <3>2. start \o rest \in Seq(Line) /\ Len(start \o rest) = Len(start) + Len(rest)
      BY ONLY <2>3, <3>1
    <3> QED BY ONLY <2>1, <2>3, <3>1, <3>2 DEF start
  <2>7. DOMAIN md5hashes' = 1 .. (n - 1) + m
    BY ONLY <1>1, <2>2, <2>6
  <2>8. ASSUME NEW j \in 2 .. m PROVE md5hashes'[(n - 1) + j] = unwritten[j]
    <3>1. /\ (n - 1) + j \in 1 .. n + (m - 1) /\ (n - 1) + j > n
          /\ (n - 1) + j - n = j - 1 /\ j - 1 \in 1 .. m - 1
      BY ONLY <1>1, <2>2, j \in 2 .. m
    <3>2. md5hashes'[(n - 1) + j] = rest[(n - 1) + j - n]
      BY ONLY <2>1, <2>2, <2>3, <2>5, <3>1, <1>1
    <3> QED BY ONLY <2>3, <3>1, <3>2
  <2>9. \A j \in 1 .. m : j = 1 \/ md5hashes'[(n - 1) + j] = HashLine(SourceOrder[j])
    <3> SUFFICES ASSUME NEW j \in 1 .. m, j # 1
                 PROVE  md5hashes'[(n - 1) + j] = HashLine(SourceOrder[j])
      OBVIOUS
    <3>1. j \in 2 .. m
      BY ONLY <1>1, j \in 1 .. m, j # 1
    <3> QED BY <1>4, <2>8, <3>1
  <2>10. n - 1 \in Nat
    BY ONLY <2>2
  <2> QED BY <1>1, <1>5, <2>7, <2>9, <2>10 DEF EndsWithHashes, m
<1>6. CASE ~IsCutShort(md5hashes)
  <2>1. md5hashes' = md5hashes \o unwritten
    BY <1>3, <1>6 DEF Appended
  <2> HIDE DEF m, n
  <2>2. DOMAIN md5hashes' = 1 .. n + m
    <3>1. md5hashes' \in Seq(Line) /\ Len(md5hashes') = Len(md5hashes) + Len(unwritten)
      <4>1. md5hashes \in Seq(Line) /\ unwritten \in Seq(Line)
        BY <1>2, <1>4
      <4> QED BY ONLY <2>1, <4>1
    <3>2. DOMAIN md5hashes' = 1 .. Len(md5hashes')
      BY ONLY <3>1
    <3> QED BY ONLY <1>4, <3>1, <3>2 DEF n
  <2>3. ASSUME NEW j \in 1 .. m PROVE md5hashes'[n + j] = unwritten[j]
    <3>1. n + j \in 1 .. n + m /\ n + j > n /\ n + j - n = j
      BY ONLY <1>1, <1>2, j \in 1 .. m
    <3> QED BY <1>2, <1>4, <2>1, <3>1 DEF n
  <2> QED BY <1>1, <1>2, <1>4, <2>2, <2>3 DEF EndsWithHashes, m
<1> QED BY <1>5, <1>6

(* The last line of a source counts, and is the one that Close leaves.     *)
LEMMA RecordedAfterClose ==
  ASSUME TypeOK, WritingInv, Close, NEW s \in Source,
         s # SourceOrder[1] \/ ~IsCutShort(md5hashes)
  PROVE  Recorded(s)' = md5hash[s]
<1> DEFINE m == Len(SourceOrder)
           lines == LinesOf(s)'
<1>1. m \in Nat /\ DOMAIN SourceOrder = 1 .. m
  BY ProjectAssumption
<1>2. PICK first \in 1 .. m : SourceOrder[first] = s
  BY <1>1 DEF Source, ToSet
<1>3. SourceOrder # <<>>
  BY <1>1, <1>2
<1>4. PICK k \in Nat : EndsWithHashes(md5hashes', k, IsCutShort(md5hashes))
  BY <1>3, CloseAppends
<1>5. IsCutShort(md5hashes) => first # 1
  BY <1>2
<1>6. DOMAIN md5hashes' = 1 .. k + m
  BY <1>4 DEF EndsWithHashes
<1>7. \A j \in 1 .. m :
        j >= first => md5hashes'[k + j] = HashLine(SourceOrder[j])
  <2> SUFFICES ASSUME NEW j \in 1 .. m, j >= first
               PROVE  md5hashes'[k + j] = HashLine(SourceOrder[j])
    OBVIOUS
  <2>1. ~(IsCutShort(md5hashes) /\ j = 1)
    BY <1>1, <1>5
  <2> QED BY <1>1, <1>4, <2>1 DEF EndsWithHashes
<1>8. lines = {j \in 1 .. k + m : md5hashes'[j].src = s}
  BY <1>6 DEF LinesOf
<1> HIDE DEF m, lines
<1>9. first \in Nat /\ first >= 1 /\ first <= m /\ k + first \in 1 .. k + m
  BY ONLY <1>1, first \in 1 .. m, k \in Nat
<1>10. k + first \in lines
  <2>1. md5hashes'[k + first] = HashLine(s)
    BY <1>2, <1>7, <1>9
  <2> QED BY <1>8, <1>9, <2>1 DEF HashLine
<1>11. lines \in SUBSET Nat /\ lines # {} /\ k + m \in Nat /\ \A j \in lines : j <= k + m
  BY <1>1, <1>8, <1>10
<1>12. Max(lines) \in lines /\ \A j \in lines : j <= Max(lines)
  BY ONLY <1>11, GreatestNumber
<1>13. PICK last \in lines : last = Max(lines)
  BY <1>12
<1>14. last \in 1 .. k + m /\ md5hashes'[last].src = s /\ k + first <= last
  BY <1>8, <1>10, <1>12, <1>13
<1>15. last - k \in 1 .. m /\ last - k >= first /\ k + (last - k) = last
  BY ONLY <1>1, <1>9, <1>14, k \in Nat
<1>16. md5hashes'[last] = HashLine(SourceOrder[last - k])
  BY ONLY <1>7, <1>15
<1>17. md5hashes'[last].hash = md5hash[s]
  BY <1>14, <1>16 DEF HashLine
<1> QED BY <1>11, <1>13, <1>17 DEF Recorded, lines

(* A run that comes to its end leaves the hashes that it calculated to the *)
(* next run, whatever killed runs have left in the backup that it appends  *)
(* to, and wherever they were cut off; only the first source's can be      *)
(* lost, to a line that was cut short.                                     *)
THEOREM SavedIsCalculated == Spec => SavesWhatItCalculated
<1>1. TypeOK /\ WritingInv =>
        [Close => \A s \in Source :
           \/ Recorded(s)' = md5hash[s]
           \/ s = SourceOrder[1] /\ IsCutShort(md5hashes)]_vars
  BY RecordedAfterClose
<1> QED BY <1>1, WritingHolds, PTL DEF SavesWhatItCalculated

-----------------------------------------------------------------------------
(* Records and outputs when remodel is never killed *)

(* The backup exists only while hashes are saved, and nothing of them is   *)
(* in md5hashes before the buffer is written.                              *)
SavingInv ==
  /\ bkp = <<>>
  /\ pc = "renamed" => md5hashes = <<>>
  /\ pc \in {"save", "renamed"} => todo = {}

LEMMA SavingNext ==
  ASSUME ~MayCrash, SavingInv, [Next]_vars
  PROVE  SavingInv'
<1>1. ASSUME NEW goal \in Goal, StartRun(goal) PROVE SavingInv'
  BY <1>1 DEF StartRun, SavingInv, fileVars
<1>2. ASSUME NEW t \in Target, RunCommand(t) PROVE SavingInv'
  BY <1>2 DEF RunCommand, SavingInv, fileVars
<1>3. ASSUME WriteHashes PROVE SavingInv'
  BY <1>3 DEF WriteHashes, BuildDone, SavingInv, fileVars
<1>4. ASSUME Rename PROVE SavingInv'
  BY <1>4 DEF Rename, SavingInv
<1>5. ASSUME Close PROVE SavingInv'
  BY <1>5 DEF Close, Exit, SavingInv
<1>6. ASSUME Clean PROVE SavingInv'
  BY <1>6 DEF Clean, SavingInv, runVars
<1>7. ASSUME NEW s \in Source, Edit(s) PROVE SavingInv'
  BY <1>7 DEF Edit, SavingInv, fileVars, runVars
<1>8. ASSUME UNCHANGED vars PROVE SavingInv'
  BY <1>8 DEF SavingInv, vars, fileVars, runVars
<1> QED
  BY <1>1, <1>2, <1>3, <1>4, <1>5, <1>6, <1>7, <1>8 DEF Next, RunStep, Crash

LEMMA SavingHolds ==
  ASSUME ~MayCrash
  PROVE  Spec => [](TypeOK /\ WritingInv /\ SavingInv)
<1>1. Init => SavingInv
  BY DEF Init, SavingInv
<1>2. SavingInv /\ [Next]_vars => SavingInv'
  BY SavingNext
<1> QED BY <1>1, <1>2, WritingHolds, PTL DEF Spec

(* Between runs a record is of the content that was built.                 *)
MadeOf(t, s, k) ==
  \A v \in Version : <<s, v>> \in output[t] <=> v = k
ExactInv ==
  /\ \A t \in Target, s \in Source, v \in Version :
       <<s, v>> \in output[t] => s \in Below[t]
  /\ pc = "idle" =>
       \A t \in Target : \A s \in Below[t] \cap Source :
         Recorded(s) # Garbage => MadeOf(t, s, Recorded(s))
  /\ pc # "idle" =>
       /\ md5hash = content
       /\ \A t \in Target \ todo : \A s \in Below[t] \cap Source :
            MadeOf(t, s, content[s])

LEMMA ExactInit == Init => ExactInv
<1> SUFFICES ASSUME Init PROVE ExactInv
  OBVIOUS
<1>1. pc = "idle" /\ md5hashes = <<>> /\ output = [t \in Target |-> {}]
  BY DEF Init
<1>2. \A s \in Source : Recorded(s) = Garbage
  BY <1>1 DEF Recorded, LinesOf
<1> QED BY <1>1, <1>2 DEF ExactInv

LEMMA ExactRunCommand ==
  ASSUME ~MayFail, TypeOK, ExactInv, NEW t \in Target, RunCommand(t)
  PROVE  ExactInv'
<1> USE ProjectAssumption
<1> DEFINE made == {<<s, content[s]>> : s \in Reads[t]}
                     \cup UNION {output[u] : u \in Uses[t]}
<1>1. UNCHANGED <<content, md5hashes, pc, md5hash>>
  BY DEF RunCommand, envVars, fileVars
<1>2. pc = "build" /\ todo' = todo \ {t} /\ Uses[t] \cap todo = {}
      /\ output' = [output EXCEPT ![t] = made]
  BY DEF RunCommand
<1>3. \A s \in Source, v \in Version :
        <<s, v>> \in made
          <=> (s \in Reads[t] /\ v = content[s])
                \/ \E u \in Uses[t] : <<s, v>> \in output[u]
  <2>1. ASSUME NEW s \in Source, NEW v \in Version
        PROVE  <<s, v>> \in {<<x, content[x]>> : x \in Reads[t]}
                 <=> s \in Reads[t] /\ v = content[s]
    OBVIOUS
  <2> QED BY <2>1
<1>4. output'[t] = made /\ \A u \in Target \ {t} : output'[u] = output[u]
  BY <1>2 DEF TypeOK
<1> HIDE DEF made
<1>5. ASSUME NEW s \in Source, NEW v \in Version, <<s, v>> \in made
      PROVE  s \in Below[t] /\ v = content[s]
  <2>1. CASE s \in Reads[t] /\ v = content[s]
    BY <2>1, BelowByStep
  <2>2. CASE \E u \in Uses[t] : <<s, v>> \in output[u]
    <3>1. PICK u \in Uses[t] : <<s, v>> \in output[u]
      BY <2>2
    <3>2. u \in Target \ todo /\ s \in Below[u]
      BY <1>2, <3>1 DEF ExactInv
    <3>3. MadeOf(u, s, content[s])
      BY <1>2, <3>2 DEF ExactInv
    <3> QED BY <3>1, <3>2, <3>3, BelowByStep DEF MadeOf
  <2> QED BY <1>3, <1>5, <2>1, <2>2
<1>6. ASSUME NEW s \in Below[t] \cap Source
      PROVE  <<s, content[s]>> \in made
  <2>1. content[s] \in Version
    BY DEF TypeOK
  <2>2. CASE s \in Reads[t]
    BY <1>3, <2>1, <2>2
  <2>3. CASE \E u \in Uses[t] : s \in Below[u]
    <3>1. PICK u \in Uses[t] : s \in Below[u]
      BY <2>3
    <3>2. MadeOf(u, s, content[s])
      BY <1>2, <3>1 DEF ExactInv
    <3> QED BY <1>3, <2>1, <3>1, <3>2 DEF MadeOf
  <2> QED BY <2>2, <2>3, BelowByStep
<1>7. \A s \in Below[t] \cap Source : MadeOf(t, s, content[s])'
  BY <1>1, <1>4, <1>5, <1>6 DEF MadeOf
<1>8. ASSUME NEW u \in Target \ todo', NEW s \in Below[u] \cap Source
      PROVE  MadeOf(u, s, content[s])'
  BY <1>1, <1>2, <1>4, <1>7, <1>8 DEF ExactInv, MadeOf
<1> QED
  BY <1>1, <1>2, <1>4, <1>5, <1>8 DEF ExactInv, MadeOf

LEMMA ExactNext ==
  ASSUME ~MayCrash, ~MayEditInRun, ~MayFail, GoalsAreAll,
         TypeOK, WritingInv, SavingInv, ExactInv, [Next]_vars
  PROVE  ExactInv'
<1> USE ProjectAssumption
<1>1. ASSUME NEW goal \in Goal, StartRun(goal) PROVE ExactInv'
  <2>1. /\ UNCHANGED <<content, output>>
        /\ pc = "idle" /\ pc' = "build" /\ md5hash' = content
        /\ todo' = ToBuild(goal, content)
    BY <1>1 DEF StartRun, envVars
  <2>2. ASSUME NEW t \in Target \ todo', NEW s \in Below[t] \cap Source
        PROVE  MadeOf(t, s, content[s])
    <3>1. t \in {goal} \cup (Below[goal] \cap Target)
      BY DEF GoalsAreAll
    <3>2. Recorded(s) = content[s]
      BY <2>1, <2>2, <3>1 DEF ToBuild
    <3>3. content[s] # Garbage
      BY DEF TypeOK
    <3> QED BY <2>1, <3>2, <3>3 DEF ExactInv
  <2> QED BY <2>1, <2>2 DEF ExactInv, MadeOf
<1>2. ASSUME NEW t \in Target, RunCommand(t) PROVE ExactInv'
  BY <1>2, ExactRunCommand
<1>3. ASSUME WriteHashes \/ Rename PROVE ExactInv'
  BY <1>3 DEF WriteHashes, Rename, ExactInv, MadeOf, envVars
<1>4. ASSUME Close PROVE ExactInv'
  <2>1. /\ UNCHANGED <<content, output>>
        /\ pc = "renamed" /\ pc' = "idle" /\ todo = {} /\ md5hash = content
    BY <1>4 DEF Close, Exit, envVars, SavingInv, ExactInv
  <2>2. ~IsCutShort(md5hashes)
    BY <2>1 DEF SavingInv, IsCutShort
  <2>3. \A s \in Source : Recorded(s)' = content[s]
    BY <1>4, <2>1, <2>2, RecordedAfterClose
  <2>4. \A t \in Target : \A s \in Below[t] \cap Source : MadeOf(t, s, content[s])
    BY <2>1 DEF ExactInv
  <2> QED BY <2>1, <2>3, <2>4 DEF ExactInv, MadeOf
<1>5. ASSUME Clean PROVE ExactInv'
  <2>1. pc' = "idle" /\ md5hashes' = <<>> /\ output' = [t \in Target |-> {}]
    BY <1>5 DEF Clean, runVars
  <2>2. \A s \in Source : Recorded(s)' = Garbage
    BY <2>1 DEF Recorded, LinesOf
  <2> QED BY <2>1, <2>2 DEF ExactInv
<1>6. ASSUME NEW x \in Source, Edit(x) PROVE ExactInv'
  <2>1. pc = "idle" /\ UNCHANGED <<output, md5hashes, pc>>
    BY <1>6 DEF Edit, fileVars, runVars
  <2>2. \A s \in Source : Recorded(s)' = Recorded(s)
    BY <2>1 DEF Recorded, LinesOf
  <2> QED BY <2>1, <2>2 DEF ExactInv, MadeOf
<1>7. ASSUME UNCHANGED vars PROVE ExactInv'
  <2>1. UNCHANGED <<content, output, md5hashes, pc, md5hash, todo>>
    BY <1>7 DEF vars, envVars, fileVars, runVars
  <2>2. \A s \in Source : Recorded(s)' = Recorded(s)
    BY <2>1 DEF Recorded, LinesOf
  <2> QED BY <2>1, <2>2 DEF ExactInv, MadeOf
<1> QED
  BY <1>1, <1>2, <1>3, <1>4, <1>5, <1>6, <1>7 DEF Next, RunStep, Crash

(* Sources may get contents back that they had before, as when a change is *)
(* taken back, and outputs may be removed: as long as no run is killed and *)
(* nothing is edited while one works, the next run sees every source as    *)
(* changed whose content is not the one that the outputs were made from.   *)
THEOREM StaleIsNoticedAfterReverts ==
  ASSUME ~MayCrash, ~MayEditInRun, ~MayFail, GoalsAreAll
  PROVE  Spec => []StaleIsNoticed
<1> DEFINE Inv == TypeOK /\ WritingInv /\ SavingInv /\ ExactInv
<1>1. Inv /\ [Next]_vars => ExactInv'
  BY ExactNext
<1>2. Inv => StaleIsNoticed
  <2>1. SUFFICES ASSUME Inv, pc = "idle", NEW t \in Target,
                        NEW s \in Below[t] \cap Source, Recorded(s) = content[s]
                 PROVE  ~IsStale(t, s)
    BY DEF StaleIsNoticed
  <2>2. content[s] \in Version /\ content[s] # Garbage
    BY <2>1, ProjectAssumption DEF TypeOK
  <2>3. MadeOf(t, s, content[s])
    BY <2>1, <2>2 DEF ExactInv
  <2> QED BY <2>2, <2>3 DEF IsStale, MadeOf
<1> QED BY ExactInit, SavingHolds, <1>1, <1>2, PTL DEF Spec
=============================================================================
