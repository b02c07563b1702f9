---------------------------- MODULE Remodelfile ----------------------------
(***************************************************************************)
(* Reading the remodelfile: file_process_remodelfile() down to             *)
(* file_parse_line(), and the target list and source list that it leaves   *)
(* (file.c:23-237, maindefs.c).                                            *)
(*                                                                         *)
(* A line is a sequence of characters.  Those that the parser treats       *)
(* alike are one; letters stand for letters and for parts of names.  What  *)
(* malloc returns is counted, by what it is for.                           *)
(***************************************************************************)
EXTENDS Integers, Sequences, FiniteSets, SequencesExt

CONSTANTS
  Input        \* the files a run may find, with what they mean if known

Blank == {" ", "\t", "\n"}
Quote == "\""
(* "hi" is a byte above 127: char is signed, so it is less than ' '.       *)
Dropped == Blank \cup {"\r", "hi"}

(* An input: the files there are, by name, each a sequence of lines; and,  *)
(* for a file that follows the grammar, its productions (<<>> if it is not *)
(* known what the file means).                                             *)
ASSUME InputAssumption == \A in \in Input :
  /\ DOMAIN in.files \subseteq {"Remodelfile", "remodelfile"}
  /\ \A f \in DOMAIN in.files : in.files[f] \in Seq(Seq(STRING) \ {<<>>})
  /\ in.meaning \in Seq([targets : Seq(Seq(STRING)), deps : Seq(Seq(STRING)),
                         command : Seq(STRING)])

VARIABLES
  in,            \* the input
  pc,            \* where the reading is
  rest,          \* the lines that have not been read
  names,         \* the dependencies of this line that strtok has to give
  target_list,   \* what target_head leads to: a name, a command, dependencies
  srcfile_list,  \* what srcfile_head leads to: names
  ret,           \* the result
  live           \* how many buffers and list nodes of each kind there are

listVars == <<target_list, srcfile_list>>
vars == <<in, pc, rest, names, listVars, ret, live>>

Kind == {"dp_string", "command", "target", "dependency", "source"}
More(kinds) == [k \in Kind |-> IF k \in kinds THEN live[k] + 1 ELSE live[k]]

Init ==
  /\ in \in Input
  /\ pc = "open"
  /\ rest = <<>>
  /\ names = <<>>
  /\ target_list = <<>>
  /\ srcfile_list = <<>>
  /\ ret = "SUCCESS"
  /\ live = [k \in Kind |-> 0]

-----------------------------------------------------------------------------
(* Strings.  A definition marked "bug" is the one below it with a mistake  *)
(* in it; no action uses it.                                               *)

(* What scanf reads for %[^...]: up to the first of these characters       *)
Span(s, stop) ==
  LET hits == {j \in DOMAIN s : s[j] \in stop}
  IN  IF hits = {} THEN s
      ELSE SubSeq(s, 1, (CHOOSE j \in hits : \A k \in hits : j <= k) - 1)
Drop(s, n) == SubSeq(s, n + 1, Len(s))

(* What is behind literal, if s begins with it; scanf gives up otherwise.  *)
After(literal, s) ==
  IF IsPrefix(literal, s) THEN Drop(s, Len(literal)) ELSE <<>>
Occurs(t, s) == \E j \in 0 .. Len(s) - Len(t) : IsPrefix(t, Drop(s, j))

(* file_is_string_empty() and file_remove_extra_chars()                    *)
IsBlank(s) == \A j \in DOMAIN s : s[j] \in Blank
Nth(places, k) == CHOOSE j \in places : Cardinality({i \in places : i < j}) = k - 1
Strip(s) ==
  LET left == {j \in DOMAIN s : s[j] \notin Dropped}
  IN  [k \in 1 .. Cardinality(left) |-> s[Nth(left, k)]]

(* The names that begin at these places in s, each up to the next comma    *)
NamesAt(starts, s) ==
  [k \in 1 .. Cardinality(starts) |-> Span(Drop(s, Nth(starts, k) - 1), {","})]

(* bug: an empty name between two commas counts.                           *)
SplitAll(s) == NamesAt({j \in 1 .. Len(s) + 1 : j = 1 \/ s[j - 1] = ","}, s)

(* strtok(s, ",") *)
Split(s) ==
  NamesAt({j \in DOMAIN s : s[j] # "," /\ (j = 1 \/ s[j - 1] = ",")}, s)

(* check_dp_type(): the extension begins at the first dot.                 *)
IsSource(name) ==
  LET stem == Span(name, {"."})
  IN  Drop(name, Len(stem)) \in {<<".", "c">>, <<".", "h">>, <<".", "cpp">>}

(* The four formats of file_parse_line(), which are chosen by whether "<-:" *)
(* and ":" with a quote next to it are anywhere in the line.  They share   *)
(* the target and differ in whether there are dependencies, and in whether *)
(* something other than a quote must come between the colon and the quote. *)
Scan(line) ==
  LET target == Span(line, {"'", "<"})
      right == After(<<"<", "-">>, Drop(line, Len(target)))
      deps == IF Occurs(<<"<", "-", ":">>, line) THEN <<>> ELSE Span(right, {"'", ":"})
      gap == After(<<":">>, Drop(right, Len(deps)))
      quoted == IF Occurs(<<":", Quote>>, line) THEN gap
                ELSE Drop(gap, Len(Span(gap, {Quote})))
  IN  [target |-> target, deps |-> deps,
       command |-> Span(After(<<Quote>>, quoted), {Quote})]

(* A target's name, and dependencies or a command                          *)
IsProduction(line) ==
  /\ Strip(Scan(line).target) # <<>>
  /\ Strip(Scan(line).deps) # <<>> \/ ~IsBlank(Scan(line).command)

-----------------------------------------------------------------------------
(* bug: the second name is tried first.                                    *)
SmallFirst(files) == IF "remodelfile" \in DOMAIN files THEN "remodelfile" ELSE "Remodelfile"

(* file_get_remodelfile() *)
FileName(files) == IF "Remodelfile" \in DOMAIN files THEN "Remodelfile" ELSE "remodelfile"

OpenFile ==
  /\ pc = "open"
  /\ \/ /\ DOMAIN in.files = {}
        /\ ret' = "RM_NOFILEENT"
        /\ pc' = "end"
        /\ UNCHANGED rest
     \/ /\ DOMAIN in.files # {}
        /\ rest' = in.files[FileName(in.files)]
        /\ pc' = "read"
        /\ UNCHANGED ret
  /\ UNCHANGED <<in, names, listVars, live>>

(* getline() gives the next line; one without anything in it is skipped.   *)
SkipLine ==
  /\ pc = "read"
  /\ rest # <<>> /\ IsBlank(Head(rest))
  /\ rest' = Tail(rest)
  /\ UNCHANGED <<in, pc, names, listVars, ret, live>>

(* bug: the error path forgets the buffer of the command.                  *)
FreedOnError == More({"command"})

(* The buffers of a line that is not a production are freed.               *)
AfterError == live

(* A line that is not a production ends the reading.                       *)
RejectLine ==
  /\ pc = "read"
  /\ rest # <<>> /\ ~IsBlank(Head(rest)) /\ ~IsProduction(Head(rest))
  /\ ret' = "RM_PARSE_FAIL"
  /\ live' = AfterError
  /\ pc' = "end"
  /\ UNCHANGED <<in, rest, names, listVars>>

(* A production: its target goes to the front of the list, and keeps the   *)
(* buffer of the command.                                                  *)
AddTarget ==
  /\ pc = "read"
  /\ rest # <<>> /\ ~IsBlank(Head(rest)) /\ IsProduction(Head(rest))
  /\ LET scanned == Scan(Head(rest))
     IN  /\ target_list' = <<[name |-> Strip(scanned.target),
                              command |-> scanned.command,
                              deps |-> <<>>]>> \o target_list
         /\ names' = Split(Strip(scanned.deps))
  /\ live' = More({"dp_string", "command", "target"})
  /\ pc' = "deps"
  /\ UNCHANGED <<in, rest, srcfile_list, ret>>

(* bug: only the first source of the list is looked at.                    *)
IsFirstSource(name) == srcfile_list # <<>> /\ name = Head(srcfile_list)

(* add_src_node() finds the name in the source list.                       *)
IsListed(name) == \E j \in DOMAIN srcfile_list : srcfile_list[j] = name

(* bug: the node of a source that is listed already is not freed.          *)
KeepSource(name) ==
  /\ srcfile_list' = IF IsListed(name) THEN srcfile_list ELSE <<name>> \o srcfile_list
  /\ live' = More({"dependency", "source"})

AddSource(name) ==
  \/ /\ IsListed(name)
     /\ live' = More({"dependency"})
     /\ UNCHANGED srcfile_list
  \/ /\ ~IsListed(name)
     /\ live' = More({"dependency", "source"})
     /\ srcfile_list' = <<name>> \o srcfile_list

(* One turn of the loop over strtok: the dependency goes to the front of   *)
(* the target's list, and a source to the front of the source list.        *)
AddDependency ==
  /\ pc = "deps"
  /\ names # <<>>
  /\ target_list' = [target_list EXCEPT ![1].deps = <<Head(names)>> \o @]
  /\ \/ IsSource(Head(names)) /\ AddSource(Head(names))
     \/ /\ ~IsSource(Head(names))
        /\ live' = More({"dependency"})
        /\ UNCHANGED srcfile_list
  /\ names' = Tail(names)
  /\ UNCHANGED <<in, pc, rest, ret>>

EndLine ==
  /\ pc = "deps"
  /\ names = <<>>
  /\ live' = [live EXCEPT !["dp_string"] = @ - 1]
  /\ rest' = Tail(rest)
  /\ pc' = "read"
  /\ UNCHANGED <<in, names, listVars, ret>>

EndFile ==
  /\ pc = "read"
  /\ rest = <<>>
  /\ pc' = "end"
  /\ UNCHANGED <<in, rest, names, listVars, ret, live>>

Ended == pc = "end" /\ UNCHANGED vars

Next ==
  \/ OpenFile \/ SkipLine \/ RejectLine \/ AddTarget \/ AddDependency
  \/ EndLine \/ EndFile \/ Ended

Spec == Init /\ [][Next]_vars
-----------------------------------------------------------------------------
(* Properties *)

(* file_get_target(): the first of that name in the list, or NULL          *)
Found(name) == {j \in DOMAIN target_list : target_list[j].name = name}
GetTarget(name) == target_list[CHOOSE j \in Found(name) : \A k \in Found(name) : j <= k]

DepsOf(t) == ToSet(t.deps)
Named == UNION {DepsOf(t) : t \in ToSet(target_list)}

TypeOK ==
  /\ pc \in {"open", "read", "deps", "end"}
  /\ ret \in {"SUCCESS", "RM_NOFILEENT", "RM_PARSE_FAIL"}
  /\ live \in [Kind -> Nat]
  /\ \A t \in ToSet(target_list) : t.name # <<>> /\ <<>> \notin DepsOf(t)
  /\ <<>> \notin ToSet(srcfile_list) \cup ToSet(names)

(* README:22-25.  A file that follows the grammar is read, and means what  *)
(* it says, however blanks and empty lines are put into it: each target    *)
(* that a production names is found with its dependencies and its command, *)
(* the last production of a name being the one that counts.                *)
MeaningOf(name) ==
  LET those == {k \in DOMAIN in.meaning : name \in ToSet(in.meaning[k].targets)}
  IN  in.meaning[CHOOSE k \in those : \A j \in those : j <= k]
ReadsProductions ==
  pc = "end" /\ in.meaning # <<>> =>
    /\ ret = "SUCCESS"
    /\ \A p \in ToSet(in.meaning) : \A name \in ToSet(p.targets) :
         /\ Found(name) # {}
         /\ GetTarget(name).deps = Reverse(MeaningOf(name).deps)
         /\ GetTarget(name).command = MeaningOf(name).command

(* The grammar of README:22-25, for productions of one target, without     *)
(* regard to blanks: what is between two commas, or a comma and an end,    *)
(* is a name.                                                              *)
Fields(text) ==
  LET ends == {j \in 0 .. Len(text) + 1 : j \in {0, Len(text) + 1} \/ text[j] = ","}
  IN  [k \in 1 .. Cardinality(ends) - 1 |->
         SubSeq(text, Nth(ends, k) + 1, Nth(ends, k + 1) - 1)]
IsList(text, them) ==
  \/ them = <<>> /\ text = <<>>
  \/ them # <<>> /\ Fields(text) = them /\ <<>> \notin ToSet(them)

(* An arrow at a, a colon at c and a command between the quotes at q and r. *)
(* What chooses the format must not be elsewhere in the line: nothing but  *)
(* this tells "<-:" and a colon next to a quote in a command from those    *)
(* of the grammar.                                                         *)
HasCommand(line, a, c, q, r, p) ==
  /\ a + 1 < c /\ c < q /\ q < r
  /\ \A j \in a + 2 .. c - 1 : line[j] \notin {"'", ":"}
  /\ \A j \in c + 1 .. q - 1 : line[j] \in Blank
  /\ \A j \in q + 1 .. r - 1 : line[j] # Quote
  /\ Occurs(<<"<", "-", ":">>, line) => c = a + 2
  /\ Occurs(<<":", Quote>>, line) => q = c + 1
  /\ IsList(Strip(SubSeq(line, a + 2, c - 1)), p.deps)
  /\ p.command = SubSeq(line, q + 1, r - 1)
HasNoCommand(line, a, p) ==
  /\ \A j \in a + 2 .. Len(line) : line[j] \notin {"'", ":"}
  /\ IsList(Strip(SubSeq(line, a + 2, Len(line))), p.deps)
  /\ p.command = <<>>
Places(char, line) == {j \in DOMAIN line : line[j] = char}
IsWritten(line, p) ==
  \E a \in Places("<", line) :
    /\ a < Len(line) /\ line[a + 1] = "-"
    /\ \A j \in 1 .. a - 1 : line[j] \notin {"'", "<"}
    /\ p.targets = <<Strip(SubSeq(line, 1, a - 1))>> /\ <<>> \notin ToSet(p.targets)
    /\ p.deps # <<>> \/ ~IsBlank(p.command)
    /\ \/ HasNoCommand(line, a, p)
       \/ \E c \in Places(":", line), q, r \in Places(Quote, line) : HasCommand(line, a, c, q, r, p)

(* The lines that are not blank are the productions, one for each.         *)
Spells(lines, productions) ==
  LET written(n) == {j \in 1 .. n : ~IsBlank(lines[j])}
  IN  /\ Len(productions) = Cardinality(written(Len(lines)))
      /\ \A j \in written(Len(lines)) :
           IsWritten(lines[j], productions[Cardinality(written(j))])

(* Of two files the one with the capital letter counts.                    *)
FollowsGrammar(input) ==
  \E name \in DOMAIN input.files :
    /\ "Remodelfile" \in DOMAIN input.files => name = "Remodelfile"
    /\ Spells(input.files[name], input.meaning)

(* The two lists agree at the end of every line: the source list holds each *)
(* dependency that is a source, whatever target names it, and holds it     *)
(* once.  So the error of file.c:413 for a source that is not in the list  *)
(* cannot happen, and every source is hashed once (md5hash.c:33) and       *)
(* recorded on one line (md5hash.c:93).                                    *)
SourcesAreListed ==
  /\ \A j, k \in DOMAIN srcfile_list : srcfile_list[j] = srcfile_list[k] => j = k
  /\ ToSet(srcfile_list) = {d \in Named : IsSource(d)}

(* What is allocated between two lines, or when a line was rejected, is    *)
(* what the two lists lead to: no buffer is lost on any path through       *)
(* file_parse_line(), and every target owns the buffer of its command.     *)
DependencyNodes ==
  UNION {{j} \X DOMAIN target_list[j].deps : j \in DOMAIN target_list}
NothingIsLost ==
  pc \in {"read", "end"} =>
    /\ live["dp_string"] = 0
    /\ live["command"] = Len(target_list)
    /\ live["target"] = Len(target_list)
    /\ live["dependency"] = Cardinality(DependencyNodes)
    /\ live["source"] = Len(srcfile_list)

(* bug: the buffers hold what is right of the arrow, without the final 0.  *)
RightOfArrow(line) == Len(line) - 3

(* file.c:148-149: the size of dp_string and of command_string             *)
BufferSize(line) == Len(line)

(* The buffers have as many bytes as the line has characters, and none for *)
(* the 0 that ends a string: what scanf puts there fits all the same,      *)
(* because the target and the arrow never do.                              *)
ConversionsFit ==
  pc = "read" /\ rest # <<>> =>
    /\ Len(Scan(Head(rest)).deps) < BufferSize(Head(rest))
    /\ Len(Scan(Head(rest)).command) < BufferSize(Head(rest))
=============================================================================
