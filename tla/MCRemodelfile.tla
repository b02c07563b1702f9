--------------------------- MODULE MCRemodelfile ---------------------------
(* Files for Remodelfile.                                                  *)
EXTENDS Remodelfile, FiniteSetsExt

(* Every line of up to MaxLength of these characters, and of up to that     *)
(* many after the beginning of a production, with the end of line.         *)
CONSTANT MaxLength
Character == {"a", "c", ".", ",", "<", "-", ":", "\"", " ", "'"}
Unknown(file) == [files |-> [remodelfile |-> file], meaning |-> <<>>]
AnyLine ==
  {Unknown(<<start \o Append(s, "\n")>>) :
     start \in {<<>>, <<"a", "<", "-">>, <<"a", "<", "-", "c", ":">>},
     s \in UNION {[1 .. n -> Character] : n \in 0 .. MaxLength}}

(* A production, as README:23-25 has it, or without dependencies as in the *)
(* test cases, and the ways to write it: with and without a blank in each  *)
(* place where the README's example has one.                               *)
Gap == {<<>>, <<" ">>}
List(parts, gap) ==
  IF parts = <<>> THEN <<>>
  ELSE FoldLeft(LAMBDA s, p : s \o <<",">> \o gap \o p, Head(parts), Tail(parts))
Spellings(p) ==
  {List(p.targets, g) \o g \o <<"<", "-">> \o h \o List(p.deps, h)
     \o (IF p.command = <<>> THEN <<>>
         ELSE i \o <<":">> \o j \o <<"\"">> \o p.command \o <<"\"">>)
     \o <<"\n">> : g \in Gap, h \in Gap, i \in Gap, j \in Gap}

P(targets, deps, command) ==
  [targets |-> targets, deps |-> deps, command |-> command]
Obj == <<"a", ".", "o">>
Src == <<"a", ".", "c">>
Hdr == <<"b", ".", "h">>
OneTarget == {
  P(<<<<"a">>>>, <<Obj>>, <<>>),
  P(<<<<"a">>>>, <<Obj, Src>>, <<"a">>),
  P(<<Obj>>, <<Src>>, <<"a", " ", "-", "c">>),
  P(<<<<"c">>>>, <<>>, <<"a", " ", "*", ".", "o">>),
  P(<<Obj>>, <<Src, Hdr>>, <<"c", ",", "a">>),
  P(<<<<"-", "b">>>>, <<<<"b", ".", "c", ".", "c">>, Hdr, Hdr>>, <<"'">>)}

Lines(p) == {[line |-> s, of |-> p] : s \in Spellings(p)}
OneLine == UNION {Lines(p) : p \in OneTarget}
EmptyLines == {<<"\n">>, <<" ", "\t", "\n">>}
Following == {
  [files |-> [remodelfile |-> <<l.line, m.line>>], meaning |-> <<l.of, m.of>>]
    : l \in OneLine, m \in OneLine}
 \cup {[files |-> ("Remodelfile" :> <<l.line, e>>) @@ ("remodelfile" :> <<e>>),
        meaning |-> <<l.of>>] : l \in OneLine, e \in EmptyLines}

(* Files that a run cannot use, or not all of.                             *)
Odd == {
  [files |-> <<>>, meaning |-> <<>>],
  Unknown(<<>>),
  Unknown(<<<<"\r", "\n">>>>),
  Unknown(<<<<"a", "<", "-", "hi", "c", "\n">>, <<"\n">>, <<"a">>, <<"a", "<", "-", "c">>>>),
  Unknown(<<<<"a", "<", "-", ".", "c", "\n">>, <<"c", "<", "-", ".", "c", ",", ".", "h">>>>)}

AllInput == AnyLine \cup Following \cup Odd
ASSUME Followed == \A i \in Following : FollowsGrammar(i)

(* README:25: target ::= filename (',' filename)*                          *)
TwoTargets == {[files |-> [remodelfile |-> <<s>>], meaning |-> <<p>>] :
  s \in Spellings(P(<<<<"a">>, Obj>>, <<Src>>, <<"c">>)),
  p \in {P(<<<<"a">>, Obj>>, <<Src>>, <<"c">>)}}
=============================================================================
