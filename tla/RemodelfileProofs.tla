------------------------- MODULE RemodelfileProofs -------------------------
(***************************************************************************)
(* What Remodelfile promises, for every file: the lists it makes agree,    *)
(* nothing that it allocates is lost, and what it copies out of a line     *)
(* fits; and, for every file that follows the grammar, that it means what  *)
(* it says.                                                                *)
(***************************************************************************)
EXTENDS Remodelfile, FiniteSetTheorems, SequenceTheorems, Numbers

-----------------------------------------------------------------------------
(* Strings *)

LEMMA SeqValues ==
  ASSUME NEW S, NEW q \in Seq(S)
  PROVE  /\ DOMAIN q = 1 .. Len(q) /\ Len(q) \in Nat
         /\ \A x \in DOMAIN q : q[x] \in S
BY LenProperties, ElementOfSeq

(* The first characters of a string                                        *)
LEMMA FirstOf ==
  ASSUME NEW S, NEW s \in Seq(S), NEW n \in 0 .. Len(s)
  PROVE  SubSeq(s, 1, n) \in Seq(S) /\ Len(SubSeq(s, 1, n)) = n
<1>1. n \in Nat /\ n <= Len(s) /\ Len(s) \in Nat /\ \A i \in 1 .. n : s[i] \in S
  <2>1. DOMAIN s = 1 .. Len(s) /\ Len(s) \in Nat /\ \A x \in DOMAIN s : s[x] \in S
    BY SeqValues
  <2> QED BY <2>1
<1>2. /\ SubSeq(s, 1, n) \in Seq(S)
      /\ Len(SubSeq(s, 1, n)) = IF 1 <= n THEN n-1+1 ELSE 0
  BY ONLY <1>1, SubSeqProperties, 1 \in Int, n \in Int
<1> QED BY ONLY <1>1, <1>2

(* The others                                                              *)
LEMMA DropShortens ==
  ASSUME NEW S, NEW s \in Seq(S), NEW n \in 0 .. Len(s)
  PROVE  /\ Drop(s, n) \in Seq(S) /\ Len(Drop(s, n)) = Len(s) - n
         /\ \A i \in 1 .. Len(s) - n : Drop(s, n)[i] = s[n + i]
<1> DEFINE m == n + 1
           l == Len(s)
<1>1. n \in Nat /\ n <= l /\ l \in Nat /\ m \in Nat \ {0} /\ \A i \in m .. l : s[i] \in S
  <2>1. DOMAIN s = 1 .. l /\ l \in Nat /\ \A x \in DOMAIN s : s[x] \in S
    BY SeqValues
  <2> QED BY <2>1
<1>2. Drop(s, n) = SubSeq(s, m, l)
  BY DEF Drop
<1>3. m = n + 1
  OBVIOUS
<1> HIDE DEF m, l
<1>4. /\ SubSeq(s, m, l) \in Seq(S)
      /\ Len(SubSeq(s, m, l)) = IF m <= l THEN l-m+1 ELSE 0
      /\ \A i \in 1 .. l-m+1 : SubSeq(s, m, l)[i] = s[m+i-1]
  BY ONLY <1>1, SubSeqProperties, m \in Int, l \in Int
<1>5. /\ (IF m <= l THEN l-m+1 ELSE 0) = l - n /\ l-m+1 = l - n
      /\ \A i \in 1 .. l - n : m+i-1 = n + i
  BY ONLY <1>1, <1>3
<1> QED BY ONLY <1>2, <1>4, <1>5 DEF l

(* What %[^...] reads is a beginning of the string, which has something in *)
(* it unless the string stops at once.                                     *)
LEMMA SpanShortens ==
  ASSUME NEW S, NEW s \in Seq(S), NEW stop
  PROVE  /\ Span(s, stop) \in Seq(S) /\ Len(Span(s, stop)) \in 0 .. Len(s)
         /\ s # <<>> /\ s[1] \notin stop => Span(s, stop) # <<>>
<1> DEFINE hits == {j \in DOMAIN s : s[j] \in stop}
           First(j) == j \in hits /\ \A k \in hits : j <= k
           j == CHOOSE x \in hits : \A k \in hits : x <= k
<1>1. DOMAIN s = 1 .. Len(s) /\ Len(s) \in Nat
  BY SeqValues
<1>2. CASE hits = {}
  <2>1. Span(s, stop) = s
    BY <1>2 DEF Span
  <2> QED BY <1>1, <2>1
<1>3. CASE hits # {}
  <2>1. hits \in SUBSET Nat
    BY <1>1
  <2>2. \E x \in hits : \A k \in hits : x <= k
    <3> HIDE DEF hits
    <3> QED BY <1>3, <2>1, LeastNumber
  <2>3. j \in hits
    <3> HIDE DEF hits
    <3> QED BY <2>2
  <2>4. Span(s, stop) = SubSeq(s, 1, j - 1)
    BY <1>3 DEF Span
  <2>5. j \in 1 .. Len(s) /\ s[j] \in stop
    <3> HIDE DEF j
    <3> QED BY <1>1, <2>3
  <2> HIDE DEF j, hits
  <2>6. j - 1 \in 0 .. Len(s)
    BY ONLY <1>1, <2>5
  <2>7. SubSeq(s, 1, j - 1) \in Seq(S) /\ Len(SubSeq(s, 1, j - 1)) = j - 1
    BY <2>6, FirstOf
  <2>8. s[1] \notin stop => j - 1 # 0
    BY <1>1, <2>5
  <2>9. s[1] \notin stop => SubSeq(s, 1, j - 1) # <<>>
    BY ONLY <2>7, <2>8, Len(<<>>) = 0
  <2> QED BY <2>4, <2>6, <2>7, <2>9
<1> QED BY <1>2, <1>3

(* What is behind a literal is shorter by the literal, if it is there.     *)
LEMMA AfterShortens ==
  ASSUME NEW S, NEW s \in Seq(S), NEW literal, NEW n \in Nat, Len(literal) = n
  PROVE  /\ After(literal, s) \in Seq(S) /\ Len(After(literal, s)) \in 0 .. Len(s)
         /\ After(literal, s) = <<>> \/ Len(After(literal, s)) = Len(s) - n
<1>1. Len(s) \in Nat
  BY SeqValues
<1>2. CASE IsPrefix(literal, s)
  <2>1. n <= Len(s)
    BY <1>2 DEF IsPrefix
  <2>2. n \in 0 .. Len(s) /\ Len(s) - n \in 0 .. Len(s)
    BY <1>1, <2>1
  <2>3. After(literal, s) = Drop(s, n)
    BY <1>2 DEF After
  <2> QED BY <2>2, <2>3, DropShortens
<1>3. CASE ~IsPrefix(literal, s)
  <2>1. After(literal, s) = <<>> /\ <<>> \in Seq(S) /\ Len(<<>>) = 0 /\ 0 \in 0 .. Len(s)
    BY <1>1, <1>3 DEF After
  <2> QED BY <2>1
<1> QED BY <1>2, <1>3

(* The places in a list, in their order                                    *)
LEMMA NthIs ==
  ASSUME NEW l \in Nat, NEW places \in SUBSET (1 .. l)
  PROVE  /\ Cardinality(places) \in Nat
         /\ \A k \in 1 .. Cardinality(places) : Nth(places, k) \in places
<1> DEFINE R == {p \in places \X places : p[1] < p[2]}
<1>1. \A i \in places : i \in Nat /\ i <= l
  OBVIOUS
<1>2. IsFiniteSet(places)
  BY ONLY <1>1, FS_BoundedSetOfNaturals, l \in Nat, places \in SUBSET (1 .. l)
<1>3. \A i, j \in places : <<i, j>> \in R <=> i < j
  OBVIOUS
<1> HIDE DEF R
<1>4. IsOrder(R, places)
  <2>1. \A i, j, k \in places : /\ ~(i < i) /\ (i < j /\ j < k => i < k)
                                /\ (i # j => i < j \/ j < i)
    BY ONLY <1>1
  <2> QED BY ONLY <1>3, <2>1 DEF IsOrder
<1>5. /\ Cardinality(places) \in Nat
      /\ \A k \in 1 .. Cardinality(places) : Ranked(R, places, k) \in places
  BY <1>2, <1>4, RankedOnce
<1>6. \A k : Nth(places, k) = Ranked(R, places, k)
  <2>1. \A j \in places : {i \in places : i < j} = {i \in places : <<i, j>> \in R}
    BY <1>3
  <2> QED BY ONLY <2>1 DEF Nth, Ranked
<1> QED BY <1>5, <1>6

(* A list of what is at places in another                                  *)
LEMMA ListAt ==
  ASSUME NEW S, NEW c \in Nat, NEW q, \A k \in 1 .. c : q[k] \in S,
         q = [k \in 1 .. c |-> q[k]]
  PROVE  q \in Seq(S)
<1>1. PICK V : V = 1 .. c
  OBVIOUS
<1>2. q = [k \in V |-> q[k]] /\ \A k \in V : q[k] \in S
  BY ONLY <1>1, \A k \in 1 .. c : q[k] \in S, q = [k \in 1 .. c |-> q[k]]
<1>3. q \in [V -> S]
  BY ONLY <1>2
<1> QED BY ONLY <1>1, <1>3, SeqDef, c \in Nat

LEMMA StripType ==
  ASSUME NEW S, NEW s \in Seq(S)
  PROVE  Strip(s) \in Seq(S)
<1> DEFINE left == {j \in DOMAIN s : s[j] \notin Dropped}
           c == Cardinality(left)
           q == Strip(s)
<1>1. left \in SUBSET (1 .. Len(s)) /\ Len(s) \in Nat /\ \A j \in left : s[j] \in S
  BY SeqValues
<1>2. q = [k \in 1 .. c |-> s[Nth(left, k)]]
  BY DEF Strip
<1> HIDE DEF left, q
<1>3. c \in Nat /\ \A k \in 1 .. c : Nth(left, k) \in left
  BY <1>1, NthIs
<1> HIDE DEF c
<1>4. \A k \in 1 .. c : q[k] \in S
  BY ONLY <1>1, <1>2, <1>3
<1>5. q = [k \in 1 .. c |-> q[k]]
  BY ONLY <1>2
<1> QED BY <1>3, <1>4, <1>5, ListAt DEF q

(* strtok() gives no empty name.                                           *)
LEMMA SplitType ==
  ASSUME NEW S, NEW s \in Seq(S)
  PROVE  Split(s) \in Seq(Seq(S) \ {<<>>})
<1> DEFINE starts == {j \in DOMAIN s : s[j] # "," /\ (j = 1 \/ s[j - 1] = ",")}
           c == Cardinality(starts)
           q == Split(s)
           W(j) == Span(Drop(s, j - 1), {","})
<1>1. starts \in SUBSET (1 .. Len(s)) /\ Len(s) \in Nat /\ \A j \in starts : s[j] # ","
  BY SeqValues
<1>2. q = [k \in 1 .. c |-> W(Nth(starts, k))]
  BY DEF Split, NamesAt
<1> HIDE DEF starts, q
<1>3. c \in Nat /\ \A k \in 1 .. c : Nth(starts, k) \in starts
  BY <1>1, NthIs
<1>4. ASSUME NEW j \in starts PROVE W(j) \in Seq(S) \ {<<>>}
  <2> DEFINE n == j - 1
             d == Drop(s, n)
  <2>0. j \in 1 .. Len(s)
    BY <1>1
  <2>a. n = j - 1 /\ Len(s) \in Nat
    BY <1>1
  <2> HIDE DEF n
  <2>1. n \in 0 .. Len(s) /\ Len(s) - n \in Nat \ {0} /\ n + 1 = j /\ 1 \in 1 .. Len(s) - n
    <3>1. PICK l : l = Len(s)
      OBVIOUS
    <3>2. n \in 0 .. l /\ l - n \in Nat \ {0} /\ n + 1 = j /\ 1 \in 1 .. l - n
      BY ONLY <2>0, <2>a, <3>1
    <3> QED BY ONLY <3>1, <3>2
  <2>2. d \in Seq(S) /\ Len(d) = Len(s) - n /\ d[1] = s[n + 1]
    BY ONLY <2>1, DropShortens, s \in Seq(S)
  <2>3. d # <<>> /\ d[1] # ","
    BY ONLY <1>1, <2>1, <2>2, Len(<<>>) = 0, j \in starts
  <2> HIDE DEF d
  <2>4. Span(d, {","}) \in Seq(S) /\ Span(d, {","}) # <<>>
    BY <2>2, <2>3, SpanShortens
  <2> QED BY <2>4 DEF d, n
<1> HIDE DEF c, W
<1>5. \A k \in 1 .. c : q[k] \in Seq(S) \ {<<>>}
  BY ONLY <1>2, <1>3, <1>4
<1>6. q = [k \in 1 .. c |-> q[k]]
  BY ONLY <1>2
<1> QED BY <1>3, <1>5, <1>6, ListAt DEF q

(* What the four formats read is shorter than the line: the arrow, or the  *)
(* line's only character, is not in it.                                    *)
LEMMA ScanFits ==
  ASSUME NEW S, NEW line \in Seq(S)
  PROVE  /\ Scan(line).target \in Seq(S) /\ Scan(line).deps \in Seq(S)
         /\ Scan(line).command \in Seq(S)
         /\ line # <<>> => /\ Len(Scan(line).deps) < Len(line)
                           /\ Len(Scan(line).command) < Len(line)
<1> DEFINE target == Span(line, {"'", "<"})
           tail == Drop(line, Len(target))
           right == After(<<"<", "-">>, tail)
           deps == IF Occurs(<<"<", "-", ":">>, line) THEN <<>> ELSE Span(right, {"'", ":"})
           colon == Drop(right, Len(deps))
           gap == After(<<":">>, colon)
           quoted == IF Occurs(<<":", Quote>>, line) THEN gap
                     ELSE Drop(gap, Len(Span(gap, {Quote})))
           mark == After(<<Quote>>, quoted)
           command == Span(mark, {Quote})
<1>0. Scan(line).target = target /\ Scan(line).deps = deps /\ Scan(line).command = command
  BY DEF Scan
<1>a. Len(line) \in Nat /\ (line # <<>> => Len(line) # 0)
  BY SeqValues, EmptySeq
<1>1. target \in Seq(S) /\ Len(target) \in 0 .. Len(line)
  BY SpanShortens
<1> HIDE DEF target
<1>2. tail \in Seq(S) /\ Len(tail) \in 0 .. Len(line)
  <2>1. tail \in Seq(S) /\ Len(tail) = Len(line) - Len(target)
    BY <1>1, DropShortens
  <2> HIDE DEF tail
  <2> QED BY ONLY <1>a, <1>1, <2>1
<1> HIDE DEF tail
<1>3. /\ right \in Seq(S) /\ Len(right) \in Nat /\ (line # <<>> => Len(right) < Len(line))
  <2>1. Len(<<"<", "-">>) = 2 /\ 2 \in Nat
    OBVIOUS
  <2>2. /\ right \in Seq(S) /\ Len(right) \in 0 .. Len(tail)
        /\ right = <<>> \/ Len(right) = Len(tail) - 2
    BY ONLY <1>2, <2>1, AfterShortens
  <2> HIDE DEF right
  <2> QED BY ONLY <1>a, <1>2, <2>2, Len(<<>>) = 0
<1> HIDE DEF right
<1>4. deps \in Seq(S) /\ Len(deps) \in 0 .. Len(right)
  <2>1. Span(right, {"'", ":"}) \in Seq(S) /\ Len(Span(right, {"'", ":"})) \in 0 .. Len(right)
    BY <1>3, SpanShortens
  <2>2. <<>> \in Seq(S) /\ Len(<<>>) \in 0 .. Len(right)
    BY <1>3
  <2> QED BY <2>1, <2>2
<1> HIDE DEF deps
<1>5. colon \in Seq(S) /\ Len(colon) \in 0 .. Len(right)
  <2>1. colon \in Seq(S) /\ Len(colon) = Len(right) - Len(deps)
    BY <1>3, <1>4, DropShortens
  <2> HIDE DEF colon
  <2> QED BY ONLY <1>3, <1>4, <2>1
<1> HIDE DEF colon
<1>6. gap \in Seq(S) /\ Len(gap) \in 0 .. Len(right)
  <2>1. Len(<<":">>) = 1 /\ 1 \in Nat
    OBVIOUS
  <2>2. gap \in Seq(S) /\ Len(gap) \in 0 .. Len(colon)
    BY ONLY <1>5, <2>1, AfterShortens
  <2> HIDE DEF gap
  <2> QED BY ONLY <1>3, <1>5, <2>2
<1> HIDE DEF gap
<1>7. quoted \in Seq(S) /\ Len(quoted) \in 0 .. Len(right)
  <2> DEFINE u == Len(Span(gap, {Quote}))
  <2>1. u \in 0 .. Len(gap)
    BY <1>6, SpanShortens
  <2> HIDE DEF u
  <2>2. Drop(gap, u) \in Seq(S) /\ Len(Drop(gap, u)) = Len(gap) - u
    BY <1>6, <2>1, DropShortens
  <2>3. Len(gap) - u \in 0 .. Len(right)
    BY ONLY <1>3, <1>6, <2>1
  <2> QED BY <1>6, <2>2, <2>3 DEF u
<1> HIDE DEF quoted
<1>8. mark \in Seq(S) /\ Len(mark) \in 0 .. Len(right)
  <2>1. Len(<<Quote>>) = 1 /\ 1 \in Nat
    OBVIOUS
  <2>2. mark \in Seq(S) /\ Len(mark) \in 0 .. Len(quoted)
    BY ONLY <1>7, <2>1, AfterShortens
  <2> HIDE DEF mark
  <2> QED BY ONLY <1>3, <1>7, <2>2
<1> HIDE DEF mark
<1>9. command \in Seq(S) /\ Len(command) \in 0 .. Len(right)
  <2>1. command \in Seq(S) /\ Len(command) \in 0 .. Len(mark)
    BY <1>8, SpanShortens
  <2> HIDE DEF command
  <2> QED BY ONLY <1>3, <1>8, <2>1
<1> HIDE DEF command
<1>10. line # <<>> => Len(deps) < Len(line) /\ Len(command) < Len(line)
  BY ONLY <1>a, <1>3, <1>4, <1>9
<1> QED BY ONLY <1>0, <1>1, <1>4, <1>9, <1>10

-----------------------------------------------------------------------------
(* The lists *)

Text == Seq(STRING)
NonEmpty == Text \ {<<>>}
TargetRecord == [name : NonEmpty, command : Text, deps : Seq(NonEmpty)]

LEMMA InFront ==
  ASSUME NEW S, NEW x \in S, NEW q \in Seq(S)
  PROVE  /\ <<x>> \o q \in Seq(S) /\ <<x>> \o q # <<>>
         /\ Len(<<x>> \o q) = Len(q) + 1 /\ DOMAIN (<<x>> \o q) = 1 .. Len(q) + 1
         /\ (<<x>> \o q)[1] = x /\ \A j \in 1 .. Len(q) : (<<x>> \o q)[j + 1] = q[j]
         /\ ToSet(<<x>> \o q) = {x} \cup ToSet(q)
<1> DEFINE p == <<x>>
           r == p \o q
           l == Len(q)
<1>1. p \in Seq(S) /\ Len(p) = 1 /\ p[1] = x
  OBVIOUS
<1>2. l \in Nat /\ DOMAIN q = 1 .. l
  BY SeqValues
<1> HIDE DEF p
<1>3. /\ r \in Seq(S) /\ Len(r) = Len(p) + Len(q)
      /\ \A i \in 1 .. Len(p) + Len(q) : r[i] = IF i <= Len(p) THEN p[i] ELSE q[i - Len(p)]
  BY <1>1, ConcatProperties
<1>4. Len(r) = l + 1 /\ \A i \in 1 .. l + 1 : r[i] = IF i <= 1 THEN p[i] ELSE q[i - 1]
  <2>1. Len(p) + Len(q) = l + 1
    BY <1>1, <1>2
  <2> HIDE DEF l, r
  <2> QED BY <1>1, <1>3, <2>1
<1>5. DOMAIN r = 1 .. l + 1
  <2>1. DOMAIN r = 1 .. Len(r)
    BY <1>3, SeqValues
  <2> QED BY <1>4, <2>1
<1> HIDE DEF r, l
<1>6. r[1] = x
  <2>1. 1 \in 1 .. l + 1 /\ 1 <= 1
    BY ONLY <1>2
  <2> QED BY ONLY <1>1, <1>4, <2>1
<1>7. ASSUME NEW j \in 1 .. l PROVE r[j + 1] = q[j] /\ j + 1 \in 1 .. l + 1
  <2>1. j + 1 \in 1 .. l + 1 /\ ~(j + 1 <= 1) /\ (j + 1) - 1 = j
    BY ONLY <1>2, j \in 1 .. l
  <2> QED BY ONLY <1>4, <2>1
<1>8. ToSet(r) = {x} \cup ToSet(q)
  <2>1. ASSUME NEW i \in 1 .. l + 1 PROVE i = 1 \/ (i - 1 \in 1 .. l /\ r[i] = q[i - 1])
    <3>1. i = 1 \/ (i - 1 \in 1 .. l /\ ~(i <= 1))
      BY ONLY <1>2, i \in 1 .. l + 1
    <3> QED BY ONLY <1>4, <3>1, i \in 1 .. l + 1
  <2>2. \A y \in ToSet(r) : y \in {x} \cup ToSet(q)
    BY ONLY <1>2, <1>5, <1>6, <2>1 DEF ToSet
  <2>3. x \in ToSet(r)
    <3>1. 1 \in 1 .. l + 1
      BY ONLY <1>2
    <3> QED BY ONLY <1>5, <1>6, <3>1 DEF ToSet
  <2>4. \A y \in ToSet(q) : y \in ToSet(r)
    BY ONLY <1>2, <1>5, <1>7 DEF ToSet
  <2> QED BY ONLY <2>2, <2>3, <2>4
<1>9. r # <<>>
  <2>1. l + 1 # 0
    BY ONLY <1>2
  <2> QED BY ONLY <1>4, <2>1, Len(<<>>) = 0
<1> QED BY <1>3, <1>4, <1>5, <1>6, <1>7, <1>8, <1>9 DEF r, l, p

(* The dependencies of a list of targets, and the places they are at       *)
AllDeps(T) == UNION {ToSet(T[j].deps) : j \in DOMAIN T}
DepNodes(T) == UNION {{j} \X DOMAIN T[j].deps : j \in DOMAIN T}

LEMMA NamedIs == Named = AllDeps(target_list)
<1>1. \A d : d \in Named <=> \E j \in DOMAIN target_list : d \in ToSet(target_list[j].deps)
  BY DEF Named, DepsOf, ToSet
<1> QED BY <1>1 DEF AllDeps

(* A target without dependencies is put in front.                          *)
LEMMA TargetInFront ==
  ASSUME NEW T \in Seq(TargetRecord), IsFiniteSet(DepNodes(T)),
         NEW t \in TargetRecord, t.deps = <<>>, NEW T2, T2 = <<t>> \o T
  PROVE  /\ T2 \in Seq(TargetRecord) /\ T2 # <<>> /\ Len(T2) = Len(T) + 1
         /\ AllDeps(T2) = AllDeps(T)
         /\ IsFiniteSet(DepNodes(T2)) /\ Cardinality(DepNodes(T2)) = Cardinality(DepNodes(T))
<1> DEFINE l == Len(T)
<1>1. /\ T2 \in Seq(TargetRecord) /\ T2 # <<>> /\ Len(T2) = l + 1
      /\ DOMAIN T2 = 1 .. l + 1 /\ T2[1] = t /\ \A j \in 1 .. l : T2[j + 1] = T[j]
  BY InFront
<1>2. l \in Nat /\ DOMAIN T = 1 .. l
  BY SeqValues
<1> HIDE DEF l
<1>3. \A j \in 1 .. l : j + 1 \in 1 .. l + 1
  BY ONLY <1>2
<1>4. \A i \in 1 .. l + 1 : i = 1 \/ (i - 1 \in 1 .. l /\ (i - 1) + 1 = i)
  BY ONLY <1>2
<1>5. DOMAIN <<>> = {}
  OBVIOUS
<1>6. AllDeps(T2) = AllDeps(T)
  <2>1. ToSet(t.deps) = {}
    BY <1>5 DEF ToSet
  <2>2. ASSUME NEW i \in 1 .. l + 1, NEW d \in ToSet(T2[i].deps)
        PROVE  \E j \in 1 .. l : d \in ToSet(T[j].deps)
    <3>1. i # 1
      BY <1>1, <2>1, <2>2
    <3>2. i - 1 \in 1 .. l /\ T2[i] = T[i - 1]
      BY ONLY <1>1, <1>4, <3>1, i \in 1 .. l + 1
    <3> QED BY <2>2, <3>2
  <2>3. ASSUME NEW j \in 1 .. l, NEW d \in ToSet(T[j].deps)
        PROVE  \E i \in 1 .. l + 1 : d \in ToSet(T2[i].deps)
    BY <1>1, <1>3, <2>3
  <2>4. \A d : d \in AllDeps(T2) <=> \E i \in 1 .. l + 1 : d \in ToSet(T2[i].deps)
    BY <1>1 DEF AllDeps
  <2>5. \A d : d \in AllDeps(T) <=> \E j \in 1 .. l : d \in ToSet(T[j].deps)
    BY <1>2 DEF AllDeps
  <2>6. \A d \in AllDeps(T2) : d \in AllDeps(T)
    BY ONLY <2>2, <2>4, <2>5
  <2>7. \A d \in AllDeps(T) : d \in AllDeps(T2)
    BY ONLY <2>3, <2>4, <2>5
  <2> QED BY ONLY <2>6, <2>7
<1>7. \A p : p \in DepNodes(T) <=> \E j \in 1 .. l : \E k \in DOMAIN T[j].deps : p = <<j, k>>
  BY <1>2 DEF DepNodes
<1>8. \A p : p \in DepNodes(T2) <=> \E j \in 1 .. l : \E k \in DOMAIN T[j].deps : p = <<j + 1, k>>
  <2>1. \A p : p \in DepNodes(T2) <=>
                 \E i \in 1 .. l + 1 : \E k \in DOMAIN T2[i].deps : p = <<i, k>>
    BY <1>1 DEF DepNodes
  <2>2. ASSUME NEW p \in DepNodes(T2)
        PROVE  \E j \in 1 .. l : \E k \in DOMAIN T[j].deps : p = <<j + 1, k>>
    <3>1. PICK i \in 1 .. l + 1 : \E k \in DOMAIN T2[i].deps : p = <<i, k>>
      BY <2>1
    <3>2. i # 1
      BY <1>1, <1>5, <3>1
    <3>3. i - 1 \in 1 .. l /\ (i - 1) + 1 = i /\ T2[i] = T[i - 1]
      BY ONLY <1>1, <1>4, <3>2, i \in 1 .. l + 1
    <3> QED BY <3>1, <3>3
  <2>3. ASSUME NEW j \in 1 .. l, NEW k \in DOMAIN T[j].deps
        PROVE  <<j + 1, k>> \in DepNodes(T2)
    <3>1. j + 1 \in 1 .. l + 1 /\ k \in DOMAIN T2[j + 1].deps
      BY <1>1, <1>3
    <3> QED BY <2>1, <3>1
  <2> QED BY <2>2, <2>3
<1> DEFINE A == DepNodes(T)
           B == DepNodes(T2)
           f == [p \in A |-> <<p[1] + 1, p[2]>>]
<1>9. f \in [A -> B] /\ \A p \in A : f[p] = <<p[1] + 1, p[2]>>
  <2>1. ASSUME NEW p \in A PROVE <<p[1] + 1, p[2]>> \in B
    <3>1. PICK j \in 1 .. l : \E k \in DOMAIN T[j].deps : p = <<j, k>>
      BY <1>7
    <3>2. PICK k \in DOMAIN T[j].deps : p = <<j, k>>
      BY <3>1
    <3>3. <<p[1] + 1, p[2]>> = <<j + 1, k>>
      BY <3>2
    <3> QED BY <1>8, <3>3
  <2> HIDE DEF A, B
  <2> QED BY <2>1
<1>10. \A p \in A : p[1] \in Nat /\ p = <<p[1], p[2]>>
  BY <1>2, <1>7
<1>11. \A y \in B : \E p \in A : f[p] = y
  <2>1. ASSUME NEW y \in B PROVE \E p \in A : f[p] = y
    <3>1. PICK j \in 1 .. l : \E k \in DOMAIN T[j].deps : y = <<j + 1, k>>
      BY <1>8
    <3>2. PICK k \in DOMAIN T[j].deps : y = <<j + 1, k>>
      BY <3>1
    <3>3. <<j, k>> \in A
      BY <1>7
    <3>4. f[<<j, k>>] = <<j + 1, k>>
      BY <1>9, <3>3
    <3> QED BY <3>2, <3>3, <3>4
  <2> QED BY <2>1
<1> HIDE DEF A, B, f
<1>12. ASSUME NEW p \in A, NEW r \in A, f[p] = f[r] PROVE p = r
  <2>1. p[1] + 1 = r[1] + 1 /\ p[2] = r[2]
    BY <1>9, <1>12
  <2>2. p[1] = r[1]
    BY <1>10, <2>1
  <2> QED BY <1>10, <2>1, <2>2
<1>13. f \in Bijection(A, B)
  BY ONLY <1>9, <1>11, <1>12 DEF Bijection, Injection, Surjection, IsInjective
<1>14. ExistsBijection(A, B)
  BY <1>13 DEF ExistsBijection
<1>15. IsFiniteSet(B) /\ Cardinality(B) = Cardinality(A)
  <2>1. IsFiniteSet(A)
    BY DEF A
  <2> QED BY ONLY <1>14, <2>1, FS_Bijection
<1> QED BY <1>1, <1>6, <1>15 DEF A, B, l

(* The first target gets one more dependency.                              *)
LEMMA OneMoreDep ==
  ASSUME NEW T \in Seq(TargetRecord), T # <<>>, IsFiniteSet(DepNodes(T)),
         NEW d \in NonEmpty, NEW T2, T2 = [T EXCEPT ![1].deps = <<d>> \o @]
  PROVE  /\ T2 \in Seq(TargetRecord) /\ T2 # <<>> /\ Len(T2) = Len(T)
         /\ AllDeps(T2) = AllDeps(T) \cup {d}
         /\ IsFiniteSet(DepNodes(T2))
         /\ Cardinality(DepNodes(T2)) = Cardinality(DepNodes(T)) + 1
<1> DEFINE l == Len(T)
           q == T[1].deps
           r == <<d>> \o q
           c == Len(q)
           e == [T[1] EXCEPT !.deps = r]
<1>1. l \in Nat \ {0} /\ DOMAIN T = 1 .. l /\ 1 \in DOMAIN T /\ \A j \in DOMAIN T : T[j] \in TargetRecord
  <2>1. l \in Nat \ {0}
    BY EmptySeq
  <2> QED BY <2>1, SeqValues
<1>2. q \in Seq(NonEmpty)
  BY <1>1 DEF TargetRecord
<1>3. c \in Nat /\ DOMAIN q = 1 .. c
  BY <1>2, SeqValues
<1> HIDE DEF q
<1>4. /\ r \in Seq(NonEmpty) /\ DOMAIN r = 1 .. c + 1 /\ ToSet(r) = {d} \cup ToSet(q)
  BY <1>2, InFront
<1> HIDE DEF r
<1>5. e \in TargetRecord /\ e.deps = r
  BY <1>1, <1>4 DEF TargetRecord
<1>6. T2 = [T EXCEPT ![1] = e]
  BY DEF e, r, q
<1> HIDE DEF e, c, l
<1>7. /\ T2 \in Seq(TargetRecord) /\ Len(T2) = l /\ DOMAIN T2 = 1 .. l
      /\ \A j \in 1 .. l : T2[j] = IF j = 1 THEN e ELSE T[j]
  <2>1. 1 \in 1 .. l
    BY ONLY <1>1
  <2>2. T2 \in Seq(TargetRecord) /\ Len(T2) = l
        /\ \A j \in 1 .. l : T2[j] = IF j = 1 THEN e ELSE T[j]
    <3>1. /\ [T EXCEPT ![1] = e] \in Seq(TargetRecord)
          /\ Len([T EXCEPT ![1] = e]) = Len(T)
          /\ \A j \in 1 .. Len(T) : [T EXCEPT ![1] = e][j] = IF j = 1 THEN e ELSE T[j]
      BY ONLY <1>5, <2>1, T \in Seq(TargetRecord), ExceptSeq DEF l
    <3> QED BY ONLY <1>6, <3>1 DEF l
  <2> QED BY <2>2, SeqValues
<1>8. T2 # <<>>
  BY ONLY <1>1, <1>7, Len(<<>>) = 0
<1>9. AllDeps(T2) = AllDeps(T) \cup {d}
  <2>1. \A x : x \in AllDeps(T2) <=> \E j \in 1 .. l : x \in ToSet(T2[j].deps)
    BY <1>7 DEF AllDeps
  <2>2. \A x : x \in AllDeps(T) <=> \E j \in 1 .. l : x \in ToSet(T[j].deps)
    BY <1>1 DEF AllDeps
  <2>3. \A j \in 1 .. l : ToSet(T2[j].deps)
                            = IF j = 1 THEN {d} \cup ToSet(T[j].deps) ELSE ToSet(T[j].deps)
    BY <1>4, <1>5, <1>7 DEF q
  <2> QED BY ONLY <1>1, <2>1, <2>2, <2>3
<1>10. DepNodes(T2) = DepNodes(T) \cup {<<1, c + 1>>}
  <2>1. \A p : p \in DepNodes(T2) <=>
                 \E j \in 1 .. l : \E k \in DOMAIN T2[j].deps : p = <<j, k>>
    BY <1>7 DEF DepNodes
  <2>2. \A p : p \in DepNodes(T) <=> \E j \in 1 .. l : \E k \in DOMAIN T[j].deps : p = <<j, k>>
    BY <1>1 DEF DepNodes
  <2>3. \A j \in 1 .. l : DOMAIN T2[j].deps
                            = IF j = 1 THEN DOMAIN T[j].deps \cup {c + 1} ELSE DOMAIN T[j].deps
    <3>1. 1 .. c + 1 = (1 .. c) \cup {c + 1}
      BY ONLY <1>3
    <3>2. DOMAIN r = DOMAIN T[1].deps \cup {c + 1}
      BY <1>3, <1>4, <3>1 DEF q
    <3> QED BY <1>5, <1>7, <3>2
  <2>4. ASSUME NEW p \in DepNodes(T2) PROVE p \in DepNodes(T) \cup {<<1, c + 1>>}
    <3>1. PICK j \in 1 .. l : \E k \in DOMAIN T2[j].deps : p = <<j, k>>
      BY <2>1
    <3>2. PICK k \in DOMAIN T2[j].deps : p = <<j, k>>
      BY <3>1
    <3>3. k \in DOMAIN T[j].deps \/ (j = 1 /\ k = c + 1)
      BY <2>3
    <3> QED BY <2>2, <3>2, <3>3
  <2>5. ASSUME NEW p \in DepNodes(T) PROVE p \in DepNodes(T2)
    <3>1. PICK j \in 1 .. l : \E k \in DOMAIN T[j].deps : p = <<j, k>>
      BY <2>2
    <3>2. PICK k \in DOMAIN T[j].deps : p = <<j, k>>
      BY <3>1
    <3>3. k \in DOMAIN T2[j].deps
      BY <2>3
    <3> QED BY <2>1, <3>2, <3>3
  <2>6. <<1, c + 1>> \in DepNodes(T2)
    BY <1>1, <2>1, <2>3
  <2> QED BY ONLY <2>4, <2>5, <2>6
<1>11. <<1, c + 1>> \notin DepNodes(T)
  <2>1. c + 1 \notin 1 .. c
    BY ONLY <1>3
  <2>2. c + 1 \notin DOMAIN T[1].deps
    BY <1>3, <2>1 DEF q
  <2> QED BY <2>2 DEF DepNodes
<1>12. IsFiniteSet(DepNodes(T2)) /\ Cardinality(DepNodes(T2)) = Cardinality(DepNodes(T)) + 1
  <2> DEFINE X == DepNodes(T)
             y == <<1, c + 1>>
  <2>1. IsFiniteSet(X) /\ y \notin X /\ DepNodes(T2) = X \cup {y}
    BY <1>10, <1>11
  <2> HIDE DEF X, y
  <2> QED BY <2>1, FS_AddElement DEF X
<1> QED BY <1>7, <1>8, <1>9, <1>12 DEF l

-----------------------------------------------------------------------------
(* The invariant: what the state looks like; that the two lists agree; and *)
(* that the counts are what the two lists lead to, and the buffer of the   *)
(* line whose dependencies are being added.                                *)

Types ==
  /\ in \in Input
  /\ pc \in {"open", "read", "deps", "end"}
  /\ ret \in {"SUCCESS", "RM_NOFILEENT", "RM_PARSE_FAIL"}
  /\ rest \in Seq(NonEmpty)
  /\ names \in Seq(NonEmpty)
  /\ target_list \in Seq(TargetRecord)
  /\ srcfile_list \in Seq(NonEmpty)
  /\ live \in [Kind -> Nat]
  /\ pc = "deps" => target_list # <<>> /\ rest # <<>>

Agree(T, S) ==
  /\ \A j, k \in DOMAIN S : S[j] = S[k] => j = k
  /\ ToSet(S) = {d \in AllDeps(T) : IsSource(d)}

Counted(m, buffers, T, S) ==
  /\ IsFiniteSet(DepNodes(T))
  /\ m["dp_string"] = buffers
  /\ m["command"] = Len(T)
  /\ m["target"] = Len(T)
  /\ m["dependency"] = Cardinality(DepNodes(T))
  /\ m["source"] = Len(S)

Buffers(p) == IF p = "deps" THEN 1 ELSE 0

Inv ==
  /\ Types
  /\ Agree(target_list, srcfile_list)
  /\ Counted(live, Buffers(pc), target_list, srcfile_list)

LEMMA MoreIs ==
  ASSUME live \in [Kind -> Nat], NEW kinds
  PROVE  /\ More(kinds) \in [Kind -> Nat]
         /\ \A k \in Kind : More(kinds)[k] = IF k \in kinds THEN live[k] + 1 ELSE live[k]
<1>1. \A k \in Kind : live[k] \in Nat /\ live[k] + 1 \in Nat
  OBVIOUS
<1> QED BY <1>1 DEF More

(* What is in front of a list, and what is behind it                       *)
LEMMA HeadAndTail ==
  ASSUME NEW S, NEW q \in Seq(S), q # <<>>
  PROVE  Head(q) \in S /\ Tail(q) \in Seq(S)
BY HeadTailProperties

LEMMA Starts == Init => Inv
<1> SUFFICES ASSUME Init PROVE Inv
  OBVIOUS
<1>1. /\ <<>> \in Seq(NonEmpty) /\ <<>> \in Seq(TargetRecord)
      /\ Len(<<>>) = 0 /\ DOMAIN <<>> = {}
  OBVIOUS
<1>2. ToSet(<<>>) = {} /\ AllDeps(<<>>) = {} /\ DepNodes(<<>>) = {}
  BY <1>1 DEF ToSet, AllDeps, DepNodes
<1>3. Types
  BY <1>1 DEF Init, Types
<1>4. Agree(<<>>, <<>>)
  BY <1>1, <1>2 DEF Agree
<1>5. Counted(live, 0, <<>>, <<>>)
  <2>1. \A k \in Kind : live[k] = 0
    BY DEF Init
  <2>2. IsFiniteSet({}) /\ Cardinality({}) = 0
    BY FS_EmptySet
  <2> QED BY <1>1, <1>2, <2>1, <2>2 DEF Counted, Kind
<1>6. target_list = <<>> /\ srcfile_list = <<>> /\ Buffers(pc) = 0
  BY DEF Init, Buffers
<1> QED BY <1>3, <1>4, <1>5, <1>6 DEF Inv

(* The steps that leave both lists alone                                   *)
LEMMA Opens ==
  ASSUME Inv, OpenFile
  PROVE  Inv'
<1>1. rest' \in Seq(NonEmpty)
  <2>1. CASE DOMAIN in.files = {}
    BY <2>1 DEF OpenFile, Inv, Types
  <2>2. CASE DOMAIN in.files # {}
    <3>1. DOMAIN in.files \subseteq {"Remodelfile", "remodelfile"}
      BY InputAssumption DEF Inv, Types
    <3>2. FileName(in.files) \in DOMAIN in.files
      BY <2>2, <3>1 DEF FileName
    <3>3. in.files[FileName(in.files)] \in Seq(NonEmpty)
      BY <3>2, InputAssumption DEF Inv, Types, NonEmpty, Text
    <3>4. rest' = in.files[FileName(in.files)]
      BY <2>2 DEF OpenFile
    <3> QED BY <3>3, <3>4
  <2> QED BY <2>1, <2>2
<1>2. /\ pc' \in {"read", "end"} /\ ret' \in {"SUCCESS", "RM_NOFILEENT", "RM_PARSE_FAIL"}
      /\ UNCHANGED <<in, names, target_list, srcfile_list, live>>
  BY DEF OpenFile, Inv, Types, listVars
<1>3. Types'
  BY <1>1, <1>2 DEF Inv, Types
<1>4. Buffers(pc') = Buffers(pc)
  BY <1>2 DEF OpenFile, Buffers
<1> QED BY <1>2, <1>3, <1>4 DEF Inv

LEMMA Skips ==
  ASSUME Inv, SkipLine
  PROVE  Inv'
<1>1. rest' \in Seq(NonEmpty)
  BY HeadAndTail DEF Inv, Types, SkipLine
<1>2. pc = "read" /\ UNCHANGED <<in, pc, names, target_list, srcfile_list, ret, live>>
  BY DEF SkipLine, listVars
<1>3. Types'
  BY <1>1, <1>2 DEF Inv, Types
<1> QED BY <1>2, <1>3 DEF Inv

LEMMA Rejects ==
  ASSUME Inv, RejectLine
  PROVE  Inv'
<1>1. /\ pc = "read" /\ pc' = "end" /\ ret' = "RM_PARSE_FAIL"
      /\ UNCHANGED <<in, rest, names, target_list, srcfile_list, live>>
  BY DEF RejectLine, AfterError, listVars
<1>2. Types'
  BY <1>1 DEF Inv, Types
<1>3. Buffers(pc') = Buffers(pc)
  BY <1>1 DEF Buffers
<1> QED BY <1>1, <1>2, <1>3 DEF Inv

LEMMA EndsFile ==
  ASSUME Inv, EndFile
  PROVE  Inv'
<1>1. pc = "read" /\ pc' = "end" /\ UNCHANGED <<in, rest, names, target_list, srcfile_list, ret, live>>
  BY DEF EndFile, listVars
<1>2. Types'
  BY <1>1 DEF Inv, Types
<1>3. Buffers(pc') = Buffers(pc)
  BY <1>1 DEF Buffers
<1> QED BY <1>1, <1>2, <1>3 DEF Inv

LEMMA EndsLine ==
  ASSUME Inv, EndLine
  PROVE  Inv'
<1>1. /\ pc = "deps" /\ pc' = "read" /\ rest # <<>> /\ rest' = Tail(rest)
      /\ live' = [live EXCEPT !["dp_string"] = @ - 1]
      /\ UNCHANGED <<in, names, target_list, srcfile_list, ret>>
  BY DEF EndLine, listVars, Inv, Types
<1>2. rest' \in Seq(NonEmpty)
  BY <1>1, HeadAndTail DEF Inv, Types
<1>3. live["dp_string"] = 1 /\ live \in [Kind -> Nat] /\ "dp_string" \in Kind
  BY <1>1 DEF Inv, Types, Counted, Buffers, Kind
<1>4. /\ live' \in [Kind -> Nat] /\ live'["dp_string"] = 0
      /\ \A k \in Kind \ {"dp_string"} : live'[k] = live[k]
  BY ONLY <1>1, <1>3
<1>5. Types'
  BY <1>1, <1>2, <1>4 DEF Inv, Types
<1>6. Counted(live', 0, target_list, srcfile_list)
  BY <1>4 DEF Inv, Counted, Kind
<1>7. Buffers(pc') = 0
  BY <1>1 DEF Buffers
<1> QED BY <1>1, <1>5, <1>6, <1>7 DEF Inv

LEMMA Stutters ==
  ASSUME Inv, UNCHANGED vars
  PROVE  Inv'
<1>1. UNCHANGED <<in, pc, rest, names, target_list, srcfile_list, ret, live>>
  BY DEF vars, listVars
<1>2. Types'
  BY <1>1 DEF Inv, Types
<1> QED BY <1>1, <1>2 DEF Inv

(* A production: the name is what is left of it, which is something; the   *)
(* dependencies that strtok will give have something in them.              *)
LEMMA AddsTarget ==
  ASSUME Inv, AddTarget
  PROVE  Inv'
<1> DEFINE line == Head(rest)
           t == [name |-> Strip(Scan(line).target), command |-> Scan(line).command, deps |-> <<>>]
<1>1. /\ pc = "read" /\ pc' = "deps" /\ rest # <<>> /\ IsProduction(line)
      /\ target_list' = <<t>> \o target_list
      /\ names' = Split(Strip(Scan(line).deps))
      /\ live' = More({"dp_string", "command", "target"})
      /\ UNCHANGED <<in, rest, srcfile_list, ret>>
  BY DEF AddTarget
<1>2. line \in Text
  BY <1>1, HeadAndTail DEF Inv, Types, NonEmpty
<1> HIDE DEF line
<1>3. Scan(line).target \in Text /\ Scan(line).deps \in Text /\ Scan(line).command \in Text
  BY <1>2, ScanFits DEF Text
<1>4. t \in TargetRecord /\ t.deps = <<>>
  <2>1. Strip(Scan(line).target) \in NonEmpty
    BY <1>1, <1>3, StripType DEF IsProduction, NonEmpty, Text
  <2>2. <<>> \in Seq(NonEmpty)
    OBVIOUS
  <2> QED BY <1>3, <2>1, <2>2 DEF TargetRecord
<1>5. names' \in Seq(NonEmpty)
  <2>1. Strip(Scan(line).deps) \in Seq(STRING)
    BY <1>3, StripType DEF Text
  <2>2. Split(Strip(Scan(line).deps)) \in Seq(Seq(STRING) \ {<<>>})
    BY <2>1, SplitType
  <2> QED BY <1>1, <2>2 DEF NonEmpty, Text
<1> HIDE DEF t
<1>6. /\ target_list' \in Seq(TargetRecord) /\ target_list' # <<>>
      /\ Len(target_list') = Len(target_list) + 1
      /\ AllDeps(target_list') = AllDeps(target_list)
      /\ IsFiniteSet(DepNodes(target_list'))
      /\ Cardinality(DepNodes(target_list')) = Cardinality(DepNodes(target_list))
  <2>1. target_list \in Seq(TargetRecord) /\ IsFiniteSet(DepNodes(target_list))
    BY DEF Inv, Types, Counted
  <2> QED BY <1>1, <1>4, <2>1, TargetInFront
<1>7. /\ live \in [Kind -> Nat] /\ live' \in [Kind -> Nat]
      /\ \A k \in Kind : live'[k] = IF k \in {"dp_string", "command", "target"}
                                    THEN live[k] + 1 ELSE live[k]
  BY <1>1, MoreIs DEF Inv, Types
<1>8. Types'
  BY <1>1, <1>5, <1>6, <1>7 DEF Inv, Types
<1>9. Agree(target_list', srcfile_list')
  BY <1>1, <1>6 DEF Inv, Agree
<1>10. Counted(live', 1, target_list', srcfile_list')
  <2>1. Counted(live, 0, target_list, srcfile_list)
    BY <1>1 DEF Inv, Buffers
  <2>2. /\ live'["dp_string"] = live["dp_string"] + 1
        /\ live'["command"] = live["command"] + 1 /\ live'["target"] = live["target"] + 1
        /\ live'["dependency"] = live["dependency"] /\ live'["source"] = live["source"]
    BY <1>7 DEF Kind
  <2>3. live'["dp_string"] = 1
    BY <2>1, <2>2 DEF Counted
  <2> QED BY <1>1, <1>6, <2>1, <2>2, <2>3 DEF Counted
<1>11. Buffers(pc') = 1
  BY <1>1 DEF Buffers
<1> QED BY <1>8, <1>9, <1>10, <1>11 DEF Inv

(* A dependency: it goes to the list of sources if it is a source and is   *)
(* not there.                                                              *)
LEMMA AddsDependency ==
  ASSUME Inv, AddDependency
  PROVE  Inv'
<1> DEFINE name == Head(names)
           adds == IsSource(name) /\ ~IsListed(name)
<1>1. /\ pc = "deps" /\ names # <<>> /\ names' = Tail(names)
      /\ target_list' = [target_list EXCEPT ![1].deps = <<name>> \o @]
      /\ UNCHANGED <<in, pc, rest, ret>>
  BY DEF AddDependency
<1>2. /\ live' = More(IF adds THEN {"dependency", "source"} ELSE {"dependency"})
      /\ srcfile_list' = IF adds THEN <<name>> \o srcfile_list ELSE srcfile_list
  BY DEF AddDependency, AddSource
<1>3. name \in NonEmpty /\ names' \in Seq(NonEmpty)
  BY <1>1, HeadAndTail DEF Inv, Types
<1> HIDE DEF name
<1>4. /\ target_list' \in Seq(TargetRecord) /\ target_list' # <<>>
      /\ Len(target_list') = Len(target_list)
      /\ AllDeps(target_list') = AllDeps(target_list) \cup {name}
      /\ IsFiniteSet(DepNodes(target_list'))
      /\ Cardinality(DepNodes(target_list')) = Cardinality(DepNodes(target_list)) + 1
  <2>1. /\ target_list \in Seq(TargetRecord) /\ target_list # <<>>
        /\ IsFiniteSet(DepNodes(target_list))
    BY <1>1 DEF Inv, Types, Counted
  <2> QED BY <1>1, <1>3, <2>1, OneMoreDep
<1>5. srcfile_list \in Seq(NonEmpty) /\ Agree(target_list, srcfile_list)
  BY DEF Inv, Types
<1>6. IsListed(name) <=> name \in ToSet(srcfile_list)
  BY DEF IsListed, ToSet
<1>7. /\ live \in [Kind -> Nat] /\ live' \in [Kind -> Nat]
      /\ live'["dp_string"] = live["dp_string"] /\ live'["command"] = live["command"]
      /\ live'["target"] = live["target"] /\ live'["dependency"] = live["dependency"] + 1
      /\ live'["source"] = IF adds THEN live["source"] + 1 ELSE live["source"]
  <2>1. live \in [Kind -> Nat]
    BY DEF Inv, Types
  <2> DEFINE kinds == IF adds THEN {"dependency", "source"} ELSE {"dependency"}
  <2>2. /\ "dp_string" \notin kinds /\ "command" \notin kinds /\ "target" \notin kinds
        /\ "dependency" \in kinds /\ ("source" \in kinds <=> adds)
    OBVIOUS
  <2>3. live' = More(kinds)
    BY <1>2
  <2> HIDE DEF kinds, adds
  <2>4. /\ live' \in [Kind -> Nat]
        /\ \A k \in Kind : live'[k] = IF k \in kinds THEN live[k] + 1 ELSE live[k]
    BY <2>1, <2>3, MoreIs
  <2> QED BY <2>1, <2>2, <2>4 DEF Kind
<1>8. /\ srcfile_list' \in Seq(NonEmpty) /\ Agree(target_list', srcfile_list')
      /\ Len(srcfile_list') = IF adds THEN Len(srcfile_list) + 1 ELSE Len(srcfile_list)
  <2>1. CASE adds
    <3> DEFINE l == Len(srcfile_list)
    <3>1. l \in Nat /\ DOMAIN srcfile_list = 1 .. l
      BY <1>5, SeqValues
    <3>2. srcfile_list' = <<name>> \o srcfile_list
      BY <1>2, <2>1
    <3>3. /\ srcfile_list' \in Seq(NonEmpty) /\ Len(srcfile_list') = l + 1
          /\ DOMAIN srcfile_list' = 1 .. l + 1
          /\ srcfile_list'[1] = name /\ \A j \in 1 .. l : srcfile_list'[j + 1] = srcfile_list[j]
          /\ ToSet(srcfile_list') = {name} \cup ToSet(srcfile_list)
      BY <1>3, <1>5, <3>2, InFront
    <3>4. ToSet(srcfile_list') = {d \in AllDeps(target_list') : IsSource(d)}
      BY <1>4, <1>5, <2>1, <3>3 DEF Agree
    <3>5. \A j \in 1 .. l : srcfile_list[j] # name
      BY <1>6, <2>1, <3>1 DEF ToSet
    <3>6. \A j, k \in 1 .. l : srcfile_list[j] = srcfile_list[k] => j = k
      BY <1>5, <3>1 DEF Agree
    <3> HIDE DEF l
    <3>7. \A i \in 1 .. l + 1 : i = 1 \/ (i - 1 \in 1 .. l /\ (i - 1) + 1 = i)
      BY ONLY <3>1
    <3>8. ASSUME NEW j \in 1 .. l + 1, NEW k \in 1 .. l + 1, srcfile_list'[j] = srcfile_list'[k]
          PROVE  j = k
      <4>1. CASE j = 1 /\ k = 1
        BY <4>1
      <4>2. CASE j = 1 /\ k # 1
        <5>1. k - 1 \in 1 .. l /\ srcfile_list'[k] = srcfile_list[k - 1]
          BY ONLY <3>3, <3>7, <4>2, k \in 1 .. l + 1
        <5> QED BY <3>3, <3>5, <3>8, <4>2, <5>1
      <4>3. CASE j # 1 /\ k = 1
        <5>1. j - 1 \in 1 .. l /\ srcfile_list'[j] = srcfile_list[j - 1]
          BY ONLY <3>3, <3>7, <4>3, j \in 1 .. l + 1
        <5> QED BY <3>3, <3>5, <3>8, <4>3, <5>1
      <4>4. CASE j # 1 /\ k # 1
        <5>1. j - 1 \in 1 .. l /\ (j - 1) + 1 = j /\ srcfile_list'[j] = srcfile_list[j - 1]
          BY ONLY <3>3, <3>7, <4>4, j \in 1 .. l + 1
        <5>2. k - 1 \in 1 .. l /\ (k - 1) + 1 = k /\ srcfile_list'[k] = srcfile_list[k - 1]
          BY ONLY <3>3, <3>7, <4>4, k \in 1 .. l + 1
        <5>3. j - 1 = k - 1
          BY <3>6, <3>8, <5>1, <5>2
        <5> QED BY ONLY <5>1, <5>2, <5>3
      <4> QED BY <4>1, <4>2, <4>3, <4>4
    <3> QED BY <2>1, <3>3, <3>4, <3>8 DEF Agree, l
  <2>2. CASE ~adds
    <3>1. srcfile_list' = srcfile_list
      BY <1>2, <2>2
    <3>2. IsSource(name) => name \in ToSet(srcfile_list)
      BY <1>6, <2>2
    <3>3. ToSet(srcfile_list) = {d \in AllDeps(target_list') : IsSource(d)}
      BY <1>4, <1>5, <3>2 DEF Agree
    <3> QED BY <1>5, <2>2, <3>1, <3>3 DEF Agree
  <2> QED BY <2>1, <2>2
<1> HIDE DEF adds
<1>9. Types'
  BY <1>1, <1>3, <1>4, <1>7, <1>8 DEF Inv, Types
<1>10. Counted(live', 1, target_list', srcfile_list')
  <2>1. Counted(live, 1, target_list, srcfile_list)
    BY <1>1 DEF Inv, Buffers
  <2> QED BY <1>4, <1>7, <1>8, <2>1 DEF Counted
<1>11. Buffers(pc') = 1
  BY <1>1 DEF Buffers
<1> QED BY <1>8, <1>9, <1>10, <1>11 DEF Inv

LEMMA Invariant == Spec => []Inv
<1>1. ASSUME Inv, [Next]_vars PROVE Inv'
  <2>1. CASE OpenFile BY <1>1, <2>1, Opens
  <2>2. CASE SkipLine BY <1>1, <2>2, Skips
  <2>3. CASE RejectLine BY <1>1, <2>3, Rejects
  <2>4. CASE AddTarget BY <1>1, <2>4, AddsTarget
  <2>5. CASE AddDependency BY <1>1, <2>5, AddsDependency
  <2>6. CASE EndLine BY <1>1, <2>6, EndsLine
  <2>7. CASE EndFile BY <1>1, <2>7, EndsFile
  <2>8. CASE Ended BY <1>1, <2>8, Stutters DEF Ended
  <2>9. CASE UNCHANGED vars BY <1>1, <2>9, Stutters
  <2> QED BY <1>1, <2>1, <2>2, <2>3, <2>4, <2>5, <2>6, <2>7, <2>8, <2>9 DEF Next
<1> QED BY <1>1, Starts, PTL DEF Spec

-----------------------------------------------------------------------------
(* What is written in a line *)

(* A part of a string, from behind n to m                                  *)
LEMMA PartOf ==
  ASSUME NEW S, NEW s \in Seq(S), NEW n \in Nat, NEW m \in n .. Len(s)
  PROVE  /\ SubSeq(s, n + 1, m) \in Seq(S) /\ Len(SubSeq(s, n + 1, m)) = m - n
         /\ \A i \in 1 .. m - n : SubSeq(s, n + 1, m)[i] = s[n + i]
<1> DEFINE l == Len(s)
           a == n + 1
<1>1. l \in Nat /\ m \in n .. l /\ n \in Nat /\ m \in Int /\ a \in Int /\ a = n + 1
  BY SeqValues
<1>2. \A i \in a .. m : s[i] \in S
  <2>1. \A i \in 1 .. l : s[i] \in S
    BY SeqValues
  <2> HIDE DEF l, a
  <2>2. \A i \in a .. m : i \in 1 .. l
    BY ONLY <1>1
  <2> QED BY ONLY <2>1, <2>2
<1>3. (IF a <= m THEN m - a + 1 ELSE 0) = m - n /\ m - a + 1 = m - n
      /\ \A i \in 1 .. m - n : a + i - 1 = n + i
  <2> HIDE DEF l, a
  <2> QED BY ONLY <1>1
<1> HIDE DEF a, l
<1>4. /\ SubSeq(s, a, m) \in Seq(S)
      /\ Len(SubSeq(s, a, m)) = IF a <= m THEN m - a + 1 ELSE 0
      /\ \A i \in 1 .. m - a + 1 : SubSeq(s, a, m)[i] = s[a + i - 1]
  BY ONLY <1>1, <1>2, SubSeqProperties
<1> QED BY ONLY <1>3, <1>4 DEF a

(* What is behind k characters of what is behind n                         *)
LEMMA DropDrop ==
  ASSUME NEW S, NEW s \in Seq(S), NEW n \in Nat, NEW k \in Nat, n + k <= Len(s)
  PROVE  Drop(Drop(s, n), k) = Drop(s, n + k)
<1> DEFINE l == Len(s)
           d == Drop(s, n)
           u == Drop(d, k)
           v == Drop(s, n + k)
<1>1. l \in Nat /\ n + k <= l /\ n \in Nat /\ k \in Nat
  BY SeqValues
<1> HIDE DEF l
<1>2. n \in 0 .. l /\ k \in 0 .. l - n /\ n + k \in 0 .. l /\ (l - n) - k = l - (n + k)
      /\ \A i \in 1 .. l - (n + k) : k + i \in 1 .. l - n /\ n + (k + i) = (n + k) + i
  BY ONLY <1>1
<1>3. d \in Seq(S) /\ Len(d) = l - n /\ \A i \in 1 .. l - n : d[i] = s[n + i]
  BY <1>2, DropShortens DEF l
<1> HIDE DEF d
<1>4. u \in Seq(S) /\ Len(u) = (l - n) - k /\ \A i \in 1 .. (l - n) - k : u[i] = d[k + i]
  <2>1. k \in 0 .. Len(d)
    BY <1>2, <1>3
  <2>2. u \in Seq(S) /\ Len(u) = Len(d) - k /\ \A i \in 1 .. Len(d) - k : u[i] = d[k + i]
    <3>1. d \in Seq(S)
      BY <1>3
    <3> QED BY ONLY <2>1, <3>1, DropShortens
  <2> HIDE DEF u
  <2> QED BY ONLY <1>3, <2>2
<1>5. /\ v \in Seq(S) /\ Len(v) = l - (n + k)
      /\ \A i \in 1 .. l - (n + k) : v[i] = s[(n + k) + i]
  BY <1>2, DropShortens DEF l
<1> HIDE DEF u, v
<1>6. \A i \in 1 .. l - (n + k) : u[i] = v[i]
  BY ONLY <1>2, <1>3, <1>4, <1>5
<1>7. u = v
  BY ONLY <1>2, <1>4, <1>5, <1>6, SeqEqual
<1> QED BY ONLY <1>7 DEF u, v, d

(* %[^...] reads the part that has none of the characters.                 *)
StopsAt(S, s, n, m, stop) ==
  /\ s \in Seq(S) /\ n \in Nat /\ m \in n .. Len(s)
  /\ \A j \in n + 1 .. m : s[j] \notin stop
  /\ m = Len(s) \/ s[m + 1] \in stop
LEMMA SpanIs ==
  ASSUME NEW S, NEW s, NEW n, NEW m, NEW stop, StopsAt(S, s, n, m, stop)
  PROVE  Span(Drop(s, n), stop) = SubSeq(s, n + 1, m)
<1>0. /\ s \in Seq(S) /\ n \in Nat /\ m \in n .. Len(s)
      /\ \A j \in n + 1 .. m : s[j] \notin stop
      /\ m = Len(s) \/ s[m + 1] \in stop
  BY DEF StopsAt
<1> DEFINE l == Len(s)
           d == Drop(s, n)
           hits == {j \in DOMAIN d : d[j] \in stop}
           w == m - n
           p == SubSeq(s, n + 1, m)
<1>1. l \in Nat /\ n \in Nat /\ m \in n .. l /\ n \in 0 .. l /\ w = m - n
  <2>1. l \in Nat
    BY <1>0, SeqValues
  <2>2. n \in 0 .. l
    BY ONLY <1>0, <2>1
  <2> QED BY ONLY <1>0, <2>1, <2>2
<1> HIDE DEF w
<1>2. d \in Seq(S) /\ Len(d) = l - n /\ \A i \in 1 .. l - n : d[i] = s[n + i]
  <2>1. s \in Seq(S) /\ n \in 0 .. Len(s)
    BY <1>0, <1>1
  <2> QED BY ONLY <2>1, DropShortens DEF d, l
<1>3. p \in Seq(S) /\ Len(p) = w /\ \A i \in 1 .. w : p[i] = s[n + i]
  <2>1. p \in Seq(S) /\ Len(p) = m - n /\ \A i \in 1 .. m - n : p[i] = s[n + i]
    BY ONLY <1>0, PartOf DEF p
  <2> HIDE DEF p
  <2> QED BY ONLY <1>1, <2>1
<1>4. DOMAIN d = 1 .. l - n
  BY <1>2, SeqValues
<1>5. m = l \/ s[m + 1] \in stop
  BY ONLY <1>0 DEF l
<1> HIDE DEF d, p, l
<1>6. w \in 0 .. l - n /\ \A i \in 1 .. w : n + i \in n + 1 .. m
  BY ONLY <1>1
<1>7. \A i \in 1 .. w : i \notin hits
  <2>1. ASSUME NEW i \in 1 .. w PROVE d[i] \notin stop
    <3>1. i \in 1 .. l - n
      BY ONLY <1>1, i \in 1 .. w
    <3>2. d[i] = s[n + i] /\ n + i \in n + 1 .. m
      BY ONLY <1>2, <1>6, <3>1, i \in 1 .. w
    <3> QED BY ONLY <1>0, <3>2
  <2> QED BY <2>1
<1>8. CASE m = l
  <2>1. w = l - n /\ l \in Nat
    BY ONLY <1>1, <1>8
  <2>2. hits = {}
    BY ONLY <1>4, <1>7, <2>1
  <2>3. Span(d, stop) = d
    BY <2>2 DEF Span
  <2>4. Len(d) = Len(p) /\ \A i \in 1 .. Len(d) : d[i] = p[i]
    BY ONLY <1>2, <1>3, <2>1
  <2>5. d = p
    BY ONLY <1>2, <1>3, <2>4, SeqEqual
  <2> QED BY ONLY <2>3, <2>5 DEF d, p
<1>9. CASE m # l
  <2> DEFINE h == w + 1
  <2>1. h \in 1 .. l - n /\ n + h = m + 1 /\ h - 1 = w
    BY ONLY <1>1, <1>9
  <2>2. h \in hits
    BY <1>2, <1>4, <1>5, <1>9, <2>1
  <2>3. \A k \in hits : h <= k
    <3>1. \A k \in hits : k \in 1 .. l - n /\ k \notin 1 .. w
      BY ONLY <1>4, <1>7
    <3>2. \A k \in 1 .. l - n : k \notin 1 .. w => h <= k
      BY ONLY <1>1, <1>6
    <3> QED BY ONLY <3>1, <3>2
  <2>4. \A j \in hits : (\A k \in hits : j <= k) => j = h
    <3>1. \A k \in hits : k \in 1 .. l - n
      BY ONLY <1>4
    <3>2. \A j \in 1 .. l - n : j <= h /\ h <= j => j = h
      BY ONLY <1>1, <2>1
    <3> QED BY ONLY <2>2, <2>3, <3>1, <3>2
  <2> HIDE DEF h
  <2>5. (CHOOSE j \in hits : \A k \in hits : j <= k) = h
    <3> HIDE DEF hits
    <3> QED BY ONLY <2>2, <2>3, <2>4
  <2>6. Span(d, stop) = SubSeq(d, 1, h - 1)
    <3>1. hits # {}
      BY <2>2
    <3>2. Span(d, stop) = SubSeq(d, 1, (CHOOSE j \in hits : \A k \in hits : j <= k) - 1)
      BY <3>1 DEF Span
    <3> QED BY ONLY <2>5, <3>2
  <2> DEFINE u == SubSeq(d, 1, w)
  <2>7. u \in Seq(S) /\ Len(u) = w /\ \A i \in 1 .. w : u[i] = d[i]
    <3>1. 0 \in Nat /\ w \in 0 .. Len(d) /\ 0 + 1 = 1 /\ w - 0 = w
      BY ONLY <1>1, <1>2, <1>6
    <3>2. SubSeq(d, 0 + 1, w) \in Seq(S) /\ Len(SubSeq(d, 0 + 1, w)) = w - 0
          /\ \A i \in 1 .. w - 0 : SubSeq(d, 0 + 1, w)[i] = d[0 + i]
      BY ONLY <1>2, <3>1, PartOf
    <3>3. \A i \in 1 .. w : 0 + i = i
      BY ONLY <1>1
    <3> QED BY ONLY <3>1, <3>2, <3>3
  <2> HIDE DEF u
  <2>8. \A i \in 1 .. w : u[i] = p[i]
    <3>1. \A i \in 1 .. w : i \in 1 .. l - n
      BY ONLY <1>1
    <3> QED BY ONLY <1>2, <1>3, <2>7, <3>1
  <2>9. u = p
    BY ONLY <1>3, <2>7, <2>8, SeqEqual
  <2> QED BY ONLY <2>1, <2>6, <2>9 DEF u, d, p
<1> QED BY <1>8, <1>9

(* A literal that is there                                                 *)
LEMMA AfterIs ==
  ASSUME NEW S, NEW s \in Seq(S), NEW n \in Nat, NEW literal \in Seq(S),
         n + Len(literal) <= Len(s), \A i \in 1 .. Len(literal) : s[n + i] = literal[i]
  PROVE  After(literal, Drop(s, n)) = Drop(s, n + Len(literal))
<1> DEFINE l == Len(s)
           w == Len(literal)
           d == Drop(s, n)
           u == SubSeq(d, 1, w)
           v == SubSeq(literal, 1, w)
<1>1. l \in Nat /\ n \in Nat /\ w \in Nat /\ n + w <= l /\ n \in 0 .. l /\ w \in 0 .. l - n
      /\ w <= l - n /\ w = Len(literal) /\ \A i \in 1 .. w : s[n + i] = literal[i]
  <2>1. l \in Nat /\ w \in Nat /\ n + w <= l
    BY SeqValues
  <2>2. \A i \in 1 .. w : s[n + i] = literal[i]
    OBVIOUS
  <2>3. w = Len(literal)
    OBVIOUS
  <2> HIDE DEF l, w
  <2>4. n \in 0 .. l /\ w \in 0 .. l - n /\ w <= l - n
    BY ONLY <2>1, n \in Nat
  <2> QED BY ONLY <2>1, <2>2, <2>3, <2>4, n \in Nat
<1>2. d \in Seq(S) /\ Len(d) = l - n /\ \A i \in 1 .. l - n : d[i] = s[n + i]
  BY <1>1, DropShortens
<1> HIDE DEF d, l, w
<1>3. \A q \in Seq(S) : w \in 0 .. Len(q) =>
        /\ SubSeq(q, 1, w) \in Seq(S) /\ Len(SubSeq(q, 1, w)) = w
        /\ \A i \in 1 .. w : SubSeq(q, 1, w)[i] = q[i]
  <2> SUFFICES ASSUME NEW q \in Seq(S), w \in 0 .. Len(q)
               PROVE  /\ SubSeq(q, 1, w) \in Seq(S) /\ Len(SubSeq(q, 1, w)) = w
                      /\ \A i \in 1 .. w : SubSeq(q, 1, w)[i] = q[i]
    OBVIOUS
  <2>1. 0 \in Nat /\ 0 + 1 = 1 /\ w - 0 = w /\ \A i \in 1 .. w : 0 + i = i
    BY ONLY <1>1
  <2>2. SubSeq(q, 0 + 1, w) \in Seq(S) /\ Len(SubSeq(q, 0 + 1, w)) = w - 0
        /\ \A i \in 1 .. w - 0 : SubSeq(q, 0 + 1, w)[i] = q[0 + i]
    BY ONLY <2>1, PartOf, q \in Seq(S), w \in 0 .. Len(q)
  <2> QED BY ONLY <2>1, <2>2
<1>4. u \in Seq(S) /\ Len(u) = w /\ \A i \in 1 .. w : u[i] = d[i]
  BY <1>1, <1>2, <1>3
<1>5. v \in Seq(S) /\ Len(v) = w /\ \A i \in 1 .. w : v[i] = literal[i]
  <2>1. w \in 0 .. Len(literal)
    BY <1>1
  <2> QED BY <1>3, <2>1
<1> HIDE DEF u, v
<1>6. \A i \in 1 .. w : u[i] = v[i]
  <2>1. \A i \in 1 .. w : i \in 1 .. l - n
    BY ONLY <1>1
  <2> QED BY ONLY <1>1, <1>2, <1>4, <1>5, <2>1
<1>7. u = v
  BY ONLY <1>4, <1>5, <1>6, SeqEqual
<1>8. IsPrefix(literal, d)
  BY <1>1, <1>2, <1>7 DEF IsPrefix, u, v
<1>9. After(literal, d) = Drop(d, w)
  BY <1>8 DEF After, w
<1>10. Drop(d, w) = Drop(s, n + w)
  BY <1>1, DropDrop DEF d, l
<1> QED BY ONLY <1>9, <1>10 DEF d, w

(* Where there is nothing nothing is read.                                 *)
LEMMA NothingThere ==
  /\ \A stop : Span(<<>>, stop) = <<>>
  /\ Drop(<<>>, 0) = <<>>
  /\ \A x : After(<<x>>, <<>>) = <<>>
<1>1. Len(<<>>) = 0 /\ DOMAIN <<>> = {} /\ <<>> \in Seq(STRING)
  OBVIOUS
<1>2. \A stop : Span(<<>>, stop) = <<>>
  BY <1>1 DEF Span
<1>3. Drop(<<>>, 0) = <<>>
  BY <1>1, SubSeqEmpty DEF Drop
<1>4. ASSUME NEW x PROVE After(<<x>>, <<>>) = <<>>
  <2>1. Len(<<x>>) = 1 /\ ~(1 <= 0)
    OBVIOUS
  <2>2. ~IsPrefix(<<x>>, <<>>)
    BY ONLY <1>1, <2>1 DEF IsPrefix
  <2> QED BY <2>2 DEF After
<1> QED BY <1>2, <1>3, <1>4

(* An arrow, the first in the line                                         *)
ArrowAt(line, a) ==
  /\ a \in Nat \ {0} /\ a + 1 \in 1 .. Len(line)
  /\ line[a] = "<" /\ line[a + 1] = "-"
  /\ \A j \in 1 .. a - 1 : line[j] \notin {"'", "<"}

LEMMA ReadsTarget ==
  ASSUME NEW line \in Text, NEW a, ArrowAt(line, a)
  PROVE  /\ Span(line, {"'", "<"}) = SubSeq(line, 1, a - 1)
         /\ Len(Span(line, {"'", "<"})) = a - 1
         /\ After(<<"<", "-">>, Drop(line, a - 1)) = Drop(line, a + 1)
<1> DEFINE l == Len(line)
           m == a - 1
           arrow == <<"<", "-">>
<1>0. /\ a \in Nat \ {0} /\ a + 1 \in 1 .. l
      /\ line[a] = "<" /\ line[a + 1] = "-"
      /\ \A j \in 1 .. m : line[j] \notin {"'", "<"}
  BY DEF ArrowAt
<1>1. l \in Nat /\ line \in Seq(STRING)
  BY SeqValues DEF Text
<1>2. m \in Nat /\ m = a - 1
  BY <1>0
<1> HIDE DEF l, m
<1>3. 0 \in Nat /\ m \in 0 .. l /\ 0 + 1 = 1 /\ m + 1 = a /\ m + 2 = a + 1 /\ m + 2 <= l /\ m - 0 = m
  BY ONLY <1>0, <1>1, <1>2
<1>4. Drop(line, 0) = line
  <2>1. 0 \in 0 .. l /\ l - 0 = l /\ \A i \in 1 .. l : 0 + i = i
    BY ONLY <1>1
  <2>2. /\ Drop(line, 0) \in Seq(STRING) /\ Len(Drop(line, 0)) = l - 0
        /\ \A i \in 1 .. l - 0 : Drop(line, 0)[i] = line[0 + i]
    BY <1>1, <2>1, DropShortens DEF l
  <2>3. Len(Drop(line, 0)) = Len(line) /\ \A i \in 1 .. Len(Drop(line, 0)) : Drop(line, 0)[i] = line[i]
    BY ONLY <2>1, <2>2 DEF l
  <2> QED BY ONLY <1>1, <2>2, <2>3, SeqEqual
<1>5. Span(Drop(line, 0), {"'", "<"}) = SubSeq(line, 0 + 1, m)
  <2>1. \A j \in 0 + 1 .. m : line[j] \notin {"'", "<"}
    BY ONLY <1>0, <1>3
  <2>2. m = Len(line) \/ line[m + 1] \in {"'", "<"}
    BY <1>0, <1>3
  <2>3. m \in 0 .. Len(line)
    BY ONLY <1>3 DEF l
  <2>4. StopsAt(STRING, line, 0, m, {"'", "<"})
    BY ONLY <1>1, <1>3, <2>1, <2>2, <2>3 DEF StopsAt
  <2> QED BY ONLY <2>4, SpanIs
<1>6. Len(SubSeq(line, 0 + 1, m)) = m - 0
  BY ONLY <1>1, <1>3, PartOf DEF l
<1>7. After(arrow, Drop(line, m)) = Drop(line, m + 2)
  <2>1. arrow \in Seq(STRING)
    <3>1. a \in 1 .. l
      BY ONLY <1>0, <1>1
    <3>2. line[a] \in STRING /\ line[a + 1] \in STRING
      BY <1>0, <3>1, SeqValues DEF l, Text
    <3>3. arrow = <<line[a], line[a + 1]>>
      BY <1>0
    <3> HIDE DEF arrow
    <3> QED BY ONLY <3>2, <3>3
  <2>2. Len(arrow) = 2 /\ arrow[1] = "<" /\ arrow[2] = "-"
    OBVIOUS
  <2> HIDE DEF arrow
  <2>4. \A i \in 1 .. Len(arrow) : i = 1 \/ i = 2
    BY ONLY <2>2
  <2>5. \A i \in 1 .. Len(arrow) : line[m + i] = arrow[i]
    BY ONLY <1>0, <1>3, <2>2, <2>4
  <2>6. m + Len(arrow) <= Len(line)
    BY ONLY <1>3, <2>2 DEF l
  <2>7. After(arrow, Drop(line, m)) = Drop(line, m + Len(arrow))
    BY ONLY <1>1, <1>2, <2>1, <2>5, <2>6, AfterIs
  <2> QED BY ONLY <2>2, <2>7
<1> QED BY ONLY <1>2, <1>3, <1>4, <1>5, <1>6, <1>7 DEF m

(* A line without a command                                                *)
LEMMA ReadsBare ==
  ASSUME NEW line \in Text, NEW a, ArrowAt(line, a),
         \A j \in a + 2 .. Len(line) : line[j] \notin {"'", ":"}
  PROVE  /\ Scan(line).target = SubSeq(line, 1, a - 1)
         /\ Scan(line).deps = SubSeq(line, a + 2, Len(line))
         /\ Scan(line).command = <<>>
<1> DEFINE l == Len(line)
           t == <<"<", "-", ":">>
           n == a + 1
           target == Span(line, {"'", "<"})
           right == After(<<"<", "-">>, Drop(line, Len(target)))
           deps == IF Occurs(t, line) THEN <<>> ELSE Span(right, {"'", ":"})
           gap == After(<<":">>, Drop(right, Len(deps)))
           quoted == IF Occurs(<<":", Quote>>, line) THEN gap
                     ELSE Drop(gap, Len(Span(gap, {Quote})))
<1>0. /\ Scan(line).target = target /\ Scan(line).deps = deps
      /\ Scan(line).command = Span(After(<<Quote>>, quoted), {Quote})
  BY DEF Scan
<1>1. /\ a \in Nat \ {0} /\ a + 1 \in 1 .. l /\ l \in Nat
      /\ \A j \in 1 .. a - 1 : line[j] # "<"
      /\ \A j \in a + 2 .. l : line[j] # ":"
      /\ line \in Seq(STRING)
  BY SeqValues DEF ArrowAt, Text
<1>2. target = SubSeq(line, 1, a - 1) /\ right = Drop(line, n)
  BY ReadsTarget
<1> HIDE DEF target, right
<1>3. n = a + 1
  OBVIOUS
<1> HIDE DEF n, l
<1>4. n \in Nat /\ l \in n .. l /\ n + 1 = a + 2 /\ n + (l - n) = l /\ l - n \in Nat
      /\ n + (l - n) <= l
  BY ONLY <1>1, <1>3
<1>5. ~Occurs(t, line)
  <2> SUFFICES ASSUME NEW j \in 0 .. l - 3, IsPrefix(t, Drop(line, j)) PROVE FALSE
    <3>1. Len(t) = 3
      OBVIOUS
    <3> HIDE DEF t
    <3> QED BY ONLY <3>1, \A j \in 0 .. l - 3 : IsPrefix(t, Drop(line, j)) => FALSE DEF Occurs, l
  <2>1. j \in 0 .. l /\ 3 <= l - j /\ j + 1 \in 1 .. l /\ j + 3 \in 1 .. l
    BY ONLY <1>1, j \in 0 .. l - 3
  <2> DEFINE d == Drop(line, j)
             u == SubSeq(d, 1, 3)
  <2>2. d \in Seq(STRING) /\ Len(d) = l - j /\ \A i \in 1 .. l - j : d[i] = line[j + i]
    BY <1>1, <2>1, DropShortens DEF l
  <2>3. Len(t) = 3 /\ t \in Seq({"<", "-", ":"})
    OBVIOUS
  <2>4. SubSeq(t, 1, 3) = u
    <3> HIDE DEF d
    <3> QED BY <2>3 DEF IsPrefix, d
  <2> HIDE DEF d
  <2>5. u[1] = d[1] /\ u[3] = d[3]
    <3>1. 0 \in Nat /\ 3 \in 0 .. Len(d) /\ 0 + 1 = 1 /\ 3 - 0 = 3 /\ 1 \in 1 .. 3 - 0 /\ 3 \in 1 .. 3 - 0
          /\ 0 + 3 = 3
      BY ONLY <1>1, <2>1, <2>2
    <3>2. \A i \in 1 .. 3 - 0 : SubSeq(d, 0 + 1, 3)[i] = d[0 + i]
      BY ONLY <2>2, <3>1, PartOf
    <3> QED BY ONLY <3>1, <3>2
  <2>6. SubSeq(t, 1, 3)[1] = "<" /\ SubSeq(t, 1, 3)[3] = ":"
    <3>1. 0 \in Nat /\ 3 \in 0 .. Len(t) /\ 0 + 1 = 1 /\ 1 \in 1 .. 3 - 0 /\ 3 \in 1 .. 3 - 0
          /\ 0 + 3 = 3
      BY ONLY <2>3
    <3>2. t[1] = "<" /\ t[3] = ":"
      OBVIOUS
    <3> HIDE DEF t
    <3>3. \A i \in 1 .. 3 - 0 : SubSeq(t, 0 + 1, 3)[i] = t[0 + i]
      BY ONLY <2>3, <3>1, PartOf
    <3> QED BY ONLY <3>1, <3>2, <3>3
  <2>7. 1 \in 1 .. l - j /\ 3 \in 1 .. l - j
    BY ONLY <1>1, <2>1
  <2> HIDE DEF u, t
  <2>8. line[j + 1] = "<" /\ line[j + 3] = ":"
    BY ONLY <2>2, <2>4, <2>5, <2>6, <2>7
  <2>9. j + 1 \in 1 .. a - 1 \/ j + 3 \in a + 2 .. l
    BY ONLY <1>1, <2>1
  <2> QED BY ONLY <1>1, <2>8, <2>9
<1>6. deps = SubSeq(line, n + 1, l) /\ Len(deps) = l - n
  <2>1. deps = Span(right, {"'", ":"})
    BY <1>5
  <2>2. Span(Drop(line, n), {"'", ":"}) = SubSeq(line, n + 1, l)
    <3>1. \A j \in n + 1 .. l : line[j] \notin {"'", ":"}
      BY ONLY <1>4, \A j \in a + 2 .. Len(line) : line[j] \notin {"'", ":"} DEF l
    <3>2. l \in n .. Len(line) /\ l = Len(line)
      BY ONLY <1>4 DEF l
    <3>3. StopsAt(STRING, line, n, l, {"'", ":"})
      BY ONLY <1>1, <1>4, <3>1, <3>2 DEF StopsAt
    <3> QED BY ONLY <3>2, <3>3, SpanIs
  <2>3. Len(SubSeq(line, n + 1, l)) = l - n
    <3>1. line \in Seq(STRING) /\ n \in Nat /\ l \in n .. Len(line)
      BY ONLY <1>1, <1>4 DEF l
    <3> QED BY ONLY <3>1, PartOf
  <2> HIDE DEF deps
  <2> QED BY ONLY <1>2, <2>1, <2>2, <2>3
<1>7. gap = <<>>
  <2>1. Drop(right, Len(deps)) = Drop(line, l)
    <3> HIDE DEF deps
    <3>1. n + (l - n) <= Len(line)
      BY ONLY <1>4 DEF l
    <3>2. Drop(Drop(line, n), l - n) = Drop(line, n + (l - n))
      BY ONLY <1>1, <1>4, <3>1, DropDrop
    <3> QED BY ONLY <1>2, <1>4, <1>6, <3>2
  <2>2. Drop(line, l) = <<>>
    <3>1. l \in Int /\ l + 1 \in Int /\ l < l + 1
      BY ONLY <1>1
    <3> QED BY ONLY <3>1, SubSeqEmpty DEF Drop, l
  <2> HIDE DEF deps
  <2> QED BY ONLY <2>1, <2>2, NothingThere
<1> HIDE DEF gap
<1>8. quoted = <<>>
  <2>1. Len(<<>>) = 0
    OBVIOUS
  <2> QED BY ONLY <1>7, <2>1, NothingThere
<1> HIDE DEF quoted, deps
<1>9. Span(After(<<Quote>>, quoted), {Quote}) = <<>>
  BY ONLY <1>8, NothingThere
<1> QED BY ONLY <1>0, <1>2, <1>4, <1>6, <1>9 DEF l

LEMMA AfterOne ==
  ASSUME NEW S, NEW s \in Seq(S), NEW n \in Nat, NEW m, m = n + 1, m \in 1 .. Len(s), NEW x, s[m] = x
  PROVE  After(<<x>>, Drop(s, n)) = Drop(s, m)
<1> DEFINE one == <<x>>
<1>1. Len(one) = 1 /\ one[1] = x
  OBVIOUS
<1>2. one \in Seq(S)
  <2>1. x \in S
    BY SeqValues
  <2> QED BY <2>1
<1> HIDE DEF one
<1>3. \A i \in 1 .. Len(one) : s[n + i] = one[i]
  <2>1. \A i \in 1 .. 1 : i = 1
    OBVIOUS
  <2> QED BY ONLY <1>1, <2>1, m = n + 1, s[m] = x
<1>4. Len(s) \in Nat
  BY SeqValues
<1>5. n + Len(one) <= Len(s)
  <2>1. PICK l \in Nat : l = Len(s)
    BY ONLY <1>4
  <2>2. n + 1 <= l
    BY ONLY <2>1, n \in Nat, m = n + 1, m \in 1 .. Len(s)
  <2> QED BY ONLY <1>1, <2>1, <2>2
<1>6. After(one, Drop(s, n)) = Drop(s, n + Len(one))
  BY ONLY <1>2, <1>3, <1>5, AfterIs, s \in Seq(S), n \in Nat
<1> QED BY ONLY <1>1, <1>6, m = n + 1 DEF one

(* A line with a command                                                   *)
LEMMA ReadsFull ==
  ASSUME NEW line \in Text, NEW a, ArrowAt(line, a), NEW p, NEW c, NEW q, NEW r,
         c \in Places(":", line), q \in Places(Quote, line), r \in Places(Quote, line),
         HasCommand(line, a, c, q, r, p)
  PROVE  /\ Scan(line).target = SubSeq(line, 1, a - 1)
         /\ Scan(line).deps = SubSeq(line, a + 2, c - 1)
         /\ Scan(line).command = SubSeq(line, q + 1, r - 1)
<1> DEFINE l == Len(line)
           n == a + 1
           k == c - 1
           e == q - 1
           z == r - 1
           target == Span(line, {"'", "<"})
           right == After(<<"<", "-">>, Drop(line, Len(target)))
           deps == IF Occurs(<<"<", "-", ":">>, line) THEN <<>> ELSE Span(right, {"'", ":"})
           colon == Drop(right, Len(deps))
           gap == After(<<":">>, colon)
           quoted == IF Occurs(<<":", Quote>>, line) THEN gap
                     ELSE Drop(gap, Len(Span(gap, {Quote})))
           mark == After(<<Quote>>, quoted)
           command == Span(mark, {Quote})
<1>0. /\ Scan(line).target = target /\ Scan(line).deps = deps
      /\ Scan(line).command = command
  BY DEF Scan
<1>1. /\ a \in Nat \ {0} /\ a + 1 \in 1 .. l /\ l \in Nat /\ line \in Seq(STRING)
      /\ c \in 1 .. l /\ q \in 1 .. l /\ r \in 1 .. l /\ a + 1 < c /\ c < q /\ q < r
      /\ n = a + 1 /\ k = c - 1 /\ e = q - 1 /\ z = r - 1
  <2>1. line \in Seq(STRING) /\ l \in Nat /\ DOMAIN line = 1 .. l
    BY SeqValues DEF Text
  <2>2. c \in 1 .. l /\ q \in 1 .. l /\ r \in 1 .. l
    BY <2>1 DEF Places
  <2>3. a \in Nat \ {0} /\ a + 1 \in 1 .. l
    BY DEF ArrowAt
  <2>4. a + 1 < c /\ c < q /\ q < r
    BY DEF HasCommand
  <2> QED BY <2>1, <2>2, <2>3, <2>4
<1>2. /\ line[c] = ":" /\ line[q] = Quote /\ line[r] = Quote
      /\ \A j \in a + 2 .. k : line[j] \notin {"'", ":"}
      /\ \A j \in c + 1 .. e : line[j] \in Blank
      /\ \A j \in q + 1 .. z : line[j] # Quote
      /\ Occurs(<<"<", "-", ":">>, line) => c = a + 2
      /\ Occurs(<<":", Quote>>, line) => q = c + 1
  BY DEF HasCommand, Places
<1>3. target = SubSeq(line, 1, a - 1) /\ right = Drop(line, n)
  BY ReadsTarget
<1> HIDE DEF target, right, n, k, e, z, l
<1>4. /\ n \in Nat /\ k \in n .. l /\ n + 1 = a + 2 /\ k + 1 = c /\ k \in Nat
      /\ c \in Nat /\ e \in c .. l /\ e + 1 = q /\ e \in Nat
      /\ q \in Nat /\ z \in q .. l /\ z + 1 = r
      /\ k - n \in Nat /\ n + (k - n) = k /\ k <= l
      /\ e - c \in Nat /\ c + (e - c) = e /\ e <= l
  BY ONLY <1>1
<1>l. l = Len(line)
  BY DEF l
<1>p. /\ line \in Seq(STRING) /\ n \in Nat /\ k \in n .. Len(line) /\ c \in Nat
      /\ e \in c .. Len(line) /\ q \in Nat /\ z \in q .. Len(line) /\ e \in Nat
  BY ONLY <1>1, <1>4, <1>l
<1>5. deps = SubSeq(line, n + 1, k) /\ Len(deps) = k - n
  <2>1. Len(SubSeq(line, n + 1, k)) = k - n
    BY ONLY <1>p, PartOf
  <2>2. CASE Occurs(<<"<", "-", ":">>, line)
    <3>1. k < n + 1 /\ k \in Int /\ n + 1 \in Int
      BY ONLY <1>1, <1>2, <1>4, <2>2
    <3>2. SubSeq(line, n + 1, k) = <<>>
      BY ONLY <3>1, SubSeqEmpty
    <3> QED BY <2>1, <2>2, <3>2
  <2>3. CASE ~Occurs(<<"<", "-", ":">>, line)
    <3>1. \A j \in n + 1 .. k : line[j] \notin {"'", ":"}
      BY ONLY <1>2, <1>4
    <3>2. line[k + 1] \in {"'", ":"}
      BY <1>2, <1>4
    <3>3. Span(Drop(line, n), {"'", ":"}) = SubSeq(line, n + 1, k)
      <4>1. StopsAt(STRING, line, n, k, {"'", ":"})
        BY ONLY <1>p, <3>1, <3>2 DEF StopsAt
      <4> QED BY ONLY <4>1, SpanIs
    <3> QED BY <1>3, <2>1, <2>3, <3>3
  <2> QED BY <2>2, <2>3
<1> HIDE DEF deps
<1>6. colon = Drop(line, k)
  <2>1. n + (k - n) <= Len(line)
    BY ONLY <1>4, <1>l
  <2>2. Drop(Drop(line, n), k - n) = Drop(line, n + (k - n))
    BY ONLY <1>1, <1>4, <2>1, DropDrop
  <2> QED BY ONLY <1>3, <1>4, <1>5, <2>2
<1> HIDE DEF colon
<1>7. gap = Drop(line, c)
  <2>1. c \in 1 .. Len(line) /\ c = k + 1
    BY ONLY <1>1, <1>4, <1>l
  <2>2. After(<<":">>, Drop(line, k)) = Drop(line, c)
    BY ONLY <1>1, <1>2, <1>4, <2>1, AfterOne
  <2> QED BY ONLY <1>6, <2>2
<1> HIDE DEF gap
<1>8. quoted = Drop(line, e)
  <2>1. CASE Occurs(<<":", Quote>>, line)
    <3>1. e = c
      BY ONLY <1>1, <1>2, <2>1
    <3> QED BY <1>7, <2>1, <3>1
  <2>2. CASE ~Occurs(<<":", Quote>>, line)
    <3>1. \A j \in c + 1 .. e : line[j] \notin {Quote}
      BY ONLY <1>2 DEF Blank, Quote
    <3>2. line[e + 1] \in {Quote}
      BY ONLY <1>2, <1>4
    <3>3. Span(Drop(line, c), {Quote}) = SubSeq(line, c + 1, e)
      <4>1. PICK stop : stop = {Quote}
        OBVIOUS
      <4>2. StopsAt(STRING, line, c, e, stop)
        BY ONLY <1>p, <3>1, <3>2, <4>1 DEF StopsAt
      <4>3. Span(Drop(line, c), stop) = SubSeq(line, c + 1, e)
        BY ONLY <4>2, SpanIs
      <4> QED BY ONLY <4>1, <4>3
    <3>4. Len(SubSeq(line, c + 1, e)) = e - c
      BY ONLY <1>p, PartOf
    <3>5. c + (e - c) <= Len(line)
      BY ONLY <1>4, <1>l
    <3>6. Drop(Drop(line, c), e - c) = Drop(line, c + (e - c))
      BY ONLY <1>1, <1>4, <3>5, DropDrop
    <3>7. quoted = Drop(gap, Len(Span(gap, {Quote})))
      BY <2>2
    <3> HIDE DEF quoted
    <3> QED BY ONLY <1>4, <1>7, <3>3, <3>4, <3>6, <3>7
  <2> QED BY <2>1, <2>2
<1> HIDE DEF quoted
<1>9. mark = Drop(line, q)
  <2>0. line[q] = Quote
    BY ONLY <1>2
  <2>1. q \in 1 .. Len(line) /\ q = e + 1
    BY ONLY <1>1, <1>4, <1>l
  <2>2. After(<<Quote>>, Drop(line, e)) = Drop(line, q)
    BY ONLY <1>p, <2>0, <2>1, AfterOne
  <2> QED BY ONLY <1>8, <2>2
<1> HIDE DEF mark
<1>10. command = SubSeq(line, q + 1, z)
  <2>1. \A j \in q + 1 .. z : line[j] \notin {Quote}
    BY ONLY <1>2
  <2>2. line[z + 1] \in {Quote}
    BY ONLY <1>2, <1>4
  <2>3. Span(Drop(line, q), {Quote}) = SubSeq(line, q + 1, z)
    <3>1. PICK stop : stop = {Quote}
      OBVIOUS
    <3>2. StopsAt(STRING, line, q, z, stop)
      BY ONLY <1>p, <2>1, <2>2, <3>1 DEF StopsAt
    <3>3. Span(Drop(line, q), stop) = SubSeq(line, q + 1, z)
      BY ONLY <3>2, SpanIs
    <3> QED BY ONLY <3>1, <3>3
  <2> QED BY ONLY <1>9, <2>3
<1> HIDE DEF command
<1> QED BY ONLY <1>0, <1>3, <1>4, <1>5, <1>10 DEF k, z

-----------------------------------------------------------------------------
(* What is written in a list *)

(* Places are given in their order, each once.                             *)
LEMMA NthInOrder ==
  ASSUME NEW P \in SUBSET Nat, IsFiniteSet(P)
  PROVE  /\ Cardinality(P) \in Nat
         /\ \A k \in 1 .. Cardinality(P) : Nth(P, k) \in P
         /\ \A x \in P : \E k \in 1 .. Cardinality(P) : Nth(P, k) = x
         /\ \A j, k \in 1 .. Cardinality(P) : j < k => Nth(P, j) < Nth(P, k)
<1> DEFINE R == {p \in P \X P : p[1] < p[2]}
<1>1. \A i, j \in P : <<i, j>> \in R <=> i < j
  OBVIOUS
<1> HIDE DEF R
<1>2. IsOrder(R, P)
  <2>1. \A i, j, k \in P : /\ ~(i < i) /\ (i < j /\ j < k => i < k)
                           /\ (i # j => i < j \/ j < i)
    BY ONLY P \in SUBSET Nat
  <2> QED BY ONLY <1>1, <2>1 DEF IsOrder
<1>3. /\ Cardinality(P) \in Nat
      /\ \A k \in 1 .. Cardinality(P) : Ranked(R, P, k) \in P
      /\ \A x \in P : \E k \in 1 .. Cardinality(P) : Ranked(R, P, k) = x
      /\ \A j, k \in 1 .. Cardinality(P) : j < k => <<Ranked(R, P, j), Ranked(R, P, k)>> \in R
  BY <1>2, RankedOnce
<1>4. \A k : Nth(P, k) = Ranked(R, P, k)
  <2>1. \A j \in P : {i \in P : i < j} = {i \in P : <<i, j>> \in R}
    BY <1>1
  <2> QED BY ONLY <2>1 DEF Nth, Ranked
<1>5. ASSUME NEW j \in 1 .. Cardinality(P), NEW k \in 1 .. Cardinality(P), j < k
      PROVE  Nth(P, j) < Nth(P, k)
  <2>1. Nth(P, j) \in P /\ Nth(P, k) \in P /\ <<Nth(P, j), Nth(P, k)>> \in R
    BY ONLY <1>3, <1>4, <1>5
  <2> QED BY ONLY <1>1, <2>1
<1>6. /\ \A k \in 1 .. Cardinality(P) : Nth(P, k) \in P
      /\ \A x \in P : \E k \in 1 .. Cardinality(P) : Nth(P, k) = x
  BY ONLY <1>3, <1>4
<1> QED BY ONLY <1>3, <1>5, <1>6

(* There is one way to list numbers in increasing order.                   *)
LEMMA OneOrder ==
  ASSUME NEW n \in Nat, NEW P \in SUBSET Nat, NEW f, NEW g,
         \A k \in 1 .. n : f[k] \in P /\ g[k] \in P,
         \A x \in P : \E k \in 1 .. n : f[k] = x, \A x \in P : \E k \in 1 .. n : g[k] = x,
         \A j, k \in 1 .. n : j < k => f[j] < f[k], \A j, k \in 1 .. n : j < k => g[j] < g[k]
  PROVE  \A k \in 1 .. n : f[k] = g[k]
<1> DEFINE D == {k \in 1 .. n : f[k] # g[k]}
<1> SUFFICES ASSUME D # {} PROVE FALSE
  OBVIOUS
<1>1. D \in SUBSET Nat
  OBVIOUS
<1>2. PICK k \in D : \A j \in D : k <= j
  <2> HIDE DEF D
  <2> QED BY <1>1, LeastNumber
<1>3. k \in 1 .. n /\ f[k] # g[k] /\ \A j \in 1 .. n : j < k => f[j] = g[j]
  <2>1. \A j \in 1 .. n : j < k => j \notin D
    <3>1. k \in 1 .. n
      OBVIOUS
    <3> HIDE DEF D
    <3> QED BY ONLY <1>2, <3>1, n \in Nat
  <2> QED BY <2>1
<1> HIDE DEF D
<1>4. f[k] \in Nat /\ g[k] \in Nat
  BY <1>3
<1>5. CASE f[k] < g[k]
  <2>1. PICK j \in 1 .. n : g[j] = f[k]
    BY <1>3
  <2>2. ~(j = k) /\ ~(k < j)
    <3>1. k < j => g[k] < g[j]
      BY <1>3
    <3> QED BY ONLY <1>4, <1>5, <2>1, <3>1
  <2>3. j < k
    BY ONLY <1>3, <2>2, n \in Nat, j \in 1 .. n
  <2>4. f[j] = f[k] /\ f[j] < f[k]
    BY <1>3, <2>1, <2>3
  <2> QED BY ONLY <1>4, <2>4
<1>6. CASE g[k] < f[k]
  <2>1. PICK j \in 1 .. n : f[j] = g[k]
    BY <1>3
  <2>2. ~(j = k) /\ ~(k < j)
    <3>1. k < j => f[k] < f[j]
      BY <1>3
    <3> QED BY ONLY <1>4, <1>6, <2>1, <3>1
  <2>3. j < k
    BY ONLY <1>3, <2>2, n \in Nat, j \in 1 .. n
  <2>4. g[j] = g[k] /\ g[j] < g[k]
    BY <1>3, <2>1, <2>3
  <2> QED BY ONLY <1>4, <2>4
<1> QED BY ONLY <1>3, <1>4, <1>5, <1>6

Lists(g, n, P) ==
  /\ \A k \in 1 .. n : g[k] \in P
  /\ \A x \in P : \E k \in 1 .. n : g[k] = x
  /\ \A j, k \in 1 .. n : j < k => g[j] < g[k]

LEMMA NthOnly ==
  ASSUME NEW n \in Nat, NEW P \in SUBSET Nat, NEW g, Lists(g, n, P)
  PROVE  Cardinality(P) = n /\ \A k \in 1 .. n : Nth(P, k) = g[k]
<1> USE DEF Lists
<1> DEFINE h == [k \in 1 .. n |-> g[k]]
           f == [k \in 1 .. n |-> Nth(P, k)]
<1>1. \A k \in 1 .. n : h[k] = g[k]
  OBVIOUS
<1>2. h \in [1 .. n -> P]
  BY <1>1
<1>3. \A x \in P : \E k \in 1 .. n : h[k] = x
  BY <1>1
<1>4. ASSUME NEW j \in 1 .. n, NEW k \in 1 .. n, h[j] = h[k] PROVE j = k
  <2>1. g[j] = g[k] /\ g[j] \in Nat
    BY <1>1, <1>4
  <2>2. ~(j < k) /\ ~(k < j)
    <3>1. (j < k => g[j] < g[k]) /\ (k < j => g[k] < g[j])
      OBVIOUS
    <3> QED BY ONLY <2>1, <3>1
  <2> QED BY ONLY <2>2, j \in 1 .. n, k \in 1 .. n, n \in Nat
<1> HIDE DEF h
<1>5. h \in Bijection(1 .. n, P)
  BY ONLY <1>2, <1>3, <1>4 DEF Bijection, Injection, Surjection, IsInjective
<1>6. IsFiniteSet(1 .. n) /\ Cardinality(1 .. n) = n
  <2>1. IsFiniteSet(1 .. n) /\ Cardinality(1 .. n) = IF 1 > n THEN 0 ELSE n-1+1
    BY ONLY FS_Interval, 1 \in Int, n \in Int, n \in Nat
  <2>2. (IF 1 > n THEN 0 ELSE n-1+1) = n
    BY ONLY n \in Nat
  <2> QED BY ONLY <2>1, <2>2
<1>7. IsFiniteSet(P) /\ Cardinality(P) = n
  <2>1. ExistsBijection(1 .. n, P)
    BY <1>5 DEF ExistsBijection
  <2> QED BY ONLY <1>6, <2>1, FS_Bijection
<1>8. /\ \A k \in 1 .. n : Nth(P, k) \in P
      /\ \A x \in P : \E k \in 1 .. n : Nth(P, k) = x
      /\ \A j, k \in 1 .. n : j < k => Nth(P, j) < Nth(P, k)
  <2>1. /\ \A k \in 1 .. Cardinality(P) : Nth(P, k) \in P
        /\ \A x \in P : \E k \in 1 .. Cardinality(P) : Nth(P, k) = x
        /\ \A j, k \in 1 .. Cardinality(P) : j < k => Nth(P, j) < Nth(P, k)
    BY ONLY <1>7, NthInOrder, P \in SUBSET Nat
  <2> QED BY ONLY <1>7, <2>1
<1>9. /\ \A k \in 1 .. n : f[k] = Nth(P, k)
  OBVIOUS
<1> HIDE DEF f
<1>10. /\ \A k \in 1 .. n : f[k] \in P
       /\ \A x \in P : \E k \in 1 .. n : f[k] = x
       /\ \A j, k \in 1 .. n : j < k => f[j] < f[k]
  BY ONLY <1>8, <1>9
<1>11. \A k \in 1 .. n : f[k] = g[k]
  BY <1>10, OneOrder
<1> QED BY ONLY <1>7, <1>9, <1>11

(* strtok() gives the fields, if none of them is empty.                    *)
LEMMA SplitsList ==
  ASSUME NEW S, NEW s \in Seq(S), NEW them, IsList(s, them)
  PROVE  Split(s) = them
<1> DEFINE l == Len(s)
           starts == {j \in DOMAIN s : s[j] # "," /\ (j = 1 \/ s[j - 1] = ",")}
           E == {j \in 0 .. l + 1 : j \in {0, l + 1} \/ s[j] = ","}
           N == Cardinality(E)
           n == N - 1
           e == [k \in 1 .. N |-> Nth(E, k)]
           g == [k \in 1 .. n |-> e[k] + 1]
           Word(k) == SubSeq(s, e[k] + 1, e[k + 1] - 1)
<1>1. l \in Nat /\ DOMAIN s = 1 .. l
  BY SeqValues
<1>n. l \in Nat
  BY <1>1
<1> HIDE DEF l
<1>2. Split(s) = [k \in 1 .. Cardinality(starts) |-> Span(Drop(s, Nth(starts, k) - 1), {","})]
  BY DEF Split, NamesAt
<1>3. CASE them = <<>> /\ s = <<>>
  <2>1. l = 0
    BY <1>3 DEF l
  <2>2. starts = {}
    <3>1. 1 .. l = {}
      BY ONLY <2>1
    <3> QED BY ONLY <1>1, <3>1
  <2>3. Cardinality({}) = 0 /\ 1 .. 0 = {}
    BY FS_EmptySet
  <2> HIDE DEF starts
  <2>4. Split(s) = [k \in {} |-> Span(Drop(s, Nth(starts, k) - 1), {","})]
    BY ONLY <1>2, <2>2, <2>3
  <2>5. <<>> = [k \in {} |-> Span(Drop(s, Nth(starts, k) - 1), {","})]
    OBVIOUS
  <2> QED BY ONLY <1>3, <2>4, <2>5
<1>4. CASE Fields(s) = them /\ <<>> \notin ToSet(them)
  <2>1. E \in SUBSET Nat /\ E \in SUBSET (0 .. l + 1) /\ 0 \in E /\ l + 1 \in E
    <3>1. 0 \in 0 .. l + 1 /\ l + 1 \in 0 .. l + 1 /\ (0 .. l + 1) \in SUBSET Nat
      BY ONLY <1>n
    <3>2. \A j : j \in E <=> j \in 0 .. l + 1 /\ (j = 0 \/ j = l + 1 \/ s[j] = ",")
      OBVIOUS
    <3> HIDE DEF E
    <3> QED BY ONLY <3>1, <3>2
  <2>b. \A i \in E : i \in Nat /\ i <= l + 1
    <3>1. \A i \in 0 .. l + 1 : i \in Nat /\ i <= l + 1
      BY ONLY <1>n
    <3> HIDE DEF E
    <3> QED BY ONLY <2>1, <3>1
  <2>2. IsFiniteSet(E)
    <3>2. l + 1 \in Nat
      BY ONLY <1>n
    <3> HIDE DEF E
    <3> QED BY ONLY <2>1, <2>b, <3>2, FS_BoundedSetOfNaturals
  <2>3. \A j \in 1 .. l : j \in E <=> s[j] = ","
    <3>1. \A j \in 1 .. l : j \in 0 .. l + 1 /\ j \notin {0, l + 1}
      BY ONLY <1>n
    <3> QED BY ONLY <3>1
  <2> HIDE DEF E
  <2>4. /\ N \in Nat /\ \A k \in 1 .. N : e[k] \in E
        /\ \A x \in E : \E k \in 1 .. N : e[k] = x
        /\ \A j, k \in 1 .. N : j < k => e[j] < e[k]
    <3>1. \A k \in 1 .. N : e[k] = Nth(E, k)
      OBVIOUS
    <3> HIDE DEF e
    <3>2. /\ N \in Nat /\ \A k \in 1 .. N : Nth(E, k) \in E
          /\ \A x \in E : \E k \in 1 .. N : Nth(E, k) = x
          /\ \A j, k \in 1 .. N : j < k => Nth(E, j) < Nth(E, k)
      BY <2>1, <2>2, NthInOrder
    <3> HIDE DEF N
    <3> QED BY ONLY <3>1, <3>2
  <2>5. Fields(s) = [k \in 1 .. n |-> Word(k)]
    <3>1. Fields(s) = [k \in 1 .. n |-> SubSeq(s, Nth(E, k) + 1, Nth(E, k + 1) - 1)]
      BY DEF Fields, E, l
    <3>2. \A k \in 1 .. n : k \in 1 .. N /\ k + 1 \in 1 .. N
      <4> HIDE DEF N
      <4> QED BY ONLY <2>4
    <3>3. \A k \in 1 .. n : Nth(E, k) = e[k] /\ Nth(E, k + 1) = e[k + 1]
      BY <3>2
    <3> HIDE DEF n, e
    <3> QED BY ONLY <3>1, <3>3
  <2>6. n = N - 1
    OBVIOUS
  <2> HIDE DEF N, e, n
  <2>7. \A k \in 1 .. N : e[k] \in Nat /\ e[k] <= l + 1
    BY ONLY <2>b, <2>4
  <2>8. N \in Nat \ {0} /\ n \in Nat /\ e[1] = 0 /\ e[N] = l + 1
    <3>1. PICK i \in 1 .. N : e[i] = 0
      BY ONLY <2>1, <2>4
    <3>2. PICK j \in 1 .. N : e[j] = l + 1
      BY ONLY <2>1, <2>4
    <3>3. 1 \in 1 .. N /\ N \in 1 .. N /\ (i # 1 => 1 < i) /\ (j # N => j < N)
      BY ONLY <2>4, <3>1, <3>2
    <3>4. i = 1
      <4>1. 1 < i => e[1] < e[i]
        BY ONLY <2>4, <3>3
      <4> QED BY ONLY <2>7, <3>1, <3>3, <4>1
    <3>5. j = N
      <4>1. j < N => e[j] < e[N]
        BY ONLY <2>4, <3>3
      <4> QED BY ONLY <1>n, <2>7, <3>2, <3>3, <4>1
    <3> QED BY ONLY <2>4, <2>6, <3>1, <3>2, <3>3, <3>4, <3>5
  <2>9. ASSUME NEW k \in 1 .. n
        PROVE  /\ k \in 1 .. N /\ k + 1 \in 1 .. N /\ e[k] \in Nat /\ e[k + 1] - 1 \in e[k] + 1 .. l
               /\ \A j \in e[k] + 1 .. e[k + 1] - 1 : s[j] # ","
               /\ e[k] = 0 \/ (e[k] \in 1 .. l /\ s[e[k]] = ",")
               /\ e[k + 1] - 1 = l \/ s[e[k + 1]] = ","
    <3>1. k \in 1 .. N /\ k + 1 \in 1 .. N /\ k < k + 1
      BY ONLY <2>6, <2>8, k \in 1 .. n
    <3>2. e[k] \in Nat /\ e[k + 1] \in Nat /\ e[k] < e[k + 1] /\ e[k + 1] <= l + 1
      BY ONLY <2>4, <2>7, <3>1
    <3>3. e[k] \in E /\ e[k + 1] \in E
      BY ONLY <2>4, <3>1
    <3> DEFINE a == e[k]
               b == e[k + 1]
               m == b - 1
    <3> HIDE DEF a, b
    <3>4. a \in Nat /\ b \in Nat /\ a < b /\ b <= l + 1
      BY ONLY <3>2 DEF a, b
    <3>5. m \in a .. l /\ m = b - 1
      BY ONLY <1>n, <3>4
    <3> HIDE DEF m
    <3>6. SubSeq(s, a + 1, m) # <<>>
      <4>1. Word(k) = SubSeq(s, a + 1, m)
        BY DEF a, b, m
      <4>2. them = [i \in 1 .. n |-> Word(i)]
        BY <1>4, <2>5
      <4> HIDE DEF Word
      <4>3. k \in DOMAIN them /\ them[k] = Word(k)
        BY <4>2
      <4> QED BY <1>4, <4>1, <4>3 DEF ToSet
    <3>7. m # a
      <4>1. ASSUME m = a PROVE FALSE
        <5>1. m < a + 1 /\ m \in Int /\ a + 1 \in Int
          BY ONLY <3>4, <4>1
        <5> QED BY ONLY <3>6, <5>1, SubSeqEmpty
      <4> QED BY ONLY <4>1
    <3>8. m \in a + 1 .. l
      BY ONLY <1>n, <3>4, <3>5, <3>7
    <3>9. ASSUME NEW j \in a + 1 .. m PROVE s[j] # ","
      <4>1. j \in 1 .. l /\ a < j /\ j < b /\ j \in Nat
        BY ONLY <1>n, <3>4, <3>5, <3>8, j \in a + 1 .. m
      <4>2. SUFFICES ASSUME j \in E PROVE FALSE
        <5>1. j \in 1 .. l
          BY ONLY <4>1
        <5> QED BY <2>3, <5>1
      <4>3. PICK i \in 1 .. N : e[i] = j
        BY ONLY <2>4, <4>2
      <4>4. ~(i < k) /\ i # k
        <5>1. i < k => e[i] < a
          BY ONLY <2>4, <3>1 DEF a
        <5>2. i = k => e[i] = a
          BY ONLY DEF a
        <5> QED BY ONLY <3>4, <4>1, <4>3, <5>1, <5>2
      <4>5. ~(k + 1 < i) /\ i # k + 1
        <5>1. k + 1 < i => b < e[i]
          BY ONLY <2>4, <3>1 DEF b
        <5>2. i = k + 1 => e[i] = b
          BY ONLY DEF b
        <5> QED BY ONLY <3>4, <4>1, <4>3, <5>1, <5>2
      <4> QED BY ONLY <2>8, <3>1, <4>4, <4>5, k \in 1 .. n, i \in 1 .. N
    <3>10. a = 0 \/ (a \in 1 .. l /\ s[a] = ",")
      <4>1. a = 0 \/ a \in 1 .. l
        BY ONLY <1>n, <3>4, <3>8
      <4> QED BY ONLY <2>3, <3>3, <4>1 DEF a
    <3>11. m = l \/ s[b] = ","
      <4>1. m = l \/ b \in 1 .. l
        BY ONLY <1>n, <3>4, <3>5
      <4> QED BY ONLY <2>3, <3>3, <4>1 DEF b
    <3> QED BY ONLY <3>1, <3>4, <3>8, <3>9, <3>10, <3>11 DEF a, b, m
  <2>10. \A k \in 1 .. n : g[k] = e[k] + 1
    OBVIOUS
  <2>11. ASSUME NEW k \in 1 .. n PROVE g[k] \in starts
    <3>1. e[k] + 1 \in 1 .. l /\ s[e[k] + 1] # "," /\ (e[k] + 1 = 1 \/ s[e[k]] = ",")
          /\ (e[k] + 1) - 1 = e[k]
      <4>1. PICK a : a = e[k]
        OBVIOUS
      <4>2. PICK m : m = e[k + 1] - 1
        OBVIOUS
      <4>3. /\ a \in Nat /\ m \in a + 1 .. l /\ \A j \in a + 1 .. m : s[j] # ","
            /\ a = 0 \/ s[a] = ","
        BY ONLY <2>9, <4>1, <4>2
      <4>a. a \in Nat /\ m \in a + 1 .. l
        BY ONLY <4>3
      <4>4. a + 1 \in a + 1 .. m /\ a + 1 \in 1 .. l /\ (a = 0 => a + 1 = 1) /\ (a + 1) - 1 = a
        BY ONLY <1>n, <4>a
      <4> QED BY ONLY <4>1, <4>3, <4>4
    <3> HIDE DEF g
    <3> QED BY <1>1, <2>10, <3>1
  <2>12. ASSUME NEW x \in starts PROVE \E k \in 1 .. n : g[k] = x
    <3>1. x \in 1 .. l /\ (x = 1 \/ s[x - 1] = ",")
      BY <1>1
    <3>a. x \in 1 .. l
      BY ONLY <3>1
    <3> HIDE DEF starts
    <3>2. x - 1 \in E /\ x - 1 \in Nat /\ x - 1 < l + 1 /\ (x - 1) + 1 = x
      <4>1. x - 1 = 0 \/ (x - 1 \in 1 .. l /\ s[x - 1] = ",")
        <5>1. x = 1 \/ x - 1 \in 1 .. l
          BY ONLY <1>n, <3>a
        <5>2. x = 1 => x - 1 = 0
          OBVIOUS
        <5> QED BY ONLY <3>1, <5>1, <5>2
      <4>2. x - 1 \in Nat /\ x - 1 < l + 1 /\ (x - 1) + 1 = x
        BY ONLY <1>n, <3>a
      <4> QED BY ONLY <2>1, <2>3, <4>1, <4>2
    <3>3. PICK k \in 1 .. N : e[k] = x - 1
      BY ONLY <2>4, <3>2
    <3>4. k # N
      <4>1. l + 1 # x - 1
        BY ONLY <1>n, <3>a
      <4> QED BY ONLY <2>8, <3>3, <4>1
    <3>5. k \in 1 .. n
      <4>1. N \in Nat
        BY ONLY <2>8
      <4>2. k \in 1 .. N
        OBVIOUS
      <4> QED BY ONLY <2>6, <3>4, <4>1, <4>2
    <3> HIDE DEF g
    <3> QED BY ONLY <2>10, <3>2, <3>3, <3>5
  <2>13. \A j, k \in 1 .. n : j < k => g[j] < g[k]
    <3> SUFFICES ASSUME NEW j \in 1 .. n, NEW k \in 1 .. n, j < k PROVE g[j] < g[k]
      OBVIOUS
    <3>1. j \in 1 .. N /\ k \in 1 .. N
      BY ONLY <2>9
    <3>2. e[j] < e[k] /\ e[j] \in Nat /\ e[k] \in Nat
      BY ONLY <2>4, <2>7, <3>1, j < k
    <3>3. e[j] + 1 < e[k] + 1
      BY ONLY <3>2
    <3> HIDE DEF g
    <3> QED BY ONLY <2>10, <3>3
  <2> HIDE DEF g
  <2>14. Cardinality(starts) = n /\ \A k \in 1 .. n : Nth(starts, k) = g[k]
    <3>1. starts \in SUBSET Nat
      <4>1. starts \in SUBSET (1 .. l)
        BY <1>1
      <4>2. \A j \in 1 .. l : j \in Nat
        BY ONLY <1>n
      <4> HIDE DEF starts
      <4> QED BY ONLY <4>1, <4>2
    <3>2. n \in Nat /\ \A k \in 1 .. n : g[k] \in starts
      BY <2>8, <2>11
    <3>3. \A x \in starts : \E k \in 1 .. n : g[k] = x
      BY ONLY <2>12
    <3> HIDE DEF starts
    <3>4. Lists(g, n, starts)
      BY ONLY <2>13, <3>2, <3>3 DEF Lists
    <3> QED BY ONLY <3>1, <3>2, <3>4, NthOnly
  <2> HIDE DEF starts
  <2>15. \A k \in 1 .. n : Span(Drop(s, Nth(starts, k) - 1), {","}) = Word(k)
    <3> SUFFICES ASSUME NEW k \in 1 .. n
                 PROVE  Span(Drop(s, Nth(starts, k) - 1), {","}) = Word(k)
      OBVIOUS
    <3>1. PICK a : a = e[k]
      OBVIOUS
    <3>2. PICK m : m = e[k + 1] - 1
      OBVIOUS
    <3>3. /\ a \in Nat /\ m \in a + 1 .. l /\ \A j \in a + 1 .. m : s[j] # ","
          /\ m = l \/ s[e[k + 1]] = ","
          /\ e[k + 1] \in Nat
      BY ONLY <2>7, <2>9, <3>1, <3>2
    <3>4. m \in a .. Len(s) /\ (a + 1) - 1 = a
      <4>1. a \in Nat /\ m \in a + 1 .. l
        BY ONLY <3>3
      <4>2. m \in a .. l /\ (a + 1) - 1 = a
        BY ONLY <1>n, <4>1
      <4> QED BY ONLY <4>2 DEF l
    <3>a. a \in Nat
      BY ONLY <3>3
    <3>5. m = Len(s) \/ s[m + 1] \in {","}
      <4>1. e[k + 1] \in Nat
        BY ONLY <2>7, <2>9
      <4>2. m + 1 = e[k + 1]
        BY ONLY <3>2, <4>1
      <4> QED BY ONLY <3>3, <4>2 DEF l
    <3>6. \A j \in a + 1 .. m : s[j] \notin {","}
      BY ONLY <3>3
    <3>7. Span(Drop(s, a), {","}) = SubSeq(s, a + 1, m)
      <4>1. PICK stop : stop = {","}
        OBVIOUS
      <4>2. StopsAt(S, s, a, m, stop)
        BY ONLY <3>a, <3>4, <3>5, <3>6, <4>1, s \in Seq(S) DEF StopsAt
      <4>3. Span(Drop(s, a), stop) = SubSeq(s, a + 1, m)
        BY ONLY <4>2, SpanIs
      <4> QED BY ONLY <4>1, <4>3
    <3>8. Nth(starts, k) - 1 = a
      BY ONLY <2>10, <2>14, <3>1, <3>4
    <3> QED BY ONLY <3>1, <3>2, <3>7, <3>8
  <2> HIDE DEF Word
  <2>16. Split(s) = [k \in 1 .. n |-> Word(k)]
    BY ONLY <1>2, <2>14, <2>15
  <2> QED BY <1>4, <2>5, <2>16
<1> QED BY <1>3, <1>4 DEF IsList

-----------------------------------------------------------------------------
(* What is written in a file *)

(* A line that follows the grammar is taken for the production it is.      *)
LEMMA ReadsLine ==
  ASSUME NEW line \in Text, NEW p, IsWritten(line, p)
  PROVE  /\ p.targets = <<Strip(Scan(line).target)>>
         /\ Split(Strip(Scan(line).deps)) = p.deps
         /\ Scan(line).command = p.command
         /\ IsProduction(line)
<1> DEFINE deps == Strip(Scan(line).deps)
<1>1. PICK a \in Places("<", line) :
        /\ a < Len(line) /\ line[a + 1] = "-"
        /\ \A j \in 1 .. a - 1 : line[j] \notin {"'", "<"}
        /\ p.targets = <<Strip(SubSeq(line, 1, a - 1))>> /\ <<>> \notin ToSet(p.targets)
        /\ p.deps # <<>> \/ ~IsBlank(p.command)
        /\ \/ HasNoCommand(line, a, p)
           \/ \E c \in Places(":", line), q, r \in Places(Quote, line) : HasCommand(line, a, c, q, r, p)
  BY DEF IsWritten
<1>2. ArrowAt(line, a)
  <2>1. DOMAIN line = 1 .. Len(line)
    BY SeqValues DEF Text
  <2>2. a \in 1 .. Len(line) /\ line[a] = "<"
    BY <2>1 DEF Places
  <2>3. Len(line) \in Nat
    BY SeqValues DEF Text
  <2>4. a \in Nat \ {0} /\ a + 1 \in 1 .. Len(line)
    <3>1. PICK l \in Nat : l = Len(line)
      BY ONLY <2>3
    <3>2. a \in 1 .. l /\ a < l
      BY ONLY <1>1, <2>2, <3>1
    <3>3. a \in Nat \ {0} /\ a + 1 \in 1 .. l
      BY ONLY <3>2, l \in Nat
    <3> QED BY ONLY <3>1, <3>3
  <2> QED BY ONLY <1>1, <2>2, <2>4 DEF ArrowAt
<1>3. /\ Scan(line).target = SubSeq(line, 1, a - 1)
      /\ IsList(deps, p.deps) /\ Scan(line).command = p.command
  <2>1. CASE HasNoCommand(line, a, p)
    <3>1. /\ \A j \in a + 2 .. Len(line) : line[j] \notin {"'", ":"}
          /\ IsList(Strip(SubSeq(line, a + 2, Len(line))), p.deps) /\ p.command = <<>>
      BY <2>1 DEF HasNoCommand
    <3>2. /\ Scan(line).target = SubSeq(line, 1, a - 1)
          /\ Scan(line).deps = SubSeq(line, a + 2, Len(line)) /\ Scan(line).command = <<>>
      BY <1>2, <3>1, ReadsBare
    <3> QED BY <3>1, <3>2
  <2>2. ASSUME NEW c \in Places(":", line), NEW q \in Places(Quote, line), NEW r \in Places(Quote, line),
               HasCommand(line, a, c, q, r, p)
        PROVE  /\ Scan(line).target = SubSeq(line, 1, a - 1)
               /\ IsList(deps, p.deps) /\ Scan(line).command = p.command
    <3>1. /\ IsList(Strip(SubSeq(line, a + 2, c - 1)), p.deps)
          /\ p.command = SubSeq(line, q + 1, r - 1)
      BY <2>2 DEF HasCommand
    <3>2. /\ Scan(line).target = SubSeq(line, 1, a - 1)
          /\ Scan(line).deps = SubSeq(line, a + 2, c - 1)
          /\ Scan(line).command = SubSeq(line, q + 1, r - 1)
      BY ONLY <1>2, <2>2, ReadsFull, line \in Text, c \in Places(":", line),
              q \in Places(Quote, line), r \in Places(Quote, line)
    <3> QED BY <3>1, <3>2
  <2> QED BY <1>1, <2>1, <2>2
<1>4. Scan(line).deps \in Seq(STRING)
  BY ScanFits DEF Text
<1>5. deps \in Seq(STRING)
  BY <1>4, StripType
<1> HIDE DEF deps
<1>6. Split(deps) = p.deps
  BY <1>3, <1>5, SplitsList
<1>7. p.deps # <<>> => deps # <<>>
  <2>1. SUFFICES ASSUME deps = <<>> PROVE p.deps = <<>>
    OBVIOUS
  <2>2. <<>> \in Seq(STRING) /\ IsList(<<>>, <<>>)
    BY DEF IsList
  <2>3. Split(<<>>) = <<>>
    BY <2>2, SplitsList
  <2> QED BY <1>6, <2>1, <2>3
<1>8. Strip(Scan(line).target) # <<>>
  <2>1. p.targets = <<Strip(Scan(line).target)>>
    BY <1>1, <1>3
  <2>2. 1 \in DOMAIN p.targets /\ p.targets[1] = Strip(Scan(line).target)
    BY ONLY <2>1
  <2>3. p.targets[1] \in ToSet(p.targets)
    BY ONLY <2>2 DEF ToSet
  <2> QED BY ONLY <1>1, <2>2, <2>3
<1>9. IsProduction(line)
  BY <1>1, <1>3, <1>7, <1>8 DEF IsProduction, deps
<1> QED BY <1>1, <1>3, <1>6, <1>9 DEF deps

(* The k-th from the end, as the productions were read                     *)
FromEnd(T, k) == T[Len(T) + 1 - k]

LEMMA InFrontFromEnd ==
  ASSUME NEW T, NEW T2, NEW l \in Nat, Len(T) = l, Len(T2) = l + 1,
         \A j \in 1 .. l : T2[j + 1] = T[j]
  PROVE  \A k \in 1 .. l : FromEnd(T2, k) = FromEnd(T, k)
<1>1. ASSUME NEW k \in 1 .. l PROVE FromEnd(T2, k) = FromEnd(T, k)
  <2>1. (l + 1) + 1 - k = (l + 1 - k) + 1 /\ l + 1 - k \in 1 .. l
    BY ONLY l \in Nat, k \in 1 .. l
  <2> QED BY <2>1 DEF FromEnd
<1> QED BY <1>1

(* Where the reading is in a file of lines that spell the productions M:   *)
(* behind n lines, with T as the target list and N the names to come.      *)
Written(lines, n) == {j \in 1 .. n : ~IsBlank(lines[j])}
Count(lines, n) == Cardinality(Written(lines, n))
Same(t, p) == p.targets = <<t.name>> /\ t.command = p.command
Done(T, M, c) == \A k \in 1 .. c : /\ Same(FromEnd(T, k), M[k])
                                   /\ FromEnd(T, k).deps = Reverse(M[k].deps)
InHand(D, N, them) ==
  /\ Len(them) = Len(D) + Len(N)
  /\ \A i \in 1 .. Len(D) : D[i] = them[Len(D) + 1 - i]
  /\ \A i \in 1 .. Len(N) : N[i] = them[Len(D) + i]
ReadTo(lines, M, n, p, r, T, N) ==
  /\ n \in 0 .. Len(lines) /\ r = Drop(lines, n)
  /\ Done(T, M, Count(lines, n))
  /\ p \in {"read", "end"} => Len(T) = Count(lines, n)
  /\ p = "end" => n = Len(lines)
  /\ p = "deps" => /\ n + 1 \in Written(lines, Len(lines))
                   /\ Len(T) = Count(lines, n) + 1
                   /\ Same(T[1], M[Count(lines, n) + 1])
                   /\ InHand(T[1].deps, N, M[Count(lines, n) + 1].deps)

(* One more line                                                           *)
LEMMA CountIs ==
  ASSUME NEW lines \in Seq(NonEmpty), NEW n \in Nat, n + 1 <= Len(lines)
  PROVE  /\ Count(lines, n) \in Nat
         /\ n + 1 \in Written(lines, Len(lines)) <=> ~IsBlank(lines[n + 1])
         /\ IsBlank(lines[n + 1]) => Count(lines, n + 1) = Count(lines, n)
         /\ ~IsBlank(lines[n + 1]) => Count(lines, n + 1) = Count(lines, n) + 1
<1> DEFINE W == Written(lines, n)
           V == Written(lines, n + 1)
<1>1. /\ n + 1 \in 1 .. n + 1 /\ \A j \in 1 .. n : j \in 1 .. n + 1 /\ j # n + 1
      /\ \A j \in 1 .. n + 1 : j = n + 1 \/ j \in 1 .. n
  BY ONLY n \in Nat
<1>2. W \in SUBSET Nat /\ \A j \in W : j <= n
  BY ONLY n \in Nat DEF Written
<1>3. IsFiniteSet(W)
  <2> HIDE DEF W
  <2> QED BY ONLY <1>2, FS_BoundedSetOfNaturals, n \in Nat
<1>4. n + 1 \notin W
  BY ONLY <1>1 DEF Written
<1>5. IsBlank(lines[n + 1]) => V = W
  <2> HIDE DEF IsBlank
  <2> QED BY ONLY <1>1 DEF Written
<1>6. ~IsBlank(lines[n + 1]) => V = W \cup {n + 1}
  <2> HIDE DEF IsBlank
  <2> QED BY ONLY <1>1 DEF Written
<1>7. n + 1 \in 1 .. Len(lines)
  <2>1. PICK l \in Nat : l = Len(lines)
    BY SeqValues
  <2>2. n + 1 \in 1 .. l
    BY ONLY <2>1, n \in Nat, n + 1 <= Len(lines)
  <2> QED BY ONLY <2>1, <2>2
<1>8. n + 1 \in Written(lines, Len(lines)) <=> ~IsBlank(lines[n + 1])
  BY ONLY <1>7 DEF Written
<1> HIDE DEF W, V
<1>9. Cardinality(W) \in Nat
  BY <1>3, FS_CardinalityType
<1>10. Cardinality(W \cup {n + 1}) = Cardinality(W) + 1
  BY <1>3, <1>4, FS_AddElement
<1> QED BY ONLY <1>5, <1>6, <1>8, <1>9, <1>10 DEF Count, W, V

LEMMA NextLine ==
  ASSUME NEW lines \in Seq(NonEmpty), NEW n \in 0 .. Len(lines), NEW r, r = Drop(lines, n)
  PROVE  /\ n \in Nat
         /\ r = <<>> => n = Len(lines)
         /\ r # <<>> => /\ n + 1 <= Len(lines) /\ n + 1 \in 0 .. Len(lines)
                        /\ Head(r) = lines[n + 1] /\ Tail(r) = Drop(lines, n + 1)
<1>1. PICK l \in Nat : l = Len(lines)
  BY SeqValues
<1>2. r \in Seq(NonEmpty) /\ Len(r) = l - n /\ \A i \in 1 .. l - n : r[i] = lines[n + i]
  BY <1>1, DropShortens
<1>3. n \in 0 .. l
  BY <1>1
<1>4. r = <<>> => n = l
  <2>1. r = <<>> => l - n = 0
    BY ONLY <1>2, Len(<<>>) = 0
  <2> QED BY ONLY <1>3, <2>1, l \in Nat
<1>5. ASSUME r # <<>>
      PROVE  /\ n + 1 <= l /\ n + 1 \in 0 .. l
             /\ Head(r) = lines[n + 1] /\ Tail(r) = Drop(lines, n + 1)
  <2>1. Len(r) # 0
    BY <1>2, <1>5, EmptySeq
  <2>2. l - n # 0
    BY ONLY <1>2, <2>1
  <2>3. n + 1 <= l /\ n + 1 \in 0 .. l /\ 1 \in 1 .. l - n /\ (l - n) - 1 = l - (n + 1)
        /\ \A i \in 1 .. l - (n + 1) : i + 1 \in 1 .. l - n /\ n + (i + 1) = (n + 1) + i
    BY ONLY <1>3, <2>2, l \in Nat
  <2>4. Head(r) = r[1]
    BY <1>2, <1>5
  <2>5. /\ Tail(r) \in Seq(NonEmpty) /\ Len(Tail(r)) = Len(r) - 1
        /\ \A i \in 1 .. Len(Tail(r)) : Tail(r)[i] = r[i + 1]
    BY <1>2, <1>5, HeadTailProperties
  <2> DEFINE d == Drop(lines, n + 1)
  <2>6. /\ d \in Seq(NonEmpty) /\ Len(d) = l - (n + 1)
        /\ \A i \in 1 .. l - (n + 1) : d[i] = lines[(n + 1) + i]
    BY <1>1, <2>3, DropShortens
  <2> HIDE DEF d
  <2>7. Len(Tail(r)) = Len(d)
    BY ONLY <1>2, <2>3, <2>5, <2>6
  <2>8. \A i \in 1 .. Len(Tail(r)) : Tail(r)[i] = d[i]
    BY ONLY <1>2, <2>3, <2>5, <2>6, <2>7
  <2>9. Tail(r) = d
    BY ONLY <2>5, <2>6, <2>7, <2>8, SeqEqual
  <2> QED BY ONLY <1>2, <2>3, <2>4, <2>9 DEF d
<1> QED BY ONLY <1>1, <1>3, <1>4, <1>5

(* One more dependency, from the names to come to those that are there     *)
LEMMA InHandNext ==
  ASSUME NEW S, NEW D \in Seq(S), NEW N \in Seq(S), N # <<>>, NEW them, InHand(D, N, them)
  PROVE  InHand(<<Head(N)>> \o D, Tail(N), them)
<1>1. PICK d \in Nat : d = Len(D)
  BY SeqValues
<1>2. PICK m \in Nat \ {0} : m = Len(N)
  <2>1. Len(N) \in Nat \ {0}
    BY EmptySeq
  <2> QED BY <2>1
<1> DEFINE D2 == <<Head(N)>> \o D
           N2 == Tail(N)
<1>3. Head(N) \in S /\ Head(N) = N[1]
  BY HeadTailProperties
<1>4. Len(D2) = d + 1 /\ D2[1] = Head(N) /\ \A j \in 1 .. d : D2[j + 1] = D[j]
  BY <1>1, <1>3, InFront
<1>5. Len(N2) = m - 1 /\ \A i \in 1 .. m - 1 : N2[i] = N[i + 1]
  BY <1>2, HeadTailProperties
<1>6. /\ Len(them) = d + m
      /\ \A i \in 1 .. d : D[i] = them[d + 1 - i]
      /\ \A i \in 1 .. m : N[i] = them[d + i]
  BY <1>1, <1>2 DEF InHand
<1> HIDE DEF D2, N2
<1>7. Len(them) = Len(D2) + Len(N2)
  <2>1. (d + 1) + (m - 1) = d + m
    BY ONLY d \in Nat, m \in Nat \ {0}
  <2> QED BY ONLY <1>4, <1>5, <1>6, <2>1
<1>8. ASSUME NEW i \in 1 .. d + 1 PROVE D2[i] = them[(d + 1) + 1 - i]
  <2>1. CASE i = 1
    <3>1. 1 \in 1 .. m /\ (d + 1) + 1 - i = d + 1
      BY ONLY <2>1, d \in Nat, m \in Nat \ {0}
    <3> QED BY ONLY <1>3, <1>4, <1>6, <2>1, <3>1
  <2>2. CASE i # 1
    <3>1. PICK j \in 1 .. d : j = i - 1
      BY ONLY <2>2, d \in Nat, i \in 1 .. d + 1
    <3>2. j + 1 = i /\ (d + 1) + 1 - i = d + 1 - j
      BY ONLY <3>1, d \in Nat, i \in 1 .. d + 1, j \in 1 .. d
    <3>3. D2[j + 1] = D[j] /\ D[j] = them[d + 1 - j]
      BY ONLY <1>4, <1>6, j \in 1 .. d
    <3> QED BY ONLY <3>2, <3>3
  <2> QED BY <2>1, <2>2
<1>9. ASSUME NEW i \in 1 .. m - 1 PROVE N2[i] = them[(d + 1) + i]
  <2>1. i + 1 \in 1 .. m /\ d + (i + 1) = (d + 1) + i
    BY ONLY d \in Nat, m \in Nat \ {0}, i \in 1 .. m - 1
  <2> QED BY ONLY <1>5, <1>6, <2>1, i \in 1 .. m - 1
<1>10. InHand(D2, N2, them)
  BY ONLY <1>4, <1>5, <1>7, <1>8, <1>9 DEF InHand
<1> QED BY <1>10 DEF D2, N2

LEMMA InHandEnds ==
  ASSUME NEW S, NEW D \in Seq(S), NEW N, N = <<>>, NEW them, InHand(D, N, them)
  PROVE  D = Reverse(them)
<1>1. PICK d \in Nat : d = Len(D) /\ DOMAIN D = 1 .. d
  BY SeqValues
<1>2. Len(<<>>) = 0
  OBVIOUS
<1>3. Len(them) = d + 0 /\ \A i \in 1 .. d : D[i] = them[d + 1 - i]
  BY ONLY <1>1, <1>2, N = <<>>, InHand(D, N, them) DEF InHand
<1>4. d + 0 = d /\ \A i \in 1 .. d : d + 1 - i = (d - i) + 1
  BY ONLY d \in Nat
<1>5. Reverse(them) = [i \in 1 .. d |-> them[(d - i) + 1]]
  BY ONLY <1>3, <1>4 DEF Reverse
<1>6. D = [i \in 1 .. d |-> D[i]]
  <2>1. D = [i \in DOMAIN D |-> D[i]]
    BY LenProperties
  <2> QED BY ONLY <1>1, <2>1
<1>7. \A i \in 1 .. d : D[i] = them[(d - i) + 1]
  BY ONLY <1>3, <1>4
<1> QED BY ONLY <1>5, <1>6, <1>7

Production == [targets : Seq(Text), deps : Seq(Text), command : Text]
Spelled(lines, M) == /\ lines \in Seq(NonEmpty) /\ M \in Seq(Production)
                     /\ Spells(lines, M)
LEMMA SpelledIs ==
  ASSUME NEW lines, NEW M, Spelled(lines, M)
  PROVE  /\ Len(M) = Count(lines, Len(lines))
         /\ \A j \in Written(lines, Len(lines)) :
              /\ IsWritten(lines[j], M[Count(lines, j)]) /\ lines[j] \in Text
<1>1. DOMAIN lines = 1 .. Len(lines) /\ \A j \in 1 .. Len(lines) : lines[j] \in NonEmpty
  BY SeqValues DEF Spelled
<1>2. ASSUME NEW j \in Written(lines, Len(lines)) PROVE lines[j] \in Text
  BY <1>1 DEF Written, NonEmpty
<1>3. /\ Len(M) = Count(lines, Len(lines))
      /\ \A j \in Written(lines, Len(lines)) : IsWritten(lines[j], M[Count(lines, j)])
  BY DEF Spelled, Spells, Count, Written
<1> QED BY <1>2, <1>3

(* The steps of the reading, of a file that follows the grammar            *)
ReadIn(lines, M, n) ==
  Spelled(lines, M) /\ ret = "SUCCESS" /\ ReadTo(lines, M, n, pc, rest, target_list, names)

LEMMA ReadSkips ==
  ASSUME Inv, SkipLine, NEW lines, NEW M, NEW n, ReadIn(lines, M, n)
  PROVE  ReadIn(lines, M, n + 1)'
<1>1. /\ pc = "read" /\ rest # <<>> /\ IsBlank(Head(rest)) /\ rest' = Tail(rest)
      /\ UNCHANGED <<pc, names, target_list, ret>>
  BY DEF SkipLine, listVars
<1>2. /\ lines \in Seq(NonEmpty) /\ n \in 0 .. Len(lines) /\ rest = Drop(lines, n)
      /\ Done(target_list, M, Count(lines, n)) /\ Len(target_list) = Count(lines, n)
  BY <1>1 DEF ReadIn, Spelled, ReadTo
<1>3. /\ n \in Nat /\ n + 1 <= Len(lines) /\ n + 1 \in 0 .. Len(lines)
      /\ Head(rest) = lines[n + 1] /\ Tail(rest) = Drop(lines, n + 1)
  BY <1>1, <1>2, NextLine
<1>4. Count(lines, n + 1) = Count(lines, n)
  BY <1>1, <1>2, <1>3, CountIs
<1>5. ReadTo(lines, M, n + 1, pc', rest', target_list', names')
  BY <1>1, <1>2, <1>3, <1>4 DEF ReadTo
<1> QED BY <1>1, <1>5 DEF ReadIn

LEMMA ReadDoesNotReject ==
  ASSUME Inv, NEW lines, NEW M, NEW n, ReadIn(lines, M, n)
  PROVE  ~RejectLine
<1> SUFFICES ASSUME RejectLine PROVE FALSE
  OBVIOUS
<1>1. pc = "read" /\ rest # <<>> /\ ~IsBlank(Head(rest)) /\ ~IsProduction(Head(rest))
  BY DEF RejectLine
<1>2. lines \in Seq(NonEmpty) /\ n \in 0 .. Len(lines) /\ rest = Drop(lines, n)
  BY <1>1 DEF ReadIn, Spelled, ReadTo
<1>3. n \in Nat /\ n + 1 <= Len(lines) /\ Head(rest) = lines[n + 1]
  BY <1>1, <1>2, NextLine
<1>4. n + 1 \in Written(lines, Len(lines))
  BY <1>1, <1>2, <1>3, CountIs
<1>5. IsWritten(lines[n + 1], M[Count(lines, n + 1)]) /\ lines[n + 1] \in Text
  BY <1>4, SpelledIs DEF ReadIn
<1>6. IsProduction(lines[n + 1])
  BY ONLY <1>5, ReadsLine
<1> QED BY <1>1, <1>3, <1>6

LEMMA ReadAddsTarget ==
  ASSUME Inv, AddTarget, NEW lines, NEW M, NEW n, ReadIn(lines, M, n)
  PROVE  ReadIn(lines, M, n)'
<1> DEFINE line == Head(rest)
           t == [name |-> Strip(Scan(line).target), command |-> Scan(line).command, deps |-> <<>>]
           c == Count(lines, n)
           p == M[c + 1]
<1>1. /\ pc = "read" /\ pc' = "deps" /\ rest # <<>> /\ ~IsBlank(line)
      /\ target_list' = <<t>> \o target_list
      /\ names' = Split(Strip(Scan(line).deps))
      /\ UNCHANGED <<rest, ret>>
  BY DEF AddTarget
<1>2. /\ lines \in Seq(NonEmpty) /\ n \in 0 .. Len(lines) /\ rest = Drop(lines, n)
      /\ Done(target_list, M, c) /\ Len(target_list) = c
  BY <1>1 DEF ReadIn, Spelled, ReadTo
<1>3. n \in Nat /\ n + 1 <= Len(lines) /\ line = lines[n + 1]
  BY <1>1, <1>2, NextLine
<1>4. n + 1 \in Written(lines, Len(lines)) /\ Count(lines, n + 1) = c + 1 /\ c \in Nat
  BY <1>1, <1>2, <1>3, CountIs
<1>5. IsWritten(line, p) /\ line \in Text
  BY <1>3, <1>4, SpelledIs DEF ReadIn
<1> HIDE DEF p, line
<1>6. /\ p.targets = <<Strip(Scan(line).target)>> /\ Split(Strip(Scan(line).deps)) = p.deps
      /\ Scan(line).command = p.command
  BY ONLY <1>5, ReadsLine
<1>7. Same(t, p) /\ t.deps = <<>>
  BY <1>6 DEF Same
<1>8. target_list \in Seq(TargetRecord) /\ target_list' \in Seq(TargetRecord)
      /\ names' \in Seq(NonEmpty)
  <2>1. Inv'
    BY AddsTarget
  <2> QED BY <2>1 DEF Inv, Types
<1>9. t \in TargetRecord
  <2>1. 1 \in 1 .. 1 /\ <<t>> \o target_list # <<>>
    OBVIOUS
  <2>2. Scan(line).target \in Text /\ Scan(line).command \in Text
    BY <1>5, ScanFits DEF Text
  <2>3. Strip(Scan(line).target) \in NonEmpty
    <3>1. IsProduction(line)
      BY ONLY <1>5, ReadsLine
    <3> QED BY <2>2, <3>1, StripType DEF IsProduction, NonEmpty, Text
  <2>4. <<>> \in Seq(NonEmpty)
    OBVIOUS
  <2> QED BY <2>2, <2>3, <2>4 DEF TargetRecord
<1> HIDE DEF t, c
<1>10. /\ Len(target_list') = c + 1 /\ target_list'[1] = t
       /\ \A k \in 1 .. c : FromEnd(target_list', k) = FromEnd(target_list, k)
  <2>1. PICK T \in Seq(TargetRecord) : T = target_list
    BY ONLY <1>8
  <2>2. PICK T2 : T2 = target_list'
    OBVIOUS
  <2>3. T2 = <<t>> \o T
    BY ONLY <1>1, <2>1, <2>2
  <2>4. PICK l \in Nat : l = Len(T)
    BY SeqValues
  <2>5. Len(T2) = l + 1 /\ T2[1] = t /\ \A j \in 1 .. l : T2[j + 1] = T[j]
    BY ONLY <1>9, <2>3, <2>4, T \in Seq(TargetRecord), InFront
  <2>6. \A k \in 1 .. l : FromEnd(T2, k) = FromEnd(T, k)
    BY ONLY <2>4, <2>5, l \in Nat, InFrontFromEnd
  <2>7. l = c
    BY ONLY <1>2, <2>1, <2>4
  <2> QED BY ONLY <2>1, <2>2, <2>5, <2>6, <2>7
<1>11. Done(target_list', M, c)
  BY <1>2, <1>10 DEF Done
<1>12. InHand(target_list'[1].deps, names', p.deps)
  <2>1. PICK m \in Nat : m = Len(names')
    BY <1>8, SeqValues
  <2>2. Len(<<>>) = 0 /\ 1 .. 0 = {} /\ m = 0 + m /\ \A i \in 1 .. m : 0 + i = i
    BY ONLY m \in Nat
  <2>3. names' = p.deps /\ target_list'[1].deps = <<>>
    BY <1>1, <1>6, <1>7, <1>10
  <2> QED BY ONLY <2>1, <2>2, <2>3 DEF InHand
<1>13. Same(target_list'[1], p)
  BY <1>7, <1>10
<1>14. ReadTo(lines, M, n, pc', rest', target_list', names')
  BY <1>1, <1>2, <1>4, <1>10, <1>11, <1>12, <1>13 DEF ReadTo, c, p
<1> QED BY <1>1, <1>14 DEF ReadIn

(* The first target gets one more dependency, and no other changes.        *)
LEMMA FirstGets ==
  ASSUME NEW T \in Seq(TargetRecord), T # <<>>, NEW d \in NonEmpty,
         NEW T2, T2 = [T EXCEPT ![1].deps = <<d>> \o @]
  PROVE  /\ Len(T2) = Len(T) /\ T2[1].deps = <<d>> \o T[1].deps
         /\ T2[1].name = T[1].name /\ T2[1].command = T[1].command
         /\ \A c \in Nat : Len(T) = c + 1 => \A k \in 1 .. c : FromEnd(T2, k) = FromEnd(T, k)
<1> DEFINE e == [T[1] EXCEPT !.deps = <<d>> \o T[1].deps]
<1>1. PICK l \in Nat \ {0} : l = Len(T)
  <2>1. Len(T) \in Nat \ {0}
    BY EmptySeq
  <2> QED BY <2>1
<1>2. 1 \in 1 .. l
  BY ONLY l \in Nat \ {0}
<1>3. T[1] \in TargetRecord
  BY <1>1, <1>2, SeqValues
<1>4. <<d>> \o T[1].deps \in Seq(NonEmpty)
  BY <1>3, InFront DEF TargetRecord
<1>5. /\ e \in TargetRecord /\ e.deps = <<d>> \o T[1].deps
      /\ e.name = T[1].name /\ e.command = T[1].command
  BY ONLY <1>3, <1>4 DEF TargetRecord
<1>6. T2 = [T EXCEPT ![1] = e]
  OBVIOUS
<1> HIDE DEF e
<1>7. /\ Len([T EXCEPT ![1] = e]) = Len(T)
      /\ \A j \in 1 .. Len(T) : [T EXCEPT ![1] = e][j] = IF j = 1 THEN e ELSE T[j]
  <2>1. 1 \in 1 .. Len(T)
    BY ONLY <1>1, <1>2
  <2> QED BY ONLY <1>5, <2>1, T \in Seq(TargetRecord), ExceptSeq
<1>8. Len(T2) = l /\ T2[1] = e /\ \A j \in 1 .. l : j # 1 => T2[j] = T[j]
  BY ONLY <1>1, <1>2, <1>6, <1>7
<1>9. ASSUME NEW c \in Nat, l = c + 1, NEW k \in 1 .. c PROVE FromEnd(T2, k) = FromEnd(T, k)
  <2>1. l + 1 - k \in 1 .. l /\ l + 1 - k # 1
    BY ONLY <1>9, c \in Nat, k \in 1 .. c
  <2> QED BY ONLY <1>1, <1>8, <2>1 DEF FromEnd
<1> QED BY ONLY <1>1, <1>5, <1>8, <1>9

LEMMA ReadAddsDependency ==
  ASSUME Inv, AddDependency, NEW lines, NEW M, NEW n, ReadIn(lines, M, n)
  PROVE  ReadIn(lines, M, n)'
<1> DEFINE c == Count(lines, n)
           p == M[c + 1]
<1>1. /\ pc = "deps" /\ pc' = "deps" /\ names # <<>> /\ names' = Tail(names)
      /\ target_list' = [target_list EXCEPT ![1].deps = <<Head(names)>> \o @]
      /\ UNCHANGED <<rest, ret>>
  BY DEF AddDependency
<1>2. /\ lines \in Seq(NonEmpty) /\ n \in 0 .. Len(lines) /\ rest = Drop(lines, n)
      /\ Done(target_list, M, c) /\ Len(target_list) = c + 1
      /\ n + 1 \in Written(lines, Len(lines)) /\ Same(target_list[1], p)
      /\ InHand(target_list[1].deps, names, p.deps)
  BY <1>1 DEF ReadIn, Spelled, ReadTo
<1>3. c \in Nat
  <2>1. PICK l \in Nat : l = Len(lines)
    BY <1>2, SeqValues
  <2>2. n + 1 \in 1 .. l /\ n \in 0 .. l
    BY <1>2, <2>1 DEF Written
  <2>3. n \in Nat /\ n + 1 <= l
    BY ONLY <2>2, l \in Nat
  <2> QED BY <1>2, <2>1, <2>3, CountIs
<1> HIDE DEF c, p
<1>4. /\ target_list \in Seq(TargetRecord) /\ target_list # <<>>
      /\ names \in Seq(NonEmpty)
  BY <1>1 DEF Inv, Types
<1>5. Head(names) \in NonEmpty
  BY <1>1, <1>4, HeadAndTail
<1>6. target_list[1].deps \in Seq(NonEmpty)
  <2>1. 1 \in DOMAIN target_list
    BY <1>4, EmptySeq, SeqValues
  <2>2. target_list[1] \in TargetRecord
    BY <1>4, <2>1, SeqValues
  <2> QED BY <2>2 DEF TargetRecord
<1>7. /\ Len(target_list') = Len(target_list)
      /\ target_list'[1].deps = <<Head(names)>> \o target_list[1].deps
      /\ target_list'[1].name = target_list[1].name
      /\ target_list'[1].command = target_list[1].command
      /\ \A k \in 1 .. c : FromEnd(target_list', k) = FromEnd(target_list, k)
  <2>1. PICK T \in Seq(TargetRecord) : T = target_list
    BY ONLY <1>4
  <2>2. PICK T2 : T2 = target_list'
    OBVIOUS
  <2>3. PICK d \in NonEmpty : d = Head(names)
    BY ONLY <1>5
  <2>4. T2 = [T EXCEPT ![1].deps = <<d>> \o @] /\ T # <<>> /\ Len(T) = c + 1
    BY ONLY <1>1, <1>2, <1>4, <2>1, <2>2, <2>3
  <2>5. /\ Len(T2) = Len(T) /\ T2[1].deps = <<d>> \o T[1].deps
        /\ T2[1].name = T[1].name /\ T2[1].command = T[1].command
        /\ \A b \in Nat : Len(T) = b + 1 => \A k \in 1 .. b : FromEnd(T2, k) = FromEnd(T, k)
    BY ONLY <2>4, T \in Seq(TargetRecord), d \in NonEmpty, FirstGets DEF FromEnd
  <2> QED BY ONLY <1>3, <2>1, <2>2, <2>3, <2>4, <2>5
<1>8. Done(target_list', M, c)
  BY ONLY <1>2, <1>7 DEF Done
<1>9. Same(target_list'[1], p)
  BY ONLY <1>2, <1>7 DEF Same
<1>10. InHand(target_list'[1].deps, names', p.deps)
  <2>1. InHand(<<Head(names)>> \o target_list[1].deps, Tail(names), p.deps)
    BY ONLY <1>1, <1>2, <1>4, <1>6, InHandNext
  <2> QED BY ONLY <1>1, <1>7, <2>1
<1>11. ReadTo(lines, M, n, pc', rest', target_list', names')
  BY ONLY <1>1, <1>2, <1>7, <1>8, <1>9, <1>10 DEF ReadTo, c, p
<1> QED BY <1>1, <1>11 DEF ReadIn

LEMMA ReadEndsLine ==
  ASSUME Inv, EndLine, NEW lines, NEW M, NEW n, ReadIn(lines, M, n)
  PROVE  ReadIn(lines, M, n + 1)'
<1> DEFINE c == Count(lines, n)
           p == M[c + 1]
<1>1. /\ pc = "deps" /\ pc' = "read" /\ names = <<>> /\ rest' = Tail(rest) /\ rest # <<>>
      /\ UNCHANGED <<names, target_list, ret>>
  BY DEF EndLine, listVars, Inv, Types
<1>2. /\ lines \in Seq(NonEmpty) /\ n \in 0 .. Len(lines) /\ rest = Drop(lines, n)
      /\ Done(target_list, M, c) /\ Len(target_list) = c + 1
      /\ n + 1 \in Written(lines, Len(lines)) /\ Same(target_list[1], p)
      /\ InHand(target_list[1].deps, names, p.deps)
  BY <1>1 DEF ReadIn, Spelled, ReadTo
<1>3. /\ n \in Nat /\ n + 1 <= Len(lines) /\ n + 1 \in 0 .. Len(lines)
      /\ Tail(rest) = Drop(lines, n + 1)
  BY <1>1, <1>2, NextLine
<1>4. c \in Nat /\ Count(lines, n + 1) = c + 1
  BY <1>2, <1>3, CountIs
<1> HIDE DEF c, p
<1>5. target_list[1].deps = Reverse(p.deps)
  <2>1. target_list \in Seq(TargetRecord) /\ target_list # <<>>
    BY <1>1 DEF Inv, Types
  <2>2. 1 \in DOMAIN target_list
    BY <2>1, EmptySeq, SeqValues
  <2>3. target_list[1].deps \in Seq(NonEmpty)
    <3>1. target_list[1] \in TargetRecord
      BY <2>1, <2>2, SeqValues
    <3> QED BY <3>1 DEF TargetRecord
  <2> QED BY ONLY <1>1, <1>2, <2>3, InHandEnds
<1>6. Done(target_list, M, c + 1)
  <2>1. (c + 1) + 1 - (c + 1) = 1 /\ \A k \in 1 .. c + 1 : k = c + 1 \/ k \in 1 .. c
    BY ONLY <1>4
  <2>2. FromEnd(target_list, c + 1) = target_list[1]
    BY ONLY <1>2, <2>1 DEF FromEnd
  <2> QED BY ONLY <1>2, <1>5, <2>1, <2>2 DEF Done, p
<1>7. ReadTo(lines, M, n + 1, pc', rest', target_list', names')
  BY ONLY <1>1, <1>2, <1>3, <1>4, <1>6 DEF ReadTo
<1> QED BY <1>1, <1>7 DEF ReadIn

LEMMA ReadEndsFile ==
  ASSUME Inv, EndFile, NEW lines, NEW M, NEW n, ReadIn(lines, M, n)
  PROVE  ReadIn(lines, M, n)'
<1>1. /\ pc = "read" /\ pc' = "end" /\ rest = <<>>
      /\ UNCHANGED <<rest, names, target_list, ret>>
  BY DEF EndFile, listVars
<1>2. /\ lines \in Seq(NonEmpty) /\ n \in 0 .. Len(lines) /\ rest = Drop(lines, n)
      /\ Done(target_list, M, Count(lines, n)) /\ Len(target_list) = Count(lines, n)
  BY <1>1 DEF ReadIn, Spelled, ReadTo
<1>3. n = Len(lines)
  BY <1>1, <1>2, NextLine
<1>4. ReadTo(lines, M, n, pc', rest', target_list', names')
  BY <1>1, <1>2, <1>3 DEF ReadTo
<1> QED BY <1>1, <1>4 DEF ReadIn

(* The file is opened at its first line, and nothing has been read.        *)
LEMMA ReadOpens ==
  ASSUME Inv, OpenFile, target_list = <<>>, ret = "SUCCESS", FollowsGrammar(in)
  PROVE  ReadIn(in.files[FileName(in.files)], in.meaning, 0)'
<1> DEFINE lines == in.files[FileName(in.files)]
           M == in.meaning
<1>1. DOMAIN in.files # {} /\ Spells(lines, M)
  <2>1. PICK name \in DOMAIN in.files :
          /\ "Remodelfile" \in DOMAIN in.files => name = "Remodelfile"
          /\ Spells(in.files[name], M)
    BY DEF FollowsGrammar
  <2>2. DOMAIN in.files \subseteq {"Remodelfile", "remodelfile"}
    BY InputAssumption DEF Inv, Types
  <2>3. name = FileName(in.files)
    BY ONLY <2>1, <2>2 DEF FileName
  <2> QED BY <2>1, <2>3
<1>2. /\ rest' = lines /\ pc' = "read" /\ ret' = "SUCCESS" /\ target_list' = <<>> /\ in' = in
  BY <1>1 DEF OpenFile, listVars
<1>3. lines \in Seq(NonEmpty) /\ M \in Seq(Production)
  <2>1. in \in Input
    BY DEF Inv, Types
  <2>2. FileName(in.files) \in DOMAIN in.files
    BY <1>1, <2>1, InputAssumption DEF FileName
  <2>3. lines \in Seq(NonEmpty)
    BY <2>1, <2>2, InputAssumption DEF NonEmpty, Text
  <2>4. M \in Seq(Production)
    BY <2>1, InputAssumption DEF Production, Text
  <2> QED BY <2>3, <2>4
<1> HIDE DEF lines, M
<1>4. Spelled(lines, M)
  BY ONLY <1>1, <1>3 DEF Spelled
<1>5. ReadTo(lines, M, 0, "read", lines, <<>>, names')
  <2>1. PICK l \in Nat : l = Len(lines)
    BY <1>3, SeqValues
  <2>2. 0 \in 0 .. l /\ l - 0 = l /\ 1 .. 0 = {} /\ \A i \in 1 .. l : 0 + i = i
    BY ONLY l \in Nat
  <2>3. Drop(lines, 0) = lines
    <3> DEFINE d == Drop(lines, 0)
    <3>1. d \in Seq(NonEmpty) /\ Len(d) = l - 0 /\ \A i \in 1 .. l - 0 : d[i] = lines[0 + i]
      BY <1>3, <2>1, <2>2, DropShortens
    <3> HIDE DEF d
    <3>2. Len(d) = Len(lines) /\ \A i \in 1 .. Len(d) : d[i] = lines[i]
      BY ONLY <2>1, <2>2, <3>1
    <3>3. d = lines
      BY ONLY <1>3, <3>1, <3>2, SeqEqual
    <3> QED BY <3>3 DEF d
  <2>4. Count(lines, 0) = 0
    <3>1. Written(lines, 0) = {}
      BY ONLY <2>2 DEF Written
    <3> QED BY ONLY <3>1, FS_EmptySet DEF Count
  <2>5. Len(<<>>) = 0
    OBVIOUS
  <2> QED BY ONLY <2>1, <2>2, <2>3, <2>4, <2>5 DEF ReadTo, Done
<1>6. in' = in /\ pc' = "read" /\ ret' = "SUCCESS" /\ rest' = lines /\ target_list' = <<>>
  BY ONLY <1>2
<1> QED BY ONLY <1>4, <1>5, <1>6 DEF lines, M, ReadIn

With(T, name) == {j \in DOMAIN T : T[j].name = name}
Naming(M, name) == {j \in DOMAIN M : name \in ToSet(M[j].targets)}
Least(F) == CHOOSE j \in F : \A i \in F : j <= i
Greatest(K) == CHOOSE j \in K : \A i \in K : i <= j

(* The first of a name in the list is the last that was read.              *)
LEMMA LastCounts ==
  ASSUME NEW T, T \in Seq(TargetRecord), NEW M, M \in Seq(Production), Len(T) = Len(M),
         Done(T, M, Len(M)), NEW name, NEW k, k \in DOMAIN M, name \in ToSet(M[k].targets),
         NEW f, f = Least(With(T, name)), NEW g, g = Greatest(Naming(M, name))
  PROVE  With(T, name) # {} /\ T[f].deps = Reverse(M[g].deps) /\ T[f].command = M[g].command
<1> DEFINE F == With(T, name)
           K == Naming(M, name)
<1>1. PICK l \in Nat : l = Len(M)
  BY SeqValues
<1>2. DOMAIN M = 1 .. l /\ DOMAIN T = 1 .. l /\ Len(T) = l
  BY <1>1, SeqValues
<1>3. \A j \in 1 .. l : /\ l + 1 - j \in 1 .. l /\ l + 1 - (l + 1 - j) = j /\ j \in Nat
                        /\ \A i \in 1 .. l : i <= l + 1 - j => j <= l + 1 - i
  BY ONLY l \in Nat
<1>4. \A j \in 1 .. l : /\ M[j].targets = <<T[l + 1 - j].name>>
                        /\ T[l + 1 - j].command = M[j].command
                        /\ T[l + 1 - j].deps = Reverse(M[j].deps)
  BY ONLY <1>1, <1>2, Done(T, M, Len(M)) DEF Done, Same, FromEnd
<1>5. \A x : ToSet(<<x>>) = {x}
  BY DEF ToSet
<1>6. \A j \in 1 .. l : j \in K <=> l + 1 - j \in F
  <2>1. ASSUME NEW j \in 1 .. l PROVE j \in K <=> l + 1 - j \in F
    <3>1. PICK b \in 1 .. l : b = l + 1 - j
      BY <1>3
    <3>2. M[j].targets = <<T[b].name>>
      BY <1>4, <3>1
    <3>3. name \in ToSet(M[j].targets) <=> T[b].name = name
      BY ONLY <1>5, <3>2
    <3>4. j \in K <=> name \in ToSet(M[j].targets)
      BY ONLY <1>2, j \in 1 .. l DEF K, Naming
    <3>5. b \in F <=> T[b].name = name
      BY ONLY <1>2, b \in 1 .. l DEF F, With
    <3> QED BY ONLY <3>1, <3>3, <3>4, <3>5
  <2> QED BY <2>1
<1>7. F \subseteq 1 .. l /\ K \subseteq 1 .. l /\ k \in K
  BY <1>2 DEF With, Naming
<1> HIDE DEF F, K
<1>8. PICK a \in F : \A i \in F : a <= i
  <2>1. l + 1 - k \in F /\ F \in SUBSET Nat
    BY ONLY <1>3, <1>6, <1>7
  <2> QED BY <2>1, LeastNumber
<1>9. l + 1 - a \in K /\ \A i \in K : i <= l + 1 - a
  <2>1. a \in 1 .. l
    BY <1>7
  <2>2. l + 1 - a \in K
    BY ONLY <1>3, <1>6, <2>1, a \in F
  <2>3. ASSUME NEW i \in K PROVE i <= l + 1 - a
    <3>1. i \in 1 .. l /\ l + 1 - i \in F
      BY ONLY <1>6, <1>7, i \in K
    <3>2. a <= l + 1 - i
      BY ONLY <1>8, <3>1
    <3> QED BY ONLY <3>1, <3>2, <2>1, l \in Nat
  <2> QED BY <2>2, <2>3
<1>10. f = a
  <2>1. f \in F /\ \A i \in F : f <= i
    BY <1>8 DEF Least, F
  <2>2. f <= a /\ a <= f /\ f \in 1 .. l /\ a \in 1 .. l
    BY ONLY <1>7, <1>8, <2>1
  <2> QED BY ONLY <2>2
<1>11. g = l + 1 - a
  <2>1. PICK b : b = l + 1 - a /\ b \in K /\ \A i \in K : i <= b
    BY <1>9
  <2>2. g \in K /\ \A i \in K : i <= g
    BY <2>1 DEF Greatest, K
  <2>3. g <= b /\ b <= g /\ g \in 1 .. l /\ b \in 1 .. l
    BY ONLY <1>7, <2>1, <2>2
  <2>4. g = b
    BY ONLY <2>3
  <2> QED BY ONLY <2>1, <2>4
<1>12. g \in 1 .. l /\ l + 1 - g = a
  BY ONLY <1>3, <1>7, <1>8, <1>11, a \in F
<1>13. T[a].deps = Reverse(M[g].deps) /\ T[a].command = M[g].command
  BY ONLY <1>4, <1>12
<1> QED BY ONLY <1>8, <1>10, <1>13 DEF F

(* Until the file is open nothing has been found; then the reading is      *)
(* somewhere in it, and has read what the lines above mean.                *)
Reading ==
  in.meaning # <<>> =>
    /\ pc = "open" => target_list = <<>> /\ ret = "SUCCESS"
    /\ pc # "open" => \E n \in Nat : ReadIn(in.files[FileName(in.files)], in.meaning, n)

LEMMA ReadingGoesOn ==
  ASSUME Inv, Reading, Next, in.meaning # <<>> => FollowsGrammar(in)
  PROVE  Reading'
<1>1. in' = in
  BY DEF Next, OpenFile, SkipLine, RejectLine, AddTarget, AddDependency, EndLine, EndFile,
         Ended, vars
<1> SUFFICES ASSUME in.meaning # <<>>
             PROVE  /\ pc' # "open"
                    /\ \E n \in Nat : ReadIn(in.files[FileName(in.files)], in.meaning, n)'
  BY <1>1 DEF Reading
<1>2. CASE OpenFile
  <2>1. pc' # "open"
    BY <1>2 DEF OpenFile
  <2>2. target_list = <<>> /\ ret = "SUCCESS"
    BY <1>2 DEF OpenFile, Reading
  <2>3. ReadIn(in.files[FileName(in.files)], in.meaning, 0)'
    BY <1>2, <2>2, ReadOpens
  <2> QED BY <2>1, <2>3
<1>3. CASE ~OpenFile
  <2>1. pc # "open" /\ pc' # "open"
    BY <1>3 DEF Next, SkipLine, RejectLine, AddTarget, AddDependency, EndLine, EndFile,
                Ended, vars
  <2>2. PICK n \in Nat : ReadIn(in.files[FileName(in.files)], in.meaning, n)
    BY <2>1 DEF Reading
  <2>3. PICK lines, M : lines = in.files[FileName(in.files)] /\ M = in.meaning
    OBVIOUS
  <2>4. ReadIn(lines, M, n)
    BY <2>2, <2>3
  <2>5. n + 1 \in Nat
    OBVIOUS
  <2>6. ASSUME NEW m \in Nat, ReadIn(lines, M, m)'
        PROVE  ReadIn(in.files[FileName(in.files)], in.meaning, m)'
    BY <1>1, <2>3, <2>6 DEF ReadIn
  <2>7. \E m \in Nat : ReadIn(lines, M, m)'
    <3>1. CASE SkipLine BY <2>4, <2>5, <3>1, ReadSkips
    <3>2. CASE RejectLine BY <2>4, <3>2, ReadDoesNotReject
    <3>3. CASE AddTarget BY <2>4, <3>3, ReadAddsTarget
    <3>4. CASE AddDependency BY <2>4, <3>4, ReadAddsDependency
    <3>5. CASE EndLine BY <2>4, <2>5, <3>5, ReadEndsLine
    <3>6. CASE EndFile BY <2>4, <3>6, ReadEndsFile
    <3>7. CASE Ended BY <2>4, <3>7 DEF Ended, vars, listVars, ReadIn
    <3> QED BY <1>3, <3>1, <3>2, <3>3, <3>4, <3>5, <3>6, <3>7 DEF Next
  <2> QED BY <2>1, <2>6, <2>7
<1> QED BY <1>2, <1>3

-----------------------------------------------------------------------------
(* The theorems *)

(* Whatever the file holds, file_parse_line() leaves lists without an      *)
(* empty name, of a target or of a dependency, and counts that are never   *)
(* negative.                                                               *)
THEOREM FileTypes == Spec => []TypeOK
<1>1. ASSUME Inv PROVE TypeOK
  <2>1. Types
    BY <1>1 DEF Inv
  <2>2. ASSUME NEW q \in Seq(NonEmpty) PROVE <<>> \notin ToSet(q)
    BY SeqValues DEF ToSet, NonEmpty
  <2>3. ASSUME NEW t \in ToSet(target_list) PROVE t.name # <<>> /\ <<>> \notin DepsOf(t)
    <3>1. t \in TargetRecord
      BY <2>1, SeqValues DEF ToSet, Types
    <3>2. t.name \in NonEmpty /\ t.deps \in Seq(NonEmpty)
      BY <3>1 DEF TargetRecord
    <3> QED BY <2>2, <3>2 DEF DepsOf, NonEmpty
  <2>4. <<>> \notin ToSet(srcfile_list) /\ <<>> \notin ToSet(names)
    BY <2>1, <2>2 DEF Types
  <2> QED BY <2>1, <2>3, <2>4 DEF Types, TypeOK
<1> QED BY <1>1, Invariant, PTL

(* add_src_node() keeps the list of sources as it should be: after every   *)
(* dependency that is added, each source that a target names is in it, and *)
(* is in it once; so file.c:413 finds every source that it looks for.      *)
THEOREM SourcesListed == Spec => []SourcesAreListed
<1>1. ASSUME Inv PROVE SourcesAreListed
  BY <1>1, NamedIs DEF Inv, Agree, SourcesAreListed
<1> QED BY <1>1, Invariant, PTL

(* Between two lines, and when a line was rejected, every buffer and node  *)
(* that file_parse_line() allocated is one that the two lists lead to.     *)
THEOREM NothingLost == Spec => []NothingIsLost
<1>1. ASSUME Inv PROVE NothingIsLost
  <2>1. DependencyNodes = DepNodes(target_list)
    BY DEF DependencyNodes, DepNodes
  <2>2. pc \in {"read", "end"} => Buffers(pc) = 0
    BY DEF Buffers
  <2> QED BY <1>1, <2>1, <2>2 DEF Inv, Counted, NothingIsLost
<1> QED BY <1>1, Invariant, PTL

(* What sscanf copies out of a line, of any length, and the 0 that ends it *)
(* fit into the buffers of file.c:148-149.                                 *)
THEOREM BuffersSuffice == Spec => []ConversionsFit
<1>1. ASSUME Inv PROVE ConversionsFit
  <2>1. SUFFICES ASSUME rest # <<>>
                 PROVE  /\ Len(Scan(Head(rest)).deps) < Len(Head(rest))
                        /\ Len(Scan(Head(rest)).command) < Len(Head(rest))
    BY DEF ConversionsFit, BufferSize
  <2>2. Head(rest) \in NonEmpty
    BY <1>1, <2>1, HeadAndTail DEF Inv, Types
  <2>3. Head(rest) \in Seq(STRING) /\ Head(rest) # <<>>
    BY <2>2 DEF NonEmpty, Text
  <2> QED BY <2>3, ScanFits
<1> QED BY <1>1, Invariant, PTL

(* A file that follows the grammar of README:22-25, each production with   *)
(* one target, is read to its end without an error, and each target is     *)
(* found with the dependencies and the command of the last production of   *)
(* its name, whatever blanks and blank lines there are and however many    *)
(* productions.                                                            *)
THEOREM GrammarIsRead ==
  ASSUME \A i \in Input : i.meaning # <<>> => FollowsGrammar(i)
  PROVE  Spec => []ReadsProductions
<1>1. Init => Reading
  BY DEF Init, Reading
<1>2. Inv /\ Reading /\ [Next]_vars => Reading'
  <2>1. ASSUME Inv, Reading, Next PROVE Reading'
    <3>1. in.meaning # <<>> => FollowsGrammar(in)
      BY <2>1 DEF Inv, Types
    <3> QED BY <2>1, <3>1, ReadingGoesOn
  <2>2. ASSUME Reading, UNCHANGED vars PROVE Reading'
    BY <2>2 DEF vars, listVars, Reading, ReadIn
  <2> QED BY <2>1, <2>2
<1>3. Inv /\ Reading => ReadsProductions
  <2> SUFFICES ASSUME Inv, Reading, pc = "end", in.meaning # <<>>
               PROVE  /\ ret = "SUCCESS"
                      /\ \A p \in ToSet(in.meaning) : \A name \in ToSet(p.targets) :
                           /\ Found(name) # {}
                           /\ GetTarget(name).deps = Reverse(MeaningOf(name).deps)
                           /\ GetTarget(name).command = MeaningOf(name).command
    BY DEF ReadsProductions
  <2>1. PICK lines, M : lines = in.files[FileName(in.files)] /\ M = in.meaning
    OBVIOUS
  <2>2. PICK n \in Nat : ReadIn(lines, M, n)
    BY <2>1 DEF Reading
  <2>3. /\ ret = "SUCCESS" /\ Spelled(lines, M) /\ n = Len(lines)
        /\ Done(target_list, M, Count(lines, n)) /\ Len(target_list) = Count(lines, n)
    BY <2>2 DEF ReadIn, ReadTo
  <2>4. Len(M) = Count(lines, n) /\ M \in Seq(Production)
    BY <2>3, SpelledIs DEF Spelled
  <2>5. target_list \in Seq(TargetRecord)
    BY DEF Inv, Types
  <2>6. ASSUME NEW k \in DOMAIN M, NEW name \in ToSet(M[k].targets)
        PROVE  /\ Found(name) # {}
               /\ GetTarget(name).deps = Reverse(MeaningOf(name).deps)
               /\ GetTarget(name).command = MeaningOf(name).command
    <3>1. PICK T : T = target_list
      OBVIOUS
    <3>2. PICK f, g : f = Least(With(T, name)) /\ g = Greatest(Naming(M, name))
      OBVIOUS
    <3>3. Len(T) = Len(M) /\ Done(T, M, Len(M)) /\ T \in Seq(TargetRecord)
      BY ONLY <2>3, <2>4, <2>5, <3>1
    <3>4. With(T, name) # {} /\ T[f].deps = Reverse(M[g].deps) /\ T[f].command = M[g].command
      BY ONLY <2>4, <3>2, <3>3, k \in DOMAIN M, name \in ToSet(M[k].targets), LastCounts
    <3>5. Found(name) = With(T, name) /\ GetTarget(name) = T[f] /\ MeaningOf(name) = M[g]
      BY ONLY <2>1, <3>1, <3>2 DEF Found, GetTarget, MeaningOf, Least, With, Greatest, Naming
    <3> QED BY ONLY <3>4, <3>5
  <2>7. \A p \in ToSet(in.meaning) : \E k \in DOMAIN M : p = M[k]
    BY <2>1 DEF ToSet
  <2> QED BY <2>3, <2>6, <2>7
<1> QED BY <1>1, <1>2, <1>3, Invariant, PTL DEF Spec
=============================================================================
