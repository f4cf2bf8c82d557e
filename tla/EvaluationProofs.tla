-------------------------- MODULE EvaluationProofs --------------------------
(***************************************************************************)
(* What the runs of ChangeEvaluation and DecisionTable check on a few      *)
(* diffs and findings, for every diff and tree and for every finding.      *)
(*                                                                         *)
(* The argument for the diffs: a recursive function is there and has its   *)
(* type (RunExists, RunIsTyped); so parsing gives hunks of lines           *)
(* (FilesAreTyped); each turn of _apply_hunks copies the lines up to a     *)
(* place where the hunk is found and puts in its new ones (TurnAdds), and  *)
(* what has been put out stays (OutputStays); so the places of the hunks   *)
(* on both sides are the ones IsPatch asks for (AppliedIsDescribed); and   *)
(* reconstruct_file only ever returns what applying or reversing the hunks *)
(* gave (ReconstructIsRebuilt).                                            *)
(*                                                                         *)
(* And for the verdicts: hunks that can be told are located where they are *)
(* (LocatedAsTold), so after each turn the output is what the other side   *)
(* begins with (TurnAsTold) and in the end that side (AppliedAsTold); a    *)
(* hunk that is nowhere stops all of it (ForeignFails); so either tree     *)
(* gives the same two sides (ReconstructIsDetermined) and digests          *)
(* (DigestsAreDetermined), and every step leaves the findings that the     *)
(* change alone determines (VerdictDetermined), whatever the graph adds.   *)
(*                                                                         *)
(* What is lost is among the findings, with the severity and in the mode   *)
(* of its policy (ValidationsFind, FileFindsLoss, PythonFindsLoss); what   *)
(* the impact analysis adds is never a violation (ImpactIsNoViolation); so *)
(* the decision holds the loss as its policy asks (VerdictHoldsLoss).  The *)
(* decisions on findings alone need no more than types.                    *)
(***************************************************************************)
EXTENDS ChangeEvaluation, DecisionTable, TLAPS, FiniteSetTheorems, SequenceTheorems

(* Induction over the numbers up to n, for a set.                          *)
LEMMA UpTo ==
    ASSUME NEW n \in Nat, NEW S, 0 \in S, \A k \in 0..(n - 1) : k \in S => k + 1 \in S
    PROVE  \A k \in 0..n : k \in S
<1> DEFINE R == OpToRel(<, Nat)
           Left == (0..n) \ S
<1> SUFFICES ASSUME Left # {} PROVE FALSE OBVIOUS
<1>1. IsWellFoundedOn(R, Nat) BY NatLessThanWellFounded
<1>2. \A i, j \in Nat : i < j => <<i, j>> \in R BY DEF OpToRel
<1>3. Left \subseteq Nat OBVIOUS
<1> HIDE DEF R, Left
<1>4. PICK k \in Left : \A j \in Left : ~(<<j, k>> \in R) BY <1>1, <1>3, WFMin
<1>5. k \in 0..n /\ k \notin S /\ k # 0 BY <1>4 DEF Left
<1>6. k - 1 \in 0..(n - 1) /\ (k - 1) + 1 = k /\ k - 1 < k BY <1>5
<1>7. k - 1 \in S
  <2>1. k - 1 \notin Left BY <1>2, <1>3, <1>4, <1>5, <1>6
  <2> QED BY <1>6, <2>1 DEF Left
<1> QED BY <1>5, <1>6, <1>7

(* A recursive function exists: what comes next is any function of the     *)
(* place and of what came before.                                          *)
Runs(f, n, D, a, next) ==
    f \in [0..n -> D] /\ f[0] = a /\ \A k \in 1..n : f[k] = next[k][f[k - 1]]

LEMMA RunExists ==
    ASSUME NEW n \in Nat, NEW D, NEW a \in D, NEW next \in [1..n -> [D -> D]]
    PROVE  \E f : Runs(f, n, D, a, next)
<1> DEFINE Run(m, f) == f \in [0..m -> D] /\ f[0] = a /\ \A k \in 1..m : f[k] = next[k][f[k - 1]]
           S == {m \in 0..n : \E f : Run(m, f)}
<1>1. 0 \in S
  <2>1. Run(0, [k \in 0..0 |-> a]) OBVIOUS
  <2> HIDE DEF Run
  <2> QED BY <2>1
<1>2. ASSUME NEW m \in 0..(n - 1), m \in S PROVE m + 1 \in S
  <2>1. PICK f : Run(m, f) BY <1>2
  <2> DEFINE g == [k \in 0..(m + 1) |-> IF k = m + 1 THEN next[m + 1][f[m]] ELSE f[k]]
  <2>2. f[m] \in D /\ m + 1 \in 1..n /\ next[m + 1][f[m]] \in D BY <2>1
  <2>3. g \in [0..(m + 1) -> D] /\ g[0] = a BY <2>1, <2>2
  <2>4. ASSUME NEW k \in 1..(m + 1) PROVE g[k] = next[k][g[k - 1]]
    <3>1. CASE k = m + 1 BY <2>1, <3>1
    <3>2. CASE k # m + 1
      <4>1. k \in 1..m /\ k - 1 \in 0..m BY <3>2
      <4>2. g[k] = f[k] /\ g[k - 1] = f[k - 1] BY <4>1
      <4> QED BY <2>1, <4>1, <4>2
    <3> QED BY <3>1, <3>2
  <2>5. Run(m + 1, g) BY <2>3, <2>4
  <2> HIDE DEF Run, g
  <2> QED BY <2>5
<1> HIDE DEF S
<1>3. \A m \in 0..n : m \in S BY <1>1, <1>2, UpTo
<1>4. PICK f : Run(n, f) BY <1>3 DEF S
<1>5. Runs(f, n, D, a, next) BY <1>4 DEF Runs
<1> QED BY <1>5

LEMMA RunIsTyped ==
    ASSUME NEW n \in Nat, NEW D, NEW f, f[0] \in D,
           \A k \in 1..n : f[k - 1] \in D => f[k] \in D
    PROVE  \A k \in 0..n : f[k] \in D
<1> DEFINE S == {k \in 0..n : f[k] \in D}
<1>1. 0 \in S OBVIOUS
<1>2. ASSUME NEW k \in 0..(n - 1), k \in S PROVE k + 1 \in S
  <2>1. k + 1 \in 1..n /\ (k + 1) - 1 = k OBVIOUS
  <2> QED BY <1>2, <2>1
<1> HIDE DEF S
<1>3. \A k \in 0..n : k \in S BY <1>1, <1>2, UpTo
<1> QED BY <1>3 DEF S

-----------------------------------------------------------------------------
(* What is picked of a sequence is a sequence of what was wanted.          *)
LEMMA PickedIsSeq ==
    ASSUME NEW T, NEW s \in Seq(T), NEW wanted
    PROVE  Picked(s, wanted) \in Seq(T \cap wanted)
<1> DEFINE n == Len(s)
           D == Seq(T \cap wanted)
           Further(i, done) == IF s[i] \in wanted THEN Append(done, s[i]) ELSE done
           Def(f) == f = [i \in 0..n |-> IF i = 0 THEN <<>>
                                         ELSE IF s[i] \in wanted THEN Append(f[i - 1], s[i])
                                         ELSE f[i - 1]]
           next == [i \in 1..n |-> [done \in D |-> Further(i, done)]]
<1>1. n \in Nat /\ \A i \in 1..n : s[i] \in T OBVIOUS
<1>2. \A i \in 1..n, done \in D : Further(i, done) \in D BY <1>1
<1>3. next \in [1..n -> [D -> D]] /\ <<>> \in D BY <1>2
<1>4. \A i \in 1..n, done \in D : next[i][done] = Further(i, done) OBVIOUS
<1>5. PICK f : Runs(f, n, D, <<>>, next)
  <2> HIDE DEF D, n, next, Def, Further
  <2> QED BY <1>1, <1>3, RunExists
<1> HIDE DEF next
<1>6. \E h : Def(h)
  <2>1. f = [i \in 0..n |-> f[i]] BY <1>5 DEF Runs
  <2>2. ASSUME NEW i \in 0..n
        PROVE  f[i] = IF i = 0 THEN <<>> ELSE Further(i, f[i - 1])
    <3>1. CASE i = 0 BY <1>5, <3>1 DEF Runs
    <3>2. CASE i # 0
      <4>1. i \in 1..n /\ i - 1 \in 0..n BY <1>1, <3>2
      <4>2. f[i - 1] \in D BY <1>5, <4>1 DEF Runs
      <4> HIDE DEF Further, D, n
      <4> QED BY <1>4, <1>5, <3>2, <4>1, <4>2 DEF Runs
    <3> QED BY <3>1, <3>2
  <2>3. Def(f) BY <2>1, <2>2
  <2> HIDE DEF Def
  <2> QED BY <2>3
<1> DEFINE g == CHOOSE h : Def(h)
<1>7. Picked(s, wanted) = g[n] BY Zenon DEF Picked
<1>8. Def(g)
  <2> HIDE DEF Def
  <2> QED BY <1>6
<1> HIDE DEF g
<1>9. g[0] = <<>> BY <1>1, <1>8
<1>10. ASSUME NEW k \in 1..n PROVE g[k] = Further(k, g[k - 1])
  <2>1. k \in 0..n /\ k # 0 BY <1>1
  <2> HIDE DEF n
  <2> QED BY <1>8, <2>1
<1> HIDE DEF Further, Def, n
<1>11. \A k \in 0..n : g[k] \in D
  <2>1. \A k \in 1..n : g[k - 1] \in D => g[k] \in D BY <1>2, <1>10
  <2> HIDE DEF D
  <2> QED BY <1>1, <1>3, <1>9, <2>1, RunIsTyped
<1> QED BY <1>1, <1>7, <1>11

(* Each part of a diff is a sequence of its lines, the first of the kind.  *)
Starting(T, kind) == {p \in Seq(T) : p # <<>> /\ p[1].is = kind}

LEMMA PartsStart ==
    ASSUME NEW T, NEW s \in Seq(T), NEW kind
    PROVE  Parts(s, kind) \in Seq(Starting(T, kind))
<1> DEFINE n == Len(s)
           D == Seq(Starting(T, kind))
           Further(i, begun) ==
               IF s[i].is = kind THEN Append(begun, <<s[i]>>)
               ELSE IF begun = <<>> THEN <<>>
               ELSE [begun EXCEPT ![Len(begun)] = Append(@, s[i])]
           Def(f) == f = [i \in 0..n |-> IF i = 0 THEN <<>> ELSE Further(i, f[i - 1])]
           next == [i \in 1..n |-> [begun \in D |-> Further(i, begun)]]
<1>1. n \in Nat /\ \A i \in 1..n : s[i] \in T OBVIOUS
<1>2. ASSUME NEW i \in 1..n, NEW begun \in D PROVE Further(i, begun) \in D
  <2>1. CASE s[i].is = kind
    <3>1. <<s[i]>> \in Starting(T, kind) BY <1>1, <2>1 DEF Starting
    <3>2. Append(begun, <<s[i]>>) \in D BY <3>1, AppendProperties
    <3> QED BY <2>1, <3>2
  <2>2. CASE s[i].is # kind /\ begun # <<>>
    <3> DEFINE last == begun[Len(begun)]
    <3>1. Len(begun) \in 1..Len(begun) BY <2>2, EmptySeq
    <3>2. last \in Starting(T, kind) BY <3>1, ElementOfSeq
    <3>3. last \in Seq(T) /\ last # <<>> /\ last[1].is = kind BY <3>2 DEF Starting
    <3> HIDE DEF last
    <3>4. Append(last, s[i]) \in Starting(T, kind)
      <4>1. Append(last, s[i]) \in Seq(T) /\ Append(last, s[i]) # <<>>
        BY <1>1, <3>3, AppendProperties
      <4>2. 1 \in 1..Len(last) BY <3>3, EmptySeq
      <4>3. Append(last, s[i])[1] = last[1] BY <1>1, <3>3, <4>2, AppendProperties
      <4> QED BY <3>3, <4>1, <4>3 DEF Starting
    <3>5. [begun EXCEPT ![Len(begun)] = Append(last, s[i])] \in D
      BY <3>1, <3>4, ExceptSeq
    <3> QED BY <2>2, <3>5 DEF last
  <2>3. CASE s[i].is # kind /\ begun = <<>> BY <2>3
  <2> QED BY <2>1, <2>2, <2>3
<1> HIDE DEF Further
<1>3. next \in [1..n -> [D -> D]] /\ <<>> \in D BY <1>2
<1>4. \A i \in 1..n, begun \in D : next[i][begun] = Further(i, begun) OBVIOUS
<1>5. PICK f : Runs(f, n, D, <<>>, next)
  <2> HIDE DEF D, n, next, Def
  <2> QED BY <1>1, <1>3, RunExists
<1> HIDE DEF next
<1>6. \E h : Def(h)
  <2>1. f = [i \in 0..n |-> f[i]] BY <1>5 DEF Runs
  <2>2. ASSUME NEW i \in 0..n
        PROVE  f[i] = IF i = 0 THEN <<>> ELSE Further(i, f[i - 1])
    <3>1. CASE i = 0 BY <1>5, <3>1 DEF Runs
    <3>2. CASE i # 0
      <4>1. i \in 1..n /\ i - 1 \in 0..n BY <1>1, <3>2
      <4>2. f[i - 1] \in D BY <1>5, <4>1 DEF Runs
      <4> HIDE DEF D, n
      <4> QED BY <1>4, <1>5, <3>2, <4>1, <4>2 DEF Runs
    <3> QED BY <3>1, <3>2
  <2>3. Def(f) BY <2>1, <2>2
  <2> HIDE DEF Def
  <2> QED BY <2>3
<1> DEFINE g == CHOOSE h : Def(h)
<1>7. Parts(s, kind) = g[n] BY Zenon DEF Parts, Further
<1>8. Def(g)
  <2> HIDE DEF Def
  <2> QED BY <1>6
<1> HIDE DEF g
<1>9. g[0] = <<>> BY <1>1, <1>8
<1>10. ASSUME NEW k \in 1..n PROVE g[k] = Further(k, g[k - 1])
  <2>1. k \in 0..n /\ k # 0 BY <1>1
  <2> HIDE DEF n
  <2> QED BY <1>8, <2>1
<1> HIDE DEF Def, n
<1>11. \A k \in 0..n : g[k] \in D
  <2>1. \A k \in 1..n : g[k - 1] \in D => g[k] \in D BY <1>2, <1>10
  <2> HIDE DEF D
  <2> QED BY <1>1, <1>3, <1>9, <2>1, RunIsTyped
<1> QED BY <1>1, <1>7, <1>11

-----------------------------------------------------------------------------
(* The lines of one side of a hunk.                                        *)
HunkLine == [mark : {"-", "+", " "}, text : STRING]
HunkType == [old : Nat, new : Nat, lines : Seq(HunkLine), noeol : BOOLEAN]

LEMMA SideIsSeq ==
    ASSUME NEW lines \in Seq(HunkLine), NEW mark
    PROVE  Side(lines, mark) \in Seq(STRING)
<1> DEFINE wanted == {l \in ToSet(lines) : l.mark \in {" ", mark}}
           marked == Marked(lines, {" ", mark})
<1>1. marked = Picked(lines, wanted) BY DEF Marked
<1>2. Picked(lines, wanted) \in Seq(HunkLine \cap wanted)
  <2> HIDE DEF wanted
  <2> QED BY PickedIsSeq
<1>3. marked \in Seq(HunkLine)
  <2> HIDE DEF wanted, marked
  <2>1. HunkLine \cap wanted \subseteq HunkLine OBVIOUS
  <2> QED BY <1>1, <1>2, <2>1, SeqMonotonic
<1> HIDE DEF marked
<1>4. ASSUME NEW i \in 1..Len(marked) PROVE marked[i].text \in STRING
  <2>1. marked[i] \in HunkLine BY <1>3, ElementOfSeq
  <2> QED BY <2>1 DEF HunkLine
<1>5. Texts(marked) \in Seq(STRING) BY <1>3, <1>4 DEF Texts
<1> QED BY <1>5 DEF Side, marked

(* Where a hunk is located, it is found, and not before the last one.      *)
LEMMA LocateFits ==
    ASSUME NEW base \in Seq(STRING), NEW expected \in Seq(STRING),
           NEW preferred \in Int, NEW minimum \in Nat
    PROVE  LET at == Locate(base, expected, preferred, minimum)
           IN  /\ at \in Nat
               /\ at <= Len(base) =>
                     /\ minimum <= at /\ at + Len(expected) <= Len(base)
                     /\ FoundAt(base, expected, at)
<1> DEFINE places == {p \in minimum..(Len(base) - Len(expected)) : FoundAt(base, expected, p)}
           at == Locate(base, expected, preferred, minimum)
<1>1. Len(base) \in Nat /\ Len(expected) \in Nat OBVIOUS
<1>2. CASE preferred >= minimum /\ FoundAt(base, expected, preferred)
  <2>1. at = preferred BY <1>2 DEF Locate
  <2>2. preferred + Len(expected) <= Len(base) BY <1>2 DEF FoundAt
  <2> QED BY <1>1, <1>2, <2>1, <2>2
<1>3. CASE /\ ~(preferred >= minimum /\ FoundAt(base, expected, preferred))
           /\ expected # <<>> /\ Cardinality(places) = 1
  <2>1. at = CHOOSE p \in places : TRUE BY <1>3 DEF Locate
  <2>2. places # {}
    <3>1. Cardinality({}) = 0 /\ 1 # 0 BY FS_EmptySet
    <3>2. Cardinality(places) = 1 BY <1>3
    <3>3. Cardinality(places) # Cardinality({})
      <4> HIDE DEF places
      <4> QED BY <3>1, <3>2
    <3> HIDE DEF places
    <3> QED BY <3>3, Zenon
  <2>3. at \in places BY <2>1, <2>2
  <2> QED BY <1>1, <2>3
<1>4. CASE /\ ~(preferred >= minimum /\ FoundAt(base, expected, preferred))
           /\ ~(expected # <<>> /\ Cardinality(places) = 1)
  <2>1. at = Len(base) + 1 BY <1>4 DEF Locate
  <2> QED BY <1>1, <2>1
<1> QED BY <1>2, <1>3, <1>4

-----------------------------------------------------------------------------
(* One turn of _apply_hunks, and what it can lead to.                      *)
Wanted(hunk, gone) ==
    LET start == IF gone = "-" THEN hunk.old ELSE hunk.new
    IN  IF start = 0 THEN 0 ELSE start - 1
Place(base, hunk, gone, done) ==
    Locate(base, Side(hunk.lines, gone), Wanted(hunk, gone), done.cursor)
Turn(base, hunk, gone, come, done) ==
    IF done = Mismatch THEN Mismatch
    ELSE IF Place(base, hunk, gone, done) > Len(base) THEN Mismatch
    ELSE [cursor |-> Place(base, hunk, gone, done) + Len(Side(hunk.lines, gone)),
          output |-> done.output
                       \o SubSeq(base, done.cursor + 1, Place(base, hunk, gone, done))
                       \o Side(hunk.lines, come)]

Going(base) == [cursor : 0..Len(base), output : Seq(STRING)]
Begun == [cursor |-> 0, output |-> <<>>]

(* The place of a hunk, between the last one and the end of the file.      *)
LEMMA PlaceFits ==
    ASSUME NEW base \in Seq(STRING), NEW hunk \in HunkType, NEW gone,
           NEW done \in Going(base), Place(base, hunk, gone, done) <= Len(base)
    PROVE  LET at == Place(base, hunk, gone, done)
               old == Side(hunk.lines, gone)
           IN  /\ at \in done.cursor..Len(base)
               /\ old \in Seq(STRING) /\ at + Len(old) \in 0..Len(base)
               /\ SubSeq(base, at + 1, at + Len(old)) = old
<1> DEFINE at == Place(base, hunk, gone, done)
           old == Side(hunk.lines, gone)
<1>1. hunk.lines \in Seq(HunkLine) /\ hunk.old \in Nat /\ hunk.new \in Nat BY DEF HunkType
<1>2. old \in Seq(STRING) BY <1>1, SideIsSeq
<1>3. Wanted(hunk, gone) \in Int BY <1>1 DEF Wanted
<1>4. done.cursor \in 0..Len(base) BY DEF Going
<1>5. Len(base) \in Nat /\ Len(old) \in Nat BY <1>2
<1> HIDE DEF old
<1>6. at = Locate(base, old, Wanted(hunk, gone), done.cursor) BY DEF Place, old
<1>7. done.cursor \in Nat BY <1>4, <1>5
<1> HIDE DEF at
<1>8. at \in Nat /\ (at <= Len(base) => /\ done.cursor <= at /\ at + Len(old) <= Len(base)
                                        /\ FoundAt(base, old, at))
  BY <1>2, <1>3, <1>6, <1>7, LocateFits
<1>9. at <= Len(base) BY DEF at
<1>10. SubSeq(base, at + 1, at + Len(old)) = old BY <1>8, <1>9 DEF FoundAt
<1> QED BY <1>2, <1>4, <1>5, <1>7, <1>8, <1>9, <1>10 DEF at, old

LEMMA TurnIsTyped ==
    ASSUME NEW base \in Seq(STRING), NEW hunk \in HunkType, NEW gone, NEW come,
           NEW done \in {Mismatch} \cup Going(base)
    PROVE  Turn(base, hunk, gone, come, done) \in {Mismatch} \cup Going(base)
<1> DEFINE at == Place(base, hunk, gone, done)
           old == Side(hunk.lines, gone)
           new == Side(hunk.lines, come)
<1> SUFFICES ASSUME done # Mismatch, at <= Len(base)
             PROVE  Turn(base, hunk, gone, come, done) \in Going(base)
  <2>1. done = Mismatch => Turn(base, hunk, gone, come, done) = Mismatch BY DEF Turn
  <2>2. done # Mismatch /\ at > Len(base) => Turn(base, hunk, gone, come, done) = Mismatch
    BY DEF Turn
  <2>3. done # Mismatch /\ ~(at > Len(base)) => at <= Len(base)
    <3> SUFFICES ASSUME done # Mismatch PROVE at \in Nat
      OBVIOUS
    <3>1. done \in Going(base) OBVIOUS
    <3>2. hunk.lines \in Seq(HunkLine) /\ hunk.old \in Nat /\ hunk.new \in Nat BY DEF HunkType
    <3>3. old \in Seq(STRING) BY <3>2, SideIsSeq
    <3>4. Wanted(hunk, gone) \in Int BY <3>2 DEF Wanted
    <3>5. done.cursor \in Nat BY <3>1 DEF Going
    <3> QED BY <3>3, <3>4, <3>5, LocateFits DEF Place
  <2> QED BY <2>1, <2>2, <2>3
<1>1. done \in Going(base) OBVIOUS
<1>2. /\ at \in done.cursor..Len(base)
      /\ old \in Seq(STRING) /\ at + Len(old) \in 0..Len(base)
  BY <1>1, PlaceFits
<1>3. new \in Seq(STRING)
  <2>1. hunk.lines \in Seq(HunkLine) BY DEF HunkType
  <2> QED BY <2>1, SideIsSeq
<1>4. done.output \in Seq(STRING) /\ done.cursor \in Nat BY <1>1 DEF Going
<1> DEFINE gap == SubSeq(base, done.cursor + 1, at)
<1>5. gap \in Seq(STRING)
  <2>1. \A i \in (done.cursor + 1)..at : base[i] \in STRING
    BY <1>2, <1>4
  <2>2. done.cursor + 1 \in Int /\ at \in Int BY <1>2, <1>4
  <2> HIDE DEF at
  <2> QED BY <2>1, <2>2, SubSeqProperties
<1>6. Turn(base, hunk, gone, come, done)
        = [cursor |-> at + Len(old), output |-> done.output \o gap \o new]
  <2>1. ~(at > Len(base)) BY <1>2
  <2> QED BY <2>1 DEF Turn
<1> HIDE DEF at, old, new, gap
<1>7. done.output \o gap \o new \in Seq(STRING)
  BY <1>3, <1>4, <1>5, ConcatProperties
<1> QED BY <1>2, <1>6, <1>7 DEF Going

(* _apply_hunks turn by turn.                                              *)
Steps(g, base, hunks, gone, come) ==
    /\ Applied(base, hunks, gone, come) = g[Len(hunks)]
    /\ g[0] = Begun
    /\ \A k \in 1..Len(hunks) : g[k] = Turn(base, hunks[k], gone, come, g[k - 1])
    /\ \A k \in 0..Len(hunks) : g[k] \in {Mismatch} \cup Going(base)

LEMMA AppliedSteps ==
    ASSUME NEW base \in Seq(STRING), NEW hunks \in Seq(HunkType), NEW gone, NEW come
    PROVE  \E g : Steps(g, base, hunks, gone, come)
<1> DEFINE n == Len(hunks)
           D == {Mismatch} \cup Going(base)
           Further(k, done) == Turn(base, hunks[k], gone, come, done)
           Def(f) == f = [k \in 0..n |-> IF k = 0 THEN Begun ELSE Further(k, f[k - 1])]
           next == [k \in 1..n |-> [done \in D |-> Further(k, done)]]
<1>1. n \in Nat /\ \A k \in 1..n : hunks[k] \in HunkType OBVIOUS
<1>2. ASSUME NEW k \in 1..n, NEW done \in D PROVE Further(k, done) \in D
  <2>1. hunks[k] \in HunkType BY <1>1
  <2> QED BY <2>1, TurnIsTyped
<1>3. Begun \in D BY DEF Begun, Going
<1> HIDE DEF Further, D
<1>4. next \in [1..n -> [D -> D]] BY <1>2
<1>5. \A k \in 1..n, done \in D : next[k][done] = Further(k, done) OBVIOUS
<1>6. PICK f : Runs(f, n, D, Begun, next)
  <2> HIDE DEF n, next, Def
  <2> QED BY <1>1, <1>3, <1>4, RunExists
<1> HIDE DEF next
<1>7. \E h : Def(h)
  <2>1. f = [k \in 0..n |-> f[k]] BY <1>6 DEF Runs
  <2>2. ASSUME NEW k \in 0..n
        PROVE  f[k] = IF k = 0 THEN Begun ELSE Further(k, f[k - 1])
    <3>1. CASE k = 0 BY <1>6, <3>1 DEF Runs
    <3>2. CASE k # 0
      <4>1. k \in 1..n /\ k - 1 \in 0..n BY <1>1, <3>2
      <4>2. f[k - 1] \in D BY <1>6, <4>1 DEF Runs
      <4> HIDE DEF n
      <4> QED BY <1>5, <1>6, <3>2, <4>1, <4>2 DEF Runs
    <3> QED BY <3>1, <3>2
  <2>3. Def(f) BY <2>1, <2>2
  <2> HIDE DEF Def
  <2> QED BY <2>3
<1> DEFINE g == CHOOSE h : Def(h)
<1>8. Applied(base, hunks, gone, come) = g[n]
  BY Zenon DEF Applied, Further, Turn, Place, Wanted, Begun
<1>9. Def(g)
  <2> HIDE DEF Def
  <2> QED BY <1>7
<1> HIDE DEF g
<1>10. g[0] = Begun BY <1>1, <1>9
<1>11. ASSUME NEW k \in 1..n PROVE g[k] = Further(k, g[k - 1])
  <2>1. k \in 0..n /\ k # 0 BY <1>1
  <2> HIDE DEF n
  <2> QED BY <1>9, <2>1
<1> HIDE DEF Def
<1>12. \A k \in 0..n : g[k] \in D
  <2>1. \A k \in 1..n : g[k - 1] \in D => g[k] \in D BY <1>2, <1>11
  <2> HIDE DEF n
  <2> QED BY <1>1, <1>3, <1>10, <2>1, RunIsTyped
<1>13. Steps(g, base, hunks, gone, come)
  BY <1>8, <1>10, <1>11, <1>12 DEF Steps, Further, D
<1> QED BY <1>13

(* A hunk that does not fit stops all of it.                               *)
LEMMA NoneFailed ==
    ASSUME NEW base, NEW hunks \in Seq(HunkType), NEW gone, NEW come,
           NEW g, Steps(g, base, hunks, gone, come),
           Applied(base, hunks, gone, come) # Mismatch
    PROVE  \A k \in 0..Len(hunks) : g[k] \in Going(base) /\ g[k] # Mismatch
<1> DEFINE n == Len(hunks)
           S == {k \in 0..n : g[n - k] # Mismatch}
<1>1. n \in Nat OBVIOUS
<1>2. g[n] # Mismatch BY DEF Steps
<1>3. 0 \in S BY <1>1, <1>2
<1>4. ASSUME NEW k \in 0..(n - 1), k \in S PROVE k + 1 \in S
  <2>1. g[n - k] # Mismatch /\ n - k \in 1..n BY <1>1, <1>4
  <2>2. g[n - k] = Turn(base, hunks[n - k], gone, come, g[(n - k) - 1]) BY <2>1 DEF Steps
  <2>3. g[(n - k) - 1] # Mismatch BY <2>1, <2>2 DEF Turn
  <2>4. (n - k) - 1 = n - (k + 1) /\ k + 1 \in 0..n BY <1>1
  <2> QED BY <2>3, <2>4
<1>5. \A k \in 0..n : k \in S
  <2> HIDE DEF S
  <2> QED BY <1>1, <1>3, <1>4, UpTo
<1>6. ASSUME NEW k \in 0..n PROVE g[k] \in Going(base) /\ g[k] # Mismatch
  <2>1. n - k \in 0..n /\ n - (n - k) = k BY <1>1
  <2>2. n - k \in S BY <1>5, <2>1
  <2>3. g[k] # Mismatch BY <2>1, <2>2
  <2> QED BY <2>3 DEF Steps
<1> QED BY <1>6

-----------------------------------------------------------------------------
(* Blocks of equal lines.                                                  *)
LEMMA BlockLines ==
    ASSUME NEW s \in Seq(STRING), NEW a \in Nat, NEW m \in Nat, a + m <= Len(s)
    PROVE  LET block == SubSeq(s, a + 1, a + m)
           IN  /\ block \in Seq(STRING) /\ Len(block) = m
               /\ \A i \in 1..m : block[i] = s[a + i]
<1> DEFINE x == a + 1
           y == a + m
<1>1. x \in Int /\ y \in Int /\ \A i \in x..y : s[i] \in STRING OBVIOUS
<1>2. /\ (IF x <= y THEN y - x + 1 ELSE 0) = m /\ y - x + 1 = m
      /\ \A i \in 1..m : x + i - 1 = a + i
  OBVIOUS
<1> HIDE DEF x, y
<1>3. /\ SubSeq(s, x, y) \in Seq(STRING)
      /\ Len(SubSeq(s, x, y)) = IF x <= y THEN y - x + 1 ELSE 0
      /\ \A i \in 1..(y - x + 1) : SubSeq(s, x, y)[i] = s[x + i - 1]
  BY <1>1, SubSeqProperties
<1> DEFINE block == SubSeq(s, x, y)
<1> HIDE DEF block
<1>4. /\ block \in Seq(STRING) /\ Len(block) = m
      /\ \A i \in 1..m : block[i] = s[x + i - 1]
  BY <1>2, <1>3 DEF block
<1>5. \A i \in 1..m : block[i] = s[a + i] BY <1>2, <1>4
<1> QED BY <1>4, <1>5 DEF block, x, y

SameLines(s, a, t, b, m) == \A i \in 1..m : s[a + i] = t[b + i]

LEMMA SameBlock ==
    ASSUME NEW s \in Seq(STRING), NEW t \in Seq(STRING), NEW a \in Nat, NEW b \in Nat,
           NEW m \in Nat, a + m <= Len(s), b + m <= Len(t), SameLines(s, a, t, b, m)
    PROVE  SubSeq(s, a + 1, a + m) = SubSeq(t, b + 1, b + m)
<1> DEFINE left == SubSeq(s, a + 1, a + m)
           right == SubSeq(t, b + 1, b + m)
<1>1. /\ left \in Seq(STRING) /\ Len(left) = m
      /\ \A i \in 1..m : left[i] = s[a + i]
  BY BlockLines
<1>2. /\ right \in Seq(STRING) /\ Len(right) = m
      /\ \A i \in 1..m : right[i] = t[b + i]
  BY BlockLines
<1> HIDE DEF left, right
<1>3. \A i \in 1..Len(left) : left[i] = right[i] BY <1>1, <1>2 DEF SameLines
<1> QED BY <1>1, <1>2, <1>3, SeqEqual DEF left, right

LEMMA BlockIs ==
    ASSUME NEW s \in Seq(STRING), NEW block \in Seq(STRING), NEW a \in Nat,
           a + Len(block) <= Len(s), SameLines(s, a, block, 0, Len(block))
    PROVE  SubSeq(s, a + 1, a + Len(block)) = block
<1> DEFINE m == Len(block)
           found == SubSeq(s, a + 1, a + m)
<1>1. m \in Nat OBVIOUS
<1>2. found \in Seq(STRING) /\ Len(found) = m /\ \A i \in 1..m : found[i] = s[a + i]
  <2> HIDE DEF m
  <2> QED BY <1>1, BlockLines DEF m
<1>3. \A i \in 1..m : s[a + i] = block[i] BY DEF SameLines
<1> HIDE DEF found
<1>4. \A i \in 1..Len(found) : found[i] = block[i] BY <1>2, <1>3
<1> QED BY <1>2, <1>4, SeqEqual DEF found

(* t is longer than s, or as long, and begins with it.                     *)
Begins(s, t) == Len(s) <= Len(t) /\ \A i \in 1..Len(s) : t[i] = s[i]

(* What stands in one sequence after another, of three put together.       *)
LEMMA Joined ==
    ASSUME NEW r \in Seq(STRING), NEW s \in Seq(STRING), NEW t \in Seq(STRING)
    PROVE  LET all == r \o s \o t
           IN  /\ all \in Seq(STRING) /\ Len(all) = Len(r) + Len(s) + Len(t)
               /\ Begins(r, all)
               /\ \A i \in 1..Len(s) : all[Len(r) + i] = s[i]
               /\ \A i \in 1..Len(t) : all[Len(r) + Len(s) + i] = t[i]
<1> DEFINE two == r \o s
           all == two \o t
<1>1. Len(r) \in Nat /\ Len(s) \in Nat /\ Len(t) \in Nat OBVIOUS
<1>2. /\ two \in Seq(STRING) /\ Len(two) = Len(r) + Len(s)
      /\ \A i \in 1..(Len(r) + Len(s)) : two[i] = IF i <= Len(r) THEN r[i] ELSE s[i - Len(r)]
  BY ConcatProperties
<1> HIDE DEF two
<1>3. /\ all \in Seq(STRING) /\ Len(all) = Len(two) + Len(t)
      /\ \A i \in 1..(Len(two) + Len(t)) : all[i] = IF i <= Len(two) THEN two[i] ELSE t[i - Len(two)]
  <2>1. two \in Seq(STRING) BY <1>2
  <2> QED BY <2>1, ConcatProperties, Zenon
<1> HIDE DEF all
<1>4. Begins(r, all)
  <2>1. ASSUME NEW i \in 1..Len(r) PROVE all[i] = r[i]
    <3>1. i \in 1..(Len(r) + Len(s)) /\ i \in 1..(Len(two) + Len(t)) /\ i <= Len(two) /\ i <= Len(r)
      BY <1>1, <1>2
    <3> QED BY <1>2, <1>3, <3>1
  <2> QED BY <1>1, <1>2, <1>3, <2>1 DEF Begins
<1>5. ASSUME NEW i \in 1..Len(s) PROVE all[Len(r) + i] = s[i]
  <2> DEFINE j == Len(r) + i
  <2>1. /\ j \in 1..(Len(r) + Len(s)) /\ j \in 1..(Len(two) + Len(t)) /\ j <= Len(two)
        /\ ~(j <= Len(r)) /\ j - Len(r) = i
    BY <1>1, <1>2
  <2> HIDE DEF j
  <2>2. all[j] = s[i] BY <1>2, <1>3, <2>1
  <2> QED BY <2>2 DEF j
<1>6. ASSUME NEW i \in 1..Len(t) PROVE all[Len(r) + Len(s) + i] = t[i]
  <2> DEFINE j == Len(r) + Len(s) + i
  <2>1. j \in 1..(Len(two) + Len(t)) /\ ~(j <= Len(two)) /\ j - Len(two) = i
    BY <1>1, <1>2
  <2> HIDE DEF j
  <2>2. all[j] = t[i] BY <1>3, <2>1
  <2> QED BY <2>2 DEF j
<1> QED BY <1>1, <1>2, <1>3, <1>4, <1>5, <1>6 DEF all, two

LEMMA BeginsOn ==
    ASSUME NEW r \in Seq(STRING), NEW s \in Seq(STRING), NEW t \in Seq(STRING),
           Begins(r, s), Begins(s, t)
    PROVE  Begins(r, t)
<1>1. Len(r) \in Nat /\ Len(s) \in Nat /\ Len(t) \in Nat OBVIOUS
<1>2. ASSUME NEW i \in 1..Len(r) PROVE t[i] = r[i]
  <2>1. i \in 1..Len(s) BY <1>1 DEF Begins
  <2> QED BY <2>1 DEF Begins
<1> QED BY <1>1, <1>2 DEF Begins

(* What one turn adds: the lines up to the hunk, and the hunk's new ones.  *)
LEMMA TurnAdds ==
    ASSUME NEW base \in Seq(STRING), NEW hunk \in HunkType, NEW gone, NEW come,
           NEW done \in Going(base), NEW next \in Going(base),
           next = Turn(base, hunk, gone, come, done), done # Mismatch, next # Mismatch
    PROVE  LET old == Side(hunk.lines, gone)
               new == Side(hunk.lines, come)
               at == next.cursor - Len(old)
               m == at - done.cursor
           IN  /\ old \in Seq(STRING) /\ new \in Seq(STRING)
               /\ m \in Nat /\ at \in 0..Len(base)
               /\ FoundAt(base, old, at)
               /\ Len(next.output) = Len(done.output) + m + Len(new)
               /\ Begins(done.output, next.output)
               /\ SameLines(next.output, Len(done.output), base, done.cursor, m)
               /\ SameLines(next.output, Len(done.output) + m, new, 0, Len(new))
<1> DEFINE place == Place(base, hunk, gone, done)
           old == Side(hunk.lines, gone)
           new == Side(hunk.lines, come)
           gap == SubSeq(base, done.cursor + 1, place)
<1>1. /\ ~(place > Len(base))
      /\ next = [cursor |-> place + Len(old), output |-> done.output \o gap \o new]
  BY DEF Turn
<1>2. Len(base) \in Nat /\ hunk.lines \in Seq(HunkLine) BY DEF HunkType
<1>3. old \in Seq(STRING) /\ new \in Seq(STRING) BY <1>2, SideIsSeq
<1>4. done.cursor \in 0..Len(base) /\ done.output \in Seq(STRING) BY DEF Going
<1>5. place \in Int
  <2>1. hunk.old \in Nat /\ hunk.new \in Nat BY DEF HunkType
  <2>2. Wanted(hunk, gone) \in Int BY <2>1 DEF Wanted
  <2>3. done.cursor \in Nat BY <1>2, <1>4
  <2> QED BY <1>3, <2>2, <2>3, LocateFits DEF Place
<1>6. place <= Len(base) BY <1>1, <1>2, <1>5
<1>7. /\ place \in done.cursor..Len(base)
      /\ place + Len(old) \in 0..Len(base)
      /\ SubSeq(base, place + 1, place + Len(old)) = old
  BY <1>6, PlaceFits
<1>8. Len(old) \in Nat /\ Len(new) \in Nat /\ done.cursor \in Nat BY <1>2, <1>3, <1>4
<1>9. next.cursor = place + Len(old) /\ next.output = done.output \o gap \o new
  <2> DEFINE end == place + Len(old)
             all == done.output \o gap \o new
  <2>1. next = [cursor |-> end, output |-> all] BY <1>1
  <2> HIDE DEF end, all
  <2>2. next.cursor = end /\ next.output = all BY <2>1
  <2> QED BY <2>2 DEF end, all
<1> HIDE DEF place, old, new
<1> DEFINE m == place - done.cursor
<1>10. m \in Nat /\ done.cursor + m = place /\ done.cursor + m <= Len(base) BY <1>2, <1>4, <1>7, <1>8
<1>11. /\ gap \in Seq(STRING) /\ Len(gap) = m
       /\ \A i \in 1..m : gap[i] = base[done.cursor + i]
  <2> HIDE DEF m
  <2>1. /\ SubSeq(base, done.cursor + 1, done.cursor + m) \in Seq(STRING)
        /\ Len(SubSeq(base, done.cursor + 1, done.cursor + m)) = m
        /\ \A i \in 1..m :
              SubSeq(base, done.cursor + 1, done.cursor + m)[i] = base[done.cursor + i]
    BY <1>8, <1>10, BlockLines
  <2> QED BY <1>10, <2>1
<1> HIDE DEF gap
<1> DEFINE all == done.output \o gap \o new
<1>12. /\ all \in Seq(STRING) /\ Len(all) = Len(done.output) + Len(gap) + Len(new)
       /\ Begins(done.output, all)
       /\ \A i \in 1..Len(gap) : all[Len(done.output) + i] = gap[i]
       /\ \A i \in 1..Len(new) : all[Len(done.output) + Len(gap) + i] = new[i]
  BY <1>3, <1>4, <1>11, Joined
<1>13. next.cursor - Len(old) = place BY <1>7, <1>8, <1>9, <1>10
<1>14. FoundAt(base, old, place) BY <1>7, <1>8 DEF FoundAt
<1> HIDE DEF all
<1>15. next.output = all BY <1>9 DEF all
<1>16. place \in 0..Len(base) BY <1>7, <1>8
<1>17. SameLines(next.output, Len(done.output), base, done.cursor, m)
  BY <1>11, <1>12, <1>15 DEF SameLines
<1>18. SameLines(next.output, Len(done.output) + m, new, 0, Len(new))
  BY <1>8, <1>11, <1>12, <1>15 DEF SameLines
<1> QED
  BY <1>3, <1>10, <1>11, <1>12, <1>13, <1>14, <1>15, <1>16, <1>17, <1>18 DEF old, new

(* Whatever has been put out stays.                                        *)
LEMMA OutputStays ==
    ASSUME NEW base \in Seq(STRING), NEW hunks \in Seq(HunkType), NEW gone, NEW come,
           NEW g, Steps(g, base, hunks, gone, come),
           \A k \in 0..Len(hunks) : g[k] \in Going(base) /\ g[k] # Mismatch
    PROVE  \A k \in 0..Len(hunks) : Begins(g[k].output, g[Len(hunks)].output)
<1> DEFINE n == Len(hunks)
           S == {k \in 0..n : Begins(g[n - k].output, g[n].output)}
<1>1. n \in Nat OBVIOUS
<1>2. \A k \in 0..n : g[k].output \in Seq(STRING) BY DEF Going
<1>3. 0 \in S
  <2>1. n \in 0..n /\ n - 0 = n BY <1>1
  <2>2. g[n].output \in Seq(STRING) BY <1>2, <2>1
  <2>3. Begins(g[n].output, g[n].output) BY <2>2 DEF Begins
  <2> QED BY <1>1, <2>1, <2>3
<1>4. ASSUME NEW k \in 0..(n - 1), k \in S PROVE k + 1 \in S
  <2> DEFINE j == n - k
  <2>1. j \in 1..n /\ j - 1 \in 0..n /\ j \in 0..n /\ n \in 0..n BY <1>1
  <2>2. hunks[j] \in HunkType BY <2>1, ElementOfSeq
  <2>3. g[j] = Turn(base, hunks[j], gone, come, g[j - 1]) BY <2>1 DEF Steps
  <2> HIDE DEF j
  <2>4. /\ g[j] \in Going(base) /\ g[j] # Mismatch
        /\ g[j - 1] \in Going(base) /\ g[j - 1] # Mismatch
    BY <2>1
  <2>5. Begins(g[j - 1].output, g[j].output) BY <2>2, <2>3, <2>4, TurnAdds
  <2>6. Begins(g[j].output, g[n].output) BY <1>4 DEF j
  <2>7. Begins(g[j - 1].output, g[n].output) BY <1>2, <2>1, <2>5, <2>6, BeginsOn
  <2>8. j - 1 = n - (k + 1) /\ k + 1 \in 0..n BY <1>1 DEF j
  <2> QED BY <2>7, <2>8
<1>5. \A k \in 0..n : k \in S
  <2> HIDE DEF S
  <2> QED BY <1>1, <1>3, <1>4, UpTo
<1>6. ASSUME NEW k \in 0..n PROVE Begins(g[k].output, g[n].output)
  <2>1. n - k \in 0..n /\ n - (n - k) = k BY <1>1
  <2>2. n - k \in S BY <1>5, <2>1
  <2> QED BY <2>1, <2>2
<1> QED BY <1>6

-----------------------------------------------------------------------------
(* That hunks describe a change, of any two marks: what goes and what comes.*)
Describes(hunks, gone, come, base, result) ==
    \E at \in Placed(base, Blocks(hunks, gone)), to \in Placed(result, Blocks(hunks, come)) :
        SameGaps(base, Blocks(hunks, gone), at, result, Blocks(hunks, come), to)

LEMMA BlocksTyped ==
    ASSUME NEW hunks \in Seq(HunkType), NEW mark
    PROVE  /\ DOMAIN Blocks(hunks, mark) = 1..Len(hunks)
           /\ Len(Blocks(hunks, mark)) = Len(hunks)
           /\ \A k \in 1..Len(hunks) :
                 /\ Blocks(hunks, mark)[k] = Side(hunks[k].lines, mark)
                 /\ Blocks(hunks, mark)[k] \in Seq(STRING)
<1>1. \A k \in 1..Len(hunks) : hunks[k].lines \in Seq(HunkLine)
  <2> TAKE k \in 1..Len(hunks)
  <2>1. hunks[k] \in HunkType BY ElementOfSeq
  <2> QED BY <2>1 DEF HunkType
<1>2. \A k \in 1..Len(hunks) : Side(hunks[k].lines, mark) \in Seq(STRING) BY <1>1, SideIsSeq
<1>3. Blocks(hunks, mark) = [k \in 1..Len(hunks) |-> Side(hunks[k].lines, mark)] BY DEF Blocks
<1>4. Blocks(hunks, mark) \in Seq(Seq(STRING)) BY <1>2, <1>3
<1>5. DOMAIN Blocks(hunks, mark) = 1..Len(hunks) BY <1>3
<1>6. Len(Blocks(hunks, mark)) = Len(hunks) BY <1>4, <1>5, LenProperties
<1> QED BY <1>2, <1>3, <1>5, <1>6

(* _apply_hunks, when it succeeds, makes a change that the hunks describe. *)
LEMMA AppliedIsDescribed ==
    ASSUME NEW base \in Seq(STRING), NEW hunks \in Seq(HunkType), NEW gone, NEW come,
           ApplyHunks(base, hunks, gone, come) # Mismatch
    PROVE  LET result == ApplyHunks(base, hunks, gone, come).lines
           IN  /\ ApplyHunks(base, hunks, gone, come) = [lines |-> result]
               /\ result \in Seq(STRING)
               /\ Describes(hunks, gone, come, base, result)
<1> DEFINE n == Len(hunks)
           olds == Blocks(hunks, gone)
           news == Blocks(hunks, come)
<1>1. n \in Nat /\ Len(base) \in Nat OBVIOUS
<1>2. PICK g : Steps(g, base, hunks, gone, come) BY AppliedSteps
<1>3. Applied(base, hunks, gone, come) # Mismatch BY DEF ApplyHunks
<1>4. \A k \in 0..n : g[k] \in Going(base) /\ g[k] # Mismatch BY <1>2, <1>3, NoneFailed
<1> DEFINE rest == SubSeq(base, g[n].cursor + 1, Len(base))
           result == g[n].output \o rest
<1>5. ApplyHunks(base, hunks, gone, come) = [lines |-> result]
  <2>1. Applied(base, hunks, gone, come) = g[n] BY <1>2 DEF Steps
  <2> QED BY <1>3, <2>1 DEF ApplyHunks
<1>6. \A k \in 0..n : /\ g[k].cursor \in 0..Len(base)
                      /\ g[k].output \in Seq(STRING)
                      /\ Len(g[k].output) \in Nat
  <2> TAKE k \in 0..n
  <2>1. g[k] \in Going(base) BY <1>4
  <2> QED BY <2>1 DEF Going
<1> DEFINE m == Len(base) - g[n].cursor
<1>7. /\ m \in Nat /\ g[n].cursor \in Nat /\ g[n].cursor + m = Len(base)
      /\ g[n].output \in Seq(STRING) /\ Len(g[n].output) \in Nat
  <2>1. n \in 0..n BY <1>1
  <2>2. g[n].cursor \in 0..Len(base) /\ g[n].output \in Seq(STRING) BY <1>6, <2>1
  <2> QED BY <1>1, <2>2
<1>8. /\ rest \in Seq(STRING) /\ Len(rest) = m
      /\ \A i \in 1..m : rest[i] = base[g[n].cursor + i]
  <2> DEFINE c == g[n].cursor
  <2>1. c \in Nat /\ m \in Nat /\ c + m <= Len(base) BY <1>1, <1>7
  <2>2. rest = SubSeq(base, c + 1, c + m) BY <1>7
  <2> HIDE DEF c, m, rest
  <2> QED BY <2>1, <2>2, BlockLines DEF c
<1> HIDE DEF rest, m
<1>9. /\ result \in Seq(STRING) /\ Len(result) = Len(g[n].output) + m
      /\ \A i \in 1..(Len(g[n].output) + m) :
            result[i] = IF i <= Len(g[n].output) THEN g[n].output[i]
                        ELSE rest[i - Len(g[n].output)]
  BY <1>7, <1>8, ConcatProperties
<1> HIDE DEF result
<1>10. Begins(g[n].output, result) BY <1>7, <1>9 DEF Begins
<1>11. \A k \in 0..n : /\ Len(g[k].output) <= Len(result)
                       /\ \A i \in 1..Len(g[k].output) : result[i] = g[k].output[i]
  <2> TAKE k \in 0..n
  <2>1. Begins(g[k].output, g[n].output) BY <1>2, <1>4, OutputStays
  <2>2. g[k].output \in Seq(STRING) BY <1>6
  <2>3. Begins(g[k].output, result) BY <1>7, <1>9, <1>10, <2>1, <2>2, BeginsOn
  <2> QED BY <2>3 DEF Begins
<1>12. \A i \in 1..m : result[Len(g[n].output) + i] = base[g[n].cursor + i]
  <2> TAKE i \in 1..m
  <2> DEFINE j == Len(g[n].output) + i
  <2>1. /\ j \in 1..(Len(g[n].output) + m) /\ ~(j <= Len(g[n].output))
        /\ j - Len(g[n].output) = i
    BY <1>7
  <2> HIDE DEF j
  <2>2. result[j] = rest[i] BY <1>9, <2>1
  <2> QED BY <1>8, <2>2 DEF j
<1>13. /\ DOMAIN olds = 1..n /\ Len(olds) = n
       /\ DOMAIN news = 1..n /\ Len(news) = n
       /\ \A k \in 1..n : /\ olds[k] = Side(hunks[k].lines, gone) /\ olds[k] \in Seq(STRING)
                          /\ news[k] = Side(hunks[k].lines, come) /\ news[k] \in Seq(STRING)
  BY BlocksTyped
<1> HIDE DEF olds, news
<1>14. \A k \in 1..n : Len(olds[k]) \in Nat /\ Len(news[k]) \in Nat BY <1>13
<1> DEFINE at == [k \in 1..n |-> g[k].cursor - Len(olds[k])]
           to == [k \in 1..n |-> Len(g[k].output) - Len(news[k])]
           gap == [k \in 1..n |-> at[k] - g[k - 1].cursor]
<1>15. /\ DOMAIN at = 1..n /\ DOMAIN to = 1..n
       /\ at = [k \in 1..n |-> at[k]] /\ to = [k \in 1..n |-> to[k]]
       /\ \A k \in 1..n : /\ at[k] = g[k].cursor - Len(olds[k])
                          /\ to[k] = Len(g[k].output) - Len(news[k])
                          /\ gap[k] = at[k] - g[k - 1].cursor
  OBVIOUS
<1> HIDE DEF at, to, gap
<1>16. ASSUME NEW k \in 1..n
       PROVE  /\ gap[k] \in Nat /\ at[k] \in 0..Len(base)
              /\ FoundAt(base, olds[k], at[k])
              /\ Len(g[k].output) = Len(g[k - 1].output) + gap[k] + Len(news[k])
              /\ SameLines(g[k].output, Len(g[k - 1].output), base, g[k - 1].cursor, gap[k])
              /\ SameLines(g[k].output, Len(g[k - 1].output) + gap[k], news[k], 0, Len(news[k]))
  <2> DEFINE done == g[k - 1]
             next == g[k]
             hunk == hunks[k]
             old == Side(hunk.lines, gone)
             new == Side(hunk.lines, come)
             a == next.cursor - Len(old)
             d == a - done.cursor
  <2>1. /\ next = Turn(base, hunk, gone, come, done) /\ hunk \in HunkType
        /\ k \in 0..n /\ k - 1 \in 0..n
    BY <1>1, <1>2, ElementOfSeq DEF Steps
  <2>2. /\ next \in Going(base) /\ next # Mismatch
        /\ done \in Going(base) /\ done # Mismatch
    BY <1>4, <2>1
  <2>3. old = olds[k] /\ new = news[k] BY <1>13
  <2>4. a = at[k] /\ d = gap[k] BY <1>15, <2>3
  <2> HIDE DEF done, next, hunk
  <2>5. /\ d \in Nat /\ a \in 0..Len(base)
        /\ FoundAt(base, old, a)
        /\ Len(next.output) = Len(done.output) + d + Len(new)
        /\ SameLines(next.output, Len(done.output), base, done.cursor, d)
        /\ SameLines(next.output, Len(done.output) + d, new, 0, Len(new))
    <3>1. next = Turn(base, hunk, gone, come, done) /\ hunk \in HunkType BY <2>1
    <3> QED BY <2>2, <3>1, TurnAdds
  <2> HIDE DEF old, new, a, d
  <2> QED BY <2>3, <2>4, <2>5 DEF done, next, hunk
<1>17. ASSUME NEW k \in 1..n
       PROVE  /\ to[k] = Len(g[k - 1].output) + gap[k]
              /\ at[k] = g[k - 1].cursor + gap[k]
              /\ to[k] + Len(news[k]) = Len(g[k].output)
              /\ at[k] + Len(olds[k]) = g[k].cursor
              /\ to[k] \in 0..Len(result)
  <2>1. k \in 0..n /\ k - 1 \in 0..n BY <1>1
  <2> DEFINE out == Len(g[k].output)
             before == Len(g[k - 1].output)
             c == g[k].cursor
             b == g[k - 1].cursor
             oldLen == Len(olds[k])
             newLen == Len(news[k])
             all == Len(result)
             p == at[k]
             q == to[k]
             d == gap[k]
  <2>2. out \in Nat /\ before \in Nat /\ c \in Int /\ b \in Int BY <1>1, <1>6, <2>1
  <2>3. out <= all /\ all \in Nat BY <1>9, <1>11, <2>1
  <2>4. q = out - newLen /\ p = c - oldLen /\ d = p - b BY <1>15
  <2>5. d \in Nat /\ out = before + d + newLen BY <1>16
  <2>6. oldLen \in Nat /\ newLen \in Nat BY <1>14
  <2> HIDE DEF out, before, c, b, oldLen, newLen, all, p, q, d
  <2>7. q = before + d /\ p = b + d /\ q + newLen = out /\ p + oldLen = c /\ q \in 0..all
    BY <2>2, <2>3, <2>4, <2>5, <2>6
  <2> QED BY <2>7 DEF out, before, c, b, oldLen, newLen, all, p, q, d
<1>18. at \in Placed(base, olds)
  <2>1. \A k \in 1..n : at[k] \in 0..Len(base) BY <1>16
  <2>2. at \in [1..n -> 0..Len(base)] BY <1>15, <2>1
  <2>3. \A k \in 1..n : FoundAt(base, olds[k], at[k]) BY <1>16
  <2> QED BY <1>13, <2>2, <2>3 DEF Placed
<1>19. to \in Placed(result, news)
  <2>1. \A k \in 1..n : to[k] \in 0..Len(result) BY <1>17
  <2>2. to \in [1..n -> 0..Len(result)] BY <1>15, <2>1
  <2>3. ASSUME NEW k \in 1..n PROVE FoundAt(result, news[k], to[k])
    <3> DEFINE b == to[k]
               out == g[k].output
    <3>1. /\ b \in Nat /\ b + Len(news[k]) = Len(out)
          /\ b = Len(g[k - 1].output) + gap[k]
      BY <1>9, <1>17
    <3>2. SameLines(out, b, news[k], 0, Len(news[k])) BY <1>16, <3>1
    <3>3. /\ k \in 0..n /\ Len(out) <= Len(result)
          /\ \A j \in 1..Len(out) : result[j] = out[j]
      BY <1>1, <1>11
    <3>4. Len(news[k]) \in Nat /\ Len(out) \in Nat BY <1>6, <1>14, <3>3
    <3> HIDE DEF b, out
    <3>5. \A i \in 1..Len(news[k]) : b + i \in 1..Len(out) BY <3>1, <3>4
    <3>6. SameLines(result, b, news[k], 0, Len(news[k]))
      BY <3>2, <3>3, <3>5 DEF SameLines
    <3>7. b + Len(news[k]) <= Len(result) BY <3>1, <3>3
    <3>8. SubSeq(result, b + 1, b + Len(news[k])) = news[k]
      BY <1>9, <1>13, <3>1, <3>6, <3>7, BlockIs
    <3>9. FoundAt(result, news[k], b) BY <3>7, <3>8 DEF FoundAt
    <3> QED BY <3>9 DEF b
  <2> QED BY <1>13, <2>2, <2>3 DEF Placed
<1>20. SameGaps(base, olds, at, result, news, to)
  <2> SUFFICES ASSUME NEW k \in 1..(n + 1)
               PROVE  LET old == Gap(base, olds, at, k)
                          new == Gap(result, news, to, k)
                      IN  /\ old.from <= old.to /\ new.from <= new.to
                          /\ SubSeq(base, old.from + 1, old.to)
                               = SubSeq(result, new.from + 1, new.to)
    BY <1>13 DEF SameGaps
  <2> DEFINE oldFrom == g[k - 1].cursor
             newFrom == Len(g[k - 1].output)
             len == IF k = n + 1 THEN m ELSE gap[k]
             old == Gap(base, olds, at, k)
             new == Gap(result, news, to, k)
  <2>1. k - 1 \in 0..n BY <1>1
  <2>2. oldFrom \in Nat /\ newFrom \in Nat /\ Len(base) \in Nat /\ Len(result) \in Nat
    BY <1>1, <1>6, <1>9, <2>1
  <2>3. old.from = oldFrom /\ new.from = newFrom
    <3>1. CASE k = 1
      <4>1. g[k - 1] = Begun BY <1>2, <3>1 DEF Steps
      <4> QED BY <3>1, <4>1 DEF Gap, Begun
    <3>2. CASE k # 1
      <4>1. k - 1 \in 1..n BY <1>1, <3>2
      <4>2. /\ at[k - 1] + Len(olds[k - 1]) = g[k - 1].cursor
            /\ to[k - 1] + Len(news[k - 1]) = Len(g[k - 1].output)
        BY <1>17, <4>1
      <4> QED BY <3>2, <4>2 DEF Gap
    <3> QED BY <3>1, <3>2
  <2>4. /\ len \in Nat
        /\ old.to = oldFrom + len /\ oldFrom + len <= Len(base)
        /\ new.to = newFrom + len /\ newFrom + len <= Len(result)
        /\ SameLines(base, oldFrom, result, newFrom, len)
    <3>1. CASE k = n + 1
      <4>1. k - 1 = n /\ k > Len(olds) /\ k > Len(news) /\ len = m BY <1>1, <1>13, <3>1
      <4>2. old.to = Len(base) /\ new.to = Len(result) BY <4>1 DEF Gap
      <4>3. oldFrom + m = Len(base) /\ newFrom + m = Len(result) /\ m \in Nat
        BY <1>7, <1>9, <4>1
      <4>4. SameLines(base, oldFrom, result, newFrom, m) BY <1>12, <4>1 DEF SameLines
      <4> HIDE DEF len, old, new, oldFrom, newFrom
      <4> QED BY <2>2, <4>1, <4>2, <4>3, <4>4
    <3>2. CASE k # n + 1
      <4>1. /\ k \in 1..n /\ ~(k > Len(olds)) /\ ~(k > Len(news)) /\ len = gap[k] /\ k \in 0..n
        BY <1>1, <1>13, <3>2
      <4>2. old.to = at[k] /\ new.to = to[k] BY <4>1 DEF Gap
      <4> DEFINE out == g[k].output
      <4>3. /\ gap[k] \in Nat /\ at[k] \in 0..Len(base)
            /\ SameLines(out, newFrom, base, oldFrom, gap[k])
        BY <1>16, <4>1
      <4>4. /\ to[k] = newFrom + gap[k] /\ at[k] = oldFrom + gap[k]
            /\ to[k] + Len(news[k]) = Len(out) /\ to[k] \in 0..Len(result)
        BY <1>17, <4>1
      <4>5. Len(news[k]) \in Nat /\ Len(out) \in Nat BY <1>6, <1>14, <4>1
      <4>6. \A j \in 1..Len(out) : result[j] = out[j] BY <1>11, <4>1
      <4> HIDE DEF out, oldFrom, newFrom, len, old, new
      <4>7. ASSUME NEW i \in 1..gap[k] PROVE base[oldFrom + i] = result[newFrom + i]
        <5> DEFINE d == gap[k]
                   newLen == Len(news[k])
                   all == Len(out)
        <5>1. d \in Nat /\ newLen \in Nat /\ all \in Nat /\ i \in 1..d BY <4>3, <4>5
        <5>2. (newFrom + d) + newLen = all BY <4>4
        <5> HIDE DEF d, newLen, all
        <5>3. newFrom + i \in 1..all BY <2>2, <5>1, <5>2
        <5>4. result[newFrom + i] = out[newFrom + i] BY <4>6, <5>3 DEF all
        <5> QED BY <4>3, <5>4 DEF SameLines
      <4>8. oldFrom + gap[k] <= Len(base) /\ newFrom + gap[k] <= Len(result)
        BY <2>2, <4>3, <4>4
      <4>9. SameLines(base, oldFrom, result, newFrom, gap[k]) BY <4>7 DEF SameLines
      <4> QED BY <4>1, <4>2, <4>3, <4>4, <4>8, <4>9
    <3> QED BY <3>1, <3>2
  <2> HIDE DEF oldFrom, newFrom, len, old, new
  <2>5. SubSeq(base, oldFrom + 1, oldFrom + len) = SubSeq(result, newFrom + 1, newFrom + len)
    <3>1. result \in Seq(STRING) BY <1>9
    <3> QED BY <2>2, <2>4, <3>1, SameBlock
  <2>6. oldFrom <= oldFrom + len /\ newFrom <= newFrom + len BY <2>2, <2>4
  <2>7. /\ old.from <= old.to /\ new.from <= new.to
        /\ SubSeq(base, old.from + 1, old.to) = SubSeq(result, new.from + 1, new.to)
    BY <2>3, <2>4, <2>5, <2>6
  <2> QED BY <2>7 DEF old, new
<1>21. Describes(hunks, gone, come, base, result)
  BY <1>18, <1>19, <1>20 DEF Describes, olds, news
<1>22. ApplyHunks(base, hunks, gone, come).lines = result BY <1>5
<1> QED BY <1>5, <1>9, <1>21, <1>22

(* In both directions: what goes one way comes the other.                  *)
LEMMA DescribesBack ==
    ASSUME NEW hunks \in Seq(HunkType), NEW gone, NEW come, NEW base, NEW result,
           Describes(hunks, gone, come, base, result)
    PROVE  Describes(hunks, come, gone, result, base)
<1> DEFINE olds == Blocks(hunks, gone)
           news == Blocks(hunks, come)
<1>1. PICK at \in Placed(base, olds), to \in Placed(result, news) :
         SameGaps(base, olds, at, result, news, to)
  BY DEF Describes
<1>2. Len(olds) = Len(news) BY BlocksTyped
<1> HIDE DEF olds, news
<1>3. SameGaps(result, news, to, base, olds, at) BY <1>1, <1>2 DEF SameGaps
<1> QED BY <1>1, <1>3 DEF Describes, olds, news

LEMMA PatchedIsPatch ==
    ASSUME NEW base \in Seq(STRING), NEW file, file.hunks \in Seq(HunkType),
           Patched(base, file) # Mismatch
    PROVE  LET result == Patched(base, file).lines
           IN  /\ Patched(base, file) = [lines |-> result]
               /\ IsPatch(base, result, file.hunks)
<1> DEFINE hunks == file.hunks
           result == ApplyHunks(base, hunks, "-", "+").lines
<1>1. ApplyHunks(base, hunks, "-", "+") # Mismatch BY DEF Patched
<1>2. /\ ApplyHunks(base, hunks, "-", "+") = [lines |-> result]
      /\ Describes(hunks, "-", "+", base, result)
  BY <1>1, AppliedIsDescribed
<1>3. IsPatch(base, result, hunks) BY <1>2, Zenon DEF IsPatch, Describes, Blocks
<1> QED BY <1>2, <1>3 DEF Patched

LEMMA ReversedIsPatch ==
    ASSUME NEW base \in Seq(STRING), NEW file, file.hunks \in Seq(HunkType),
           Reversed(base, file) # Mismatch
    PROVE  LET result == Reversed(base, file).lines
           IN  /\ Reversed(base, file) = [lines |-> result]
               /\ IsPatch(result, base, file.hunks)
<1> DEFINE hunks == file.hunks
           result == ApplyHunks(base, hunks, "+", "-").lines
<1>1. ApplyHunks(base, hunks, "+", "-") # Mismatch BY DEF Reversed
<1>2. /\ ApplyHunks(base, hunks, "+", "-") = [lines |-> result]
      /\ Describes(hunks, "+", "-", base, result)
  BY <1>1, AppliedIsDescribed
<1>3. Describes(hunks, "-", "+", result, base) BY <1>2, DescribesBack
<1>4. IsPatch(result, base, hunks) BY <1>3, Zenon DEF IsPatch, Describes, Blocks
<1> QED BY <1>2, <1>4 DEF Reversed

(* No hunk, no change.                                                     *)
LEMMA EmptyIsPatch ==
    ASSUME NEW base \in Seq(STRING)
    PROVE  IsPatch(base, base, <<>>)
<1>1. <<>> \in Seq(HunkType) OBVIOUS
<1> DEFINE none == Blocks(<<>>, "-")
           same == Blocks(<<>>, "+")
           at == [k \in 1..0 |-> 0]
<1>2. /\ DOMAIN none = 1..0 /\ Len(none) = 0 /\ DOMAIN same = 1..0 /\ Len(same) = 0
  BY <1>1, BlocksTyped
<1> HIDE DEF none, same
<1>3. at \in Placed(base, none) /\ at \in Placed(base, same) BY <1>2 DEF Placed
<1>4. SameGaps(base, none, at, base, same, at)
  <2>1. Len(base) \in Nat OBVIOUS
  <2>2. Gap(base, none, at, 1).from = 0 /\ Gap(base, none, at, 1).to = Len(base)
        /\ Gap(base, same, at, 1).from = 0 /\ Gap(base, same, at, 1).to = Len(base)
    BY <1>2 DEF Gap
  <2>3. \A k \in 1..(Len(none) + 1) : k = 1 BY <1>2
  <2> DEFINE old(k) == Gap(base, none, at, k)
             new(k) == Gap(base, same, at, k)
  <2>4. /\ old(1).from <= old(1).to /\ new(1).from <= new(1).to
        /\ SubSeq(base, old(1).from + 1, old(1).to) = SubSeq(base, new(1).from + 1, new(1).to)
    <3>1. /\ old(1).from = 0 /\ old(1).to = Len(base)
          /\ new(1).from = 0 /\ new(1).to = Len(base)
      BY <2>2
    <3> HIDE DEF old, new
    <3>2. old(1).from <= old(1).to /\ new(1).from <= new(1).to BY <2>1, <3>1
    <3>3. SubSeq(base, old(1).from + 1, old(1).to) = SubSeq(base, new(1).from + 1, new(1).to)
      BY <3>1, Zenon
    <3> QED BY <3>2, <3>3
  <2> SUFFICES ASSUME NEW k \in 1..(Len(none) + 1)
               PROVE  /\ old(k).from <= old(k).to /\ new(k).from <= new(k).to
                      /\ SubSeq(base, old(k).from + 1, old(k).to)
                           = SubSeq(base, new(k).from + 1, new(k).to)
    BY Zenon DEF SameGaps
  <2> HIDE DEF old, new, at
  <2> QED BY <2>3, <2>4
<1> HIDE DEF at
<1>5. Describes(<<>>, "-", "+", base, base) BY <1>3, <1>4 DEF Describes, none, same
<1> QED BY <1>5, Zenon DEF IsPatch, Describes, Blocks

-----------------------------------------------------------------------------
(* What rebuilding promises, of a file and of what the tree holds of it.   *)
Rebuilt(file, disk, sides) ==
    /\ IsPatch(sides.before.lines, sides.after.lines, file.hunks)
    /\ disk \in {sides.before, sides.after, Absent} \/ file.operation = "add"

LEMMA TextLines ==
    ASSUME NEW lines, NEW eol
    PROVE  Text(lines, eol).lines = lines /\ NoText.lines = <<>>
BY DEF Text, NoText

LEMMA AddedIsRebuilt ==
    ASSUME NEW file, file.hunks \in Seq(HunkType), file.operation = "add", NEW disk,
           ReconstructAdded(file, disk) # ReconstructionError
    PROVE  Rebuilt(file, disk, ReconstructAdded(file, disk))
<1> DEFINE patched == Patched(<<>>, file)
           sides == ReconstructAdded(file, disk)
           eol == \A k \in DOMAIN file.hunks : ~file.hunks[k].noeol
           after == IF disk # Absent /\ disk.lines = patched.lines THEN disk
                    ELSE Text(patched.lines, eol)
<1>1. patched # Mismatch /\ sides = [before |-> NoText, after |-> after]
  BY Zenon DEF ReconstructAdded
<1>2. <<>> \in Seq(STRING) OBVIOUS
<1>3. IsPatch(<<>>, patched.lines, file.hunks) BY <1>1, <1>2, PatchedIsPatch
<1> HIDE DEF patched, eol
<1>4. after.lines = patched.lines BY TextLines
<1> HIDE DEF after
<1>5. sides.before = NoText /\ sides.after = after BY <1>1
<1> HIDE DEF sides
<1>6. sides.before.lines = <<>> /\ sides.after.lines = patched.lines BY <1>4, <1>5, TextLines
<1> QED BY <1>3, <1>6 DEF Rebuilt, sides

LEMMA DeletedIsRebuilt ==
    ASSUME NEW file, file.hunks \in Seq(HunkType), NEW disk \in FileText \cup {Absent},
           ReconstructDeleted(file, disk) # ReconstructionError
    PROVE  Rebuilt(file, disk, ReconstructDeleted(file, disk))
<1> DEFINE eol == \A k \in DOMAIN file.hunks : ~file.hunks[k].noeol
           reversed == Reversed(<<>>, file)
           before == Text(reversed.lines, eol)
           sides == ReconstructDeleted(file, disk)
<1>1. <<>> \in Seq(STRING) OBVIOUS
<1>2. CASE disk = Absent
  <2>1. reversed # Mismatch /\ sides = [before |-> before, after |-> NoText]
    BY <1>2, Zenon DEF ReconstructDeleted
  <2>2. IsPatch(reversed.lines, <<>>, file.hunks) BY <1>1, <2>1, ReversedIsPatch
  <2> HIDE DEF reversed, eol
  <2>3. before.lines = reversed.lines BY TextLines
  <2> HIDE DEF before
  <2>4. sides.before = before /\ sides.after = NoText BY <2>1
  <2> HIDE DEF sides
  <2>5. sides.before.lines = reversed.lines /\ sides.after.lines = <<>>
    BY <2>3, <2>4, TextLines
  <2> QED BY <1>2, <2>2, <2>5 DEF Rebuilt, sides
<1>3. CASE disk # Absent
  <2>1. Patched(disk.lines, file) = [lines |-> <<>>] /\ sides = [before |-> disk, after |-> NoText]
    BY <1>3, Zenon DEF ReconstructDeleted
  <2>2. disk.lines \in Seq(STRING) BY <1>3 DEF FileText
  <2>3. Patched(disk.lines, file) # Mismatch
    <3>1. [lines |-> <<>>] # Mismatch BY DEF Mismatch
    <3> QED BY <2>1, <3>1
  <2>4. Patched(disk.lines, file).lines = <<>> BY <2>1
  <2>5. IsPatch(disk.lines, <<>>, file.hunks) BY <2>2, <2>3, <2>4, PatchedIsPatch
  <2>6. sides.before = disk /\ sides.after = NoText BY <2>1
  <2> HIDE DEF sides
  <2>7. sides.after.lines = <<>> BY <2>6, TextLines
  <2> QED BY <2>5, <2>6, <2>7 DEF Rebuilt, sides
<1> QED BY <1>2, <1>3

LEMMA ChangedIsRebuilt ==
    ASSUME NEW file, file.hunks \in Seq(HunkType), NEW disk \in FileText \cup {Absent},
           ReconstructChanged(file, disk) # ReconstructionError
    PROVE  Rebuilt(file, disk, ReconstructChanged(file, disk))
<1> DEFINE patched == Patched(disk.lines, file)
           reversed == Reversed(disk.lines, file)
           isNew == reversed # Mismatch /\ (patched = Mismatch \/ TakenForNew(file))
           sides == ReconstructChanged(file, disk)
           earlier == Text(reversed.lines, disk.eol)
           later == Text(patched.lines, disk.eol)
<1>1. sides = IF disk = Absent THEN ReconstructionError
              ELSE IF file.hunks = <<>> THEN [before |-> disk, after |-> disk]
              ELSE IF isNew THEN [before |-> earlier, after |-> disk]
              ELSE IF patched = Mismatch THEN ReconstructionError
              ELSE [before |-> disk, after |-> later]
  BY Zenon DEF ReconstructChanged
<1>2. disk # Absent BY <1>1
<1>3. disk.lines \in Seq(STRING) BY <1>2 DEF FileText
<1>4. earlier.lines = reversed.lines /\ later.lines = patched.lines BY TextLines
<1>5. reversed # Mismatch => IsPatch(reversed.lines, disk.lines, file.hunks)
  BY <1>3, ReversedIsPatch
<1>6. patched # Mismatch => IsPatch(disk.lines, patched.lines, file.hunks)
  BY <1>3, PatchedIsPatch
<1>7. IsPatch(disk.lines, disk.lines, <<>>) BY <1>3, EmptyIsPatch
<1>8. isNew => reversed # Mismatch OBVIOUS
<1>9. sides # ReconstructionError OBVIOUS
<1> HIDE DEF sides, earlier, later, isNew, patched, reversed
<1>10. \/ file.hunks = <<>> /\ sides = [before |-> disk, after |-> disk]
       \/ reversed # Mismatch /\ sides = [before |-> earlier, after |-> disk]
       \/ patched # Mismatch /\ sides = [before |-> disk, after |-> later]
  BY <1>1, <1>2, <1>8, <1>9
<1>11. \/ file.hunks = <<>> /\ sides.before = disk /\ sides.after = disk
       \/ reversed # Mismatch /\ sides.before = earlier /\ sides.after = disk
       \/ patched # Mismatch /\ sides.before = disk /\ sides.after = later
  BY <1>10
<1> QED BY <1>4, <1>5, <1>6, <1>7, <1>11 DEF Rebuilt, sides

LEMMA ReconstructIsRebuilt ==
    ASSUME NEW file, file.hunks \in Seq(HunkType), NEW where,
           At(where, BasePath(file, where)) \in FileText \cup {Absent},
           Reconstruct(file, where) # ReconstructionError
    PROVE  Rebuilt(file, At(where, BasePath(file, where)), Reconstruct(file, where))
<1> DEFINE disk == At(where, BasePath(file, where))
<1>1. CASE file.operation = "add"
  <2>1. Reconstruct(file, where) = ReconstructAdded(file, disk) BY <1>1 DEF Reconstruct
  <2> QED BY <1>1, <2>1, AddedIsRebuilt
<1>2. CASE file.operation = "delete"
  <2>1. Reconstruct(file, where) = ReconstructDeleted(file, disk) BY <1>2 DEF Reconstruct
  <2> QED BY <2>1, DeletedIsRebuilt
<1>3. CASE file.operation \notin {"add", "delete"}
  <2>1. Reconstruct(file, where) = ReconstructChanged(file, disk) BY <1>3 DEF Reconstruct
  <2> QED BY <2>1, ChangedIsRebuilt
<1> QED BY <1>1, <1>2, <1>3

-----------------------------------------------------------------------------
(* What a diff is parsed into.                                             *)
FileType(paths) ==
    {f \in [old : paths, new : paths, operation : {"add", "delete", "rename", "modify"},
            hunks : Seq(HunkType)] :
        /\ f.operation = "add" => f.old = NoPath
        /\ f.operation = "delete" => f.new = NoPath}

LEMMA LineFields ==
    ASSUME NEW paths, NEW l \in DiffLine(paths)
    PROVE  /\ l.is \in DOMAIN Mark => l.text \in STRING
           /\ l.is \in {"from", "to", "old", "new"} => l.path \in paths
           /\ l.is = "hunk" => l.oldStart \in Nat /\ l.newStart \in Nat
<1>1. DOMAIN Mark = {"removed", "old", "added", "new", "context"} BY DEF Mark
<1>2. CASE l \in [is : {"git", "noeol", "binary", "other"}] BY <1>1, <1>2
<1>3. CASE l \in [is : {"from", "to"}, path : paths] BY <1>1, <1>3
<1>4. CASE l \in [is : {"old", "new"}, path : paths, text : STRING] BY <1>1, <1>4
<1>5. CASE l \in [is : {"added", "removed", "context"}, text : STRING] BY <1>1, <1>5
<1>6. CASE l \in [is : {"hunk"}, oldStart : Nat, oldCount : Nat, newStart : Nat, newCount : Nat]
  BY <1>1, <1>6
<1> QED BY <1>2, <1>3, <1>4, <1>5, <1>6 DEF DiffLine

LEMMA HunkIsTyped ==
    ASSUME NEW paths, NEW part \in Starting(DiffLine(paths), "hunk")
    PROVE  Hunk(part) \in HunkType
<1> DEFINE T == DiffLine(paths)
           wanted == {l \in ToSet(part) : l.is \in DOMAIN Mark}
           body == Picked(Tail(part), wanted)
<1>1. part \in Seq(T) /\ part # <<>> /\ part[1].is = "hunk" BY DEF Starting
<1> HIDE DEF T
<1>2. part[1] \in T /\ Tail(part) \in Seq(T)
  <2>1. 1 \in 1..Len(part) BY <1>1, EmptySeq
  <2>2. part[1] \in T BY <1>1, <2>1, ElementOfSeq
  <2> QED BY <1>1, <2>2, HeadTailProperties
<1>3. part[1].oldStart \in Nat /\ part[1].newStart \in Nat BY <1>1, <1>2, LineFields DEF T
<1>4. body \in Seq(T \cap wanted)
  <2> HIDE DEF wanted
  <2> QED BY <1>2, PickedIsSeq
<1>5. HunkLines(part) = [i \in DOMAIN body |-> [mark |-> Mark[body[i].is], text |-> body[i].text]]
  BY Zenon DEF HunkLines
<1> HIDE DEF body
<1>6. ASSUME NEW i \in 1..Len(body)
      PROVE  [mark |-> Mark[body[i].is], text |-> body[i].text] \in HunkLine
  <2> DEFINE l == body[i]
  <2>1. l \in T \cap wanted
    <3> HIDE DEF wanted
    <3> QED BY <1>4, ElementOfSeq
  <2>2. l \in T /\ l.is \in DOMAIN Mark BY <2>1
  <2> HIDE DEF l
  <2>3. l.text \in STRING BY <2>2, LineFields DEF T
  <2>4. Mark[l.is] \in {"-", "+", " "}
    <3>1. DOMAIN Mark = {"removed", "old", "added", "new", "context"} BY DEF Mark
    <3>2. /\ Mark["removed"] = "-" /\ Mark["old"] = "-" /\ Mark["added"] = "+"
          /\ Mark["new"] = "+" /\ Mark["context"] = " "
      BY DEF Mark
    <3> QED BY <2>2, <3>1, <3>2, Zenon
  <2> QED BY <2>3, <2>4 DEF HunkLine, l
<1>7. HunkLines(part) \in Seq(HunkLine)
  <2>1. DOMAIN body = 1..Len(body) /\ Len(body) \in Nat BY <1>4, LenProperties
  <2>2. HunkLines(part)
          = [i \in 1..Len(body) |-> [mark |-> Mark[body[i].is], text |-> body[i].text]]
    BY <1>5, <2>1
  <2> QED BY <1>6, <2>1, <2>2
<1>8. (\E i \in DOMAIN part : part[i].is = "noeol") \in BOOLEAN OBVIOUS
<1> HIDE DEF wanted
<1> QED BY <1>3, <1>7, <1>8 DEF Hunk, HunkType

(* Numbers have a least, and up to a bound a greatest.                     *)
LEMMA LeastOf ==
    ASSUME NEW S, S \subseteq Nat, S # {}
    PROVE  \E i \in S : \A j \in S : i <= j
<1> DEFINE R == OpToRel(<, Nat)
<1>1. IsWellFoundedOn(R, Nat) BY NatLessThanWellFounded
<1>2. \A i, j \in Nat : i < j => <<i, j>> \in R BY DEF OpToRel
<1> HIDE DEF R
<1>3. PICK i \in S : \A j \in S : ~(<<j, i>> \in R) BY <1>1, WFMin
<1>4. ASSUME NEW j \in S PROVE i <= j
  <2>1. i \in Nat /\ j \in Nat OBVIOUS
  <2>2. ~(j < i) BY <1>2, <1>3, <2>1
  <2> QED BY <2>1, <2>2
<1> QED BY <1>4

LEMMA GreatestOf ==
    ASSUME NEW n \in Nat, NEW S, S \subseteq 0..n, S # {}
    PROVE  \E i \in S : \A j \in S : j <= i
<1> DEFINE Flipped == {k \in 0..n : n - k \in S}
<1>1. Flipped \subseteq Nat OBVIOUS
<1>2. \A j \in S : n - j \in Flipped
  <2> TAKE j \in S
  <2>1. j \in 0..n /\ n - j \in 0..n /\ n - (n - j) = j OBVIOUS
  <2> QED BY <2>1
<1>3. Flipped # {} BY <1>2
<1>4. \A k \in Flipped : n - k \in S /\ k \in 0..n OBVIOUS
<1> HIDE DEF Flipped
<1>5. PICK k \in Flipped : \A j \in Flipped : k <= j BY <1>1, <1>3, LeastOf
<1>6. \A j \in S : j <= n - k
  <2> TAKE j \in S
  <2>1. j \in 0..n /\ k <= n - j /\ k \in 0..n BY <1>2, <1>4, <1>5
  <2> QED BY <2>1
<1> QED BY <1>4, <1>5, <1>6

(* The last of the headers of a kind, and what stands before the hunks.    *)
LEMMA LastLineIs ==
    ASSUME NEW paths, NEW lines \in Seq(DiffLine(paths)),
           NEW kind \in {"from", "to", "old", "new"}, LastLine(lines, kind) # Missing
    PROVE  LastLine(lines, kind).path \in paths
<1> DEFINE places == {i \in DOMAIN lines : lines[i].is = kind}
           last == CHOOSE i \in places : \A j \in places : j <= i
<1>1. places # {} /\ LastLine(lines, kind) = lines[last] BY DEF LastLine
<1>2. DOMAIN lines = 1..Len(lines) /\ Len(lines) \in Nat BY LenProperties
<1>3. \E i \in places : \A j \in places : j <= i
  <2>1. places \subseteq 0..Len(lines) BY <1>2
  <2> HIDE DEF places
  <2> QED BY <1>1, <1>2, <2>1, GreatestOf
<1>4. last \in places BY <1>3
<1>5. lines[last] \in DiffLine(paths) /\ lines[last].is = kind
  <2>1. last \in 1..Len(lines) /\ lines[last].is = kind BY <1>2, <1>4
  <2> HIDE DEF last
  <2> QED BY <2>1, ElementOfSeq
<1> HIDE DEF last
<1> QED BY <1>1, <1>5, LineFields

LEMMA HeaderIsSeq ==
    ASSUME NEW T, NEW section \in Seq(T)
    PROVE  Header(section) \in Seq(T)
<1> DEFINE hunks == {i \in DOMAIN section : section[i].is = "hunk"}
           first == CHOOSE i \in hunks : \A j \in hunks : i <= j
<1>1. DOMAIN section = 1..Len(section) /\ Len(section) \in Nat BY LenProperties
<1>2. CASE hunks = {}
  <2>1. Header(section) = section BY <1>2 DEF Header
  <2> QED BY <2>1
<1>3. CASE hunks # {}
  <2>1. Header(section) = SubSeq(section, 1, first - 1) BY <1>3 DEF Header
  <2>2. hunks \subseteq 1..Len(section) BY <1>1
  <2>3. first \in hunks
    <3>1. hunks \subseteq Nat BY <1>1, <2>2
    <3> HIDE DEF hunks
    <3>2. \E i \in hunks : \A j \in hunks : i <= j BY <1>3, <3>1, LeastOf
    <3> QED BY <3>2
  <2> HIDE DEF hunks, first
  <2>4. first \in 1..Len(section) /\ 1 \in Int /\ first - 1 \in Int BY <1>1, <2>2, <2>3
  <2>5. \A i \in 1..(first - 1) : section[i] \in T
    <3> TAKE i \in 1..(first - 1)
    <3>1. i \in 1..Len(section) BY <1>1, <2>4
    <3> QED BY <3>1, ElementOfSeq
  <2> DEFINE end == first - 1
  <2> HIDE DEF end
  <2>6. end \in Int /\ \A i \in 1..end : section[i] \in T BY <2>4, <2>5 DEF end
  <2>7. SubSeq(section, 1, end) \in Seq(T) BY <2>6, SubSeqProperties
  <2> QED BY <2>1, <2>7 DEF end
<1> QED BY <1>2, <1>3

LEMMA FileIsTyped ==
    ASSUME NEW paths,
           NEW section \in Starting(DiffLine(paths \cup {Unsafe}), "git"),
           ParsedFile(section) # Refused
    PROVE  ParsedFile(section) \in FileType(paths)
<1> DEFINE T == DiffLine(paths \cup {Unsafe})
           header == Header(section)
           parts == Parts(section, "hunk")
           from == LastLine(header, "from")
           to == LastLine(header, "to")
           old == LastLine(header, "old")
           new == LastLine(header, "new")
           renamed == from # Missing \/ to # Missing
           contents == <<old # Missing, new # Missing, parts # <<>>>>
           both == IF renamed THEN <<from.path, to.path>> ELSE <<old.path, new.path>>
           operation == IF renamed THEN "rename"
                        ELSE IF both[1] = NoPath THEN "add"
                        ELSE IF both[2] = NoPath THEN "delete"
                        ELSE "modify"
           hunks == [k \in DOMAIN parts |-> Hunk(parts[k])]
<1>1. /\ IF renamed THEN from # Missing /\ to # Missing ELSE contents = <<TRUE, TRUE, TRUE>>
      /\ Unsafe \notin {both[1], both[2]}
      /\ ParsedFile(section)
           = [old |-> both[1], new |-> both[2], operation |-> operation, hunks |-> hunks]
  BY Zenon DEF ParsedFile
<1>2. section \in Seq(T) BY DEF Starting
<1>3. header \in Seq(T)
  <2> HIDE DEF T
  <2> QED BY <1>2, HeaderIsSeq
<1>4. \A k \in {"from", "to", "old", "new"} :
         LastLine(header, k) # Missing => LastLine(header, k).path \in paths \cup {Unsafe}
  <2> HIDE DEF header
  <2> QED BY <1>3, LastLineIs
<1>5. ~renamed => old # Missing /\ new # Missing
  <2> HIDE DEF old, new, parts, renamed
  <2> QED BY <1>1
<1>6. both[1] \in paths \cup {Unsafe} /\ both[2] \in paths \cup {Unsafe}
  <2>1. CASE renamed
    <3>1. from # Missing /\ to # Missing BY <1>1, <2>1
    <3>2. from.path \in paths \cup {Unsafe} /\ to.path \in paths \cup {Unsafe}
      BY <1>4, <3>1
    <3>3. both = <<from.path, to.path>> BY <2>1
    <3> HIDE DEF from, to, both
    <3> QED BY <3>2, <3>3
  <2>2. CASE ~renamed
    <3>1. old.path \in paths \cup {Unsafe} /\ new.path \in paths \cup {Unsafe}
      BY <1>4, <1>5, <2>2
    <3>2. both = <<old.path, new.path>> BY <2>2
    <3> HIDE DEF old, new, both
    <3> QED BY <3>1, <3>2
  <2> QED BY <2>1, <2>2
<1>7. hunks \in Seq(HunkType)
  <2>1. parts \in Seq(Starting(T, "hunk"))
    <3> HIDE DEF T
    <3> QED BY <1>2, PartsStart
  <2> HIDE DEF parts
  <2>2. DOMAIN parts = 1..Len(parts) /\ Len(parts) \in Nat BY <2>1, LenProperties
  <2>3. \A k \in 1..Len(parts) : Hunk(parts[k]) \in HunkType
    <3> TAKE k \in 1..Len(parts)
    <3>1. parts[k] \in Starting(T, "hunk")
      <4> HIDE DEF T
      <4> QED BY <2>1, ElementOfSeq
    <3> QED BY <3>1, HunkIsTyped
  <2>4. hunks = [k \in 1..Len(parts) |-> Hunk(parts[k])] BY <2>2
  <2> QED BY <2>2, <2>3, <2>4
<1>8. /\ operation \in {"add", "delete", "rename", "modify"}
      /\ operation = "add" => both[1] = NoPath
      /\ operation = "delete" => both[2] = NoPath
  OBVIOUS
<1>9. both[1] \in paths /\ both[2] \in paths BY <1>1, <1>6
<1> HIDE DEF both, operation, hunks
<1> QED BY <1>1, <1>7, <1>8, <1>9 DEF FileType

LEMMA FilesAreTyped ==
    ASSUME NEW paths, NEW diff \in Seq(DiffLine(paths \cup {Unsafe}))
    PROVE  ParseUnified(diff) \in Seq(FileType(paths))
<1> DEFINE T == DiffLine(paths \cup {Unsafe})
           sections == Parts(diff, "git")
           parsed == [k \in DOMAIN sections |-> ParsedFile(sections[k])]
<1>1. sections \in Seq(Starting(T, "git"))
  <2> HIDE DEF T
  <2> QED BY PartsStart DEF T
<1>2. ParseUnified(diff) = IF parsed = <<>> \/ \E k \in DOMAIN parsed : parsed[k] = Refused
                           THEN Fault ELSE parsed
  BY Zenon DEF ParseUnified
<1>3. Fault \in Seq(FileType(paths)) BY DEF Fault
<1>4. ASSUME \A k \in DOMAIN parsed : parsed[k] # Refused
      PROVE  parsed \in Seq(FileType(paths))
  <2> HIDE DEF sections
  <2>1. DOMAIN sections = 1..Len(sections) /\ Len(sections) \in Nat BY <1>1, LenProperties
  <2>2. ASSUME NEW k \in 1..Len(sections) PROVE ParsedFile(sections[k]) \in FileType(paths)
    <3>1. sections[k] \in Starting(T, "git")
      <4> HIDE DEF T
      <4> QED BY <1>1, ElementOfSeq
    <3>2. ParsedFile(sections[k]) # Refused BY <1>4, <2>1
    <3> QED BY <3>1, <3>2, FileIsTyped
  <2>3. parsed = [k \in 1..Len(sections) |-> ParsedFile(sections[k])] BY <2>1
  <2> QED BY <2>1, <2>2, <2>3
<1> HIDE DEF parsed
<1> QED BY <1>2, <1>3, <1>4

-----------------------------------------------------------------------------
(* What the evaluator holds: the files that were parsed, and what was      *)
(* rebuilt of the first of them from the tree that was read, until the     *)
(* verdict.                                                                *)
Trees == [Paths -> FileText \cup {Absent}]

EvaluationHolds ==
    /\ change \in Changes /\ tree \in Trees
    /\ files \in Seq(FileType(Paths \cup {NoPath}))
    /\ files \in {Fault, ParseUnified(change.diff)}
    /\ pc \in {"idle", "refuse", "digest", "validate", "decide"}
    /\ pc \in {"digest", "validate", "decide"} => files # Fault
    /\ read # Nothing =>
          /\ pc = "decide"
          /\ read.tree \in Trees
          /\ read.sides = Reconstruct(File, read.tree)

THEOREM EvaluationTyped == Spec => []EvaluationHolds
<1>1. Init => EvaluationHolds
  <2> SUFFICES ASSUME Init PROVE EvaluationHolds OBVIOUS
  <2>1. change \in Changes /\ tree \in Trees
    BY ChangesAssumption DEF Init, ChangesAssumption, Trees
  <2>2. files \in Seq(FileType(Paths \cup {NoPath}))
    <3>1. files = <<>> BY DEF Init, Fault
    <3> QED BY <3>1
  <2> QED BY <2>1, <2>2 DEF Init, EvaluationHolds
<1>2. EvaluationHolds /\ [Next]_vars => EvaluationHolds'
  <2> SUFFICES ASSUME EvaluationHolds, [Next]_vars PROVE EvaluationHolds' OBVIOUS
  <2>1. CASE UNCHANGED vars BY <2>1 DEF vars, EvaluationHolds, File
  <2>2. CASE MoveTree
    <3>1. tree' \in Trees
      BY <2>2, ChangesAssumption DEF MoveTree, ChangesAssumption, Trees, EvaluationHolds
    <3> QED BY <2>2, <3>1 DEF MoveTree, EvaluationHolds, File
  <2>3. CASE Begin
    <3> DEFINE paths == Paths \cup {NoPath}
    <3>1. paths \cup {Unsafe} = Paths \cup {NoPath, Unsafe} OBVIOUS
    <3>2. change.diff \in Seq(DiffLine(paths \cup {Unsafe}))
      BY <3>1, ChangesAssumption DEF ChangesAssumption, EvaluationHolds
    <3>3. ParseUnified(change.diff) \in Seq(FileType(paths)) BY <3>2, FilesAreTyped
    <3>4. read = Nothing BY <2>3 DEF Begin, EvaluationHolds
    <3> QED BY <2>3, <3>3, <3>4 DEF Begin, EvaluationHolds
  <2>4. CASE Refuse BY <2>4 DEF Refuse, Return, EvaluationHolds
  <2>5. CASE Digest BY <2>5 DEF Digest, EvaluationHolds, File
  <2>6. CASE Validate BY <2>6 DEF Validate, EvaluationHolds, File
  <2>7. CASE Conclude BY <2>7 DEF Conclude, Return, EvaluationHolds
  <2> QED BY <2>1, <2>2, <2>3, <2>4, <2>5, <2>6, <2>7 DEF Next
<1> QED BY <1>1, <1>2, PTL DEF Spec

(* What is at the path a file is rebuilt from.                             *)
LEMMA DiskIsTyped ==
    ASSUME NEW file \in FileType(Paths \cup {NoPath}), NEW where \in Trees
    PROVE  At(where, BasePath(file, where)) \in FileText \cup {Absent}
<1>1. file.old \in Paths \cup {NoPath} /\ file.new \in Paths \cup {NoPath} BY DEF FileType
<1>2. BasePath(file, where) \in Paths \cup {NoPath} BY <1>1 DEF BasePath
<1>3. \A path \in Paths \cup {NoPath} : At(where, path) \in FileText \cup {Absent}
  BY DEF At, Trees
<1> QED BY <1>2, <1>3

(* Whatever the diff and whatever the tree held when it was read, what was *)
(* rebuilt is a change the diff describes, of the file that was there.     *)
THEOREM RebuiltAsDescribed == Spec => []RebuiltIsPatch
<1>1. EvaluationHolds => RebuiltIsPatch
  <2> SUFFICES ASSUME EvaluationHolds, read # Nothing, read.sides # ReconstructionError
               PROVE  /\ IsPatch(read.sides.before.lines, read.sides.after.lines, File.hunks)
                      /\ LET disk == At(read.tree, BasePath(File, read.tree))
                         IN  \/ disk \in {read.sides.before, read.sides.after, Absent}
                             \/ File.operation = "add"
    BY DEF RebuiltIsPatch
  <2> DEFINE where == read.tree
             disk == At(where, BasePath(File, where))
  <2>1. /\ where \in Trees /\ read.sides = Reconstruct(File, where)
        /\ files \in Seq(FileType(Paths \cup {NoPath})) /\ files # Fault
    BY DEF EvaluationHolds
  <2>2. File \in FileType(Paths \cup {NoPath})
    <3>1. 1 \in 1..Len(files) BY <2>1, EmptySeq DEF Fault
    <3> QED BY <2>1, <3>1, ElementOfSeq DEF File
  <2>3. File.hunks \in Seq(HunkType) BY <2>2 DEF FileType
  <2>4. disk \in FileText \cup {Absent} BY <2>1, <2>2, DiskIsTyped
  <2>5. Rebuilt(File, disk, Reconstruct(File, where))
    BY <2>1, <2>3, <2>4, ReconstructIsRebuilt
  <2> QED BY <2>1, <2>5 DEF Rebuilt
<1> QED BY <1>1, EvaluationTyped, PTL

-----------------------------------------------------------------------------
(* A hunk that is where its header says, or at the only place left, is     *)
(* located there.                                                          *)
OnlyPlace(base, block, from, place) ==
    \A p \in from..Len(base) : FoundAt(base, block, p) => p = place

LEMMA LocatedAsTold ==
    ASSUME NEW base \in Seq(STRING), NEW block \in Seq(STRING),
           NEW preferred \in Int, NEW minimum \in Nat, NEW place \in minimum..Len(base),
           FoundAt(base, block, place),
           place = preferred \/ (block # <<>> /\ OnlyPlace(base, block, minimum, place))
    PROVE  Locate(base, block, preferred, minimum) = place
<1> DEFINE places == {p \in minimum..(Len(base) - Len(block)) : FoundAt(base, block, p)}
<1>1. Len(base) \in Nat /\ Len(block) \in Nat OBVIOUS
<1>2. place + Len(block) <= Len(base) BY DEF FoundAt
<1>3. CASE preferred >= minimum /\ FoundAt(base, block, preferred)
  <2>1. preferred \in minimum..Len(base) BY <1>1, <1>3 DEF FoundAt
  <2>2. preferred = place BY <2>1, <1>3 DEF OnlyPlace
  <2> QED BY <1>3, <2>2 DEF Locate
<1>4. CASE ~(preferred >= minimum /\ FoundAt(base, block, preferred))
  <2>1. place # preferred BY <1>1, <1>4
  <2>2. block # <<>> /\ OnlyPlace(base, block, minimum, place) BY <2>1
  <2>3. places = {place}
    <3>1. place \in places BY <1>1, <1>2
    <3>2. ASSUME NEW p \in places PROVE p = place
      <4>1. p \in minimum..Len(base) /\ FoundAt(base, block, p) BY <1>1
      <4> QED BY <2>2, <4>1 DEF OnlyPlace
    <3> HIDE DEF places
    <3> QED BY <3>1, <3>2
  <2>4. Cardinality(places) = 1
    <3> HIDE DEF places
    <3> QED BY <2>3, FS_Singleton
  <2>5. (CHOOSE p \in places : TRUE) = place
    <3> HIDE DEF places
    <3> QED BY <2>3
  <2> QED BY <1>4, <2>2, <2>4, <2>5 DEF Locate
<1> QED BY <1>3, <1>4

(* What stands before a place, and then up to another.                     *)
LEMMA UpToThere ==
    ASSUME NEW s \in Seq(STRING), NEW a \in Nat, NEW b \in a..Len(s)
    PROVE  /\ SubSeq(s, 1, a) \in Seq(STRING) /\ SubSeq(s, a + 1, b) \in Seq(STRING)
           /\ SubSeq(s, 1, a) \o SubSeq(s, a + 1, b) = SubSeq(s, 1, b)
<1> DEFINE m == b - a
           left == SubSeq(s, 0 + 1, 0 + a)
           right == SubSeq(s, a + 1, a + m)
           whole == SubSeq(s, 0 + 1, 0 + b)
           both == left \o right
<1>1. Len(s) \in Nat /\ m \in Nat /\ b \in Nat /\ a + m = b /\ a <= Len(s) /\ b <= Len(s) OBVIOUS
<1> HIDE DEF m
<1>2. left \in Seq(STRING) /\ Len(left) = a /\ \A i \in 1..a : left[i] = s[0 + i]
  <2>1. 0 \in Nat /\ 0 + a <= Len(s) BY <1>1
  <2> HIDE DEF left
  <2> QED BY <2>1, BlockLines DEF left
<1>3. right \in Seq(STRING) /\ Len(right) = m /\ \A i \in 1..m : right[i] = s[a + i]
  BY <1>1, BlockLines
<1>4. whole \in Seq(STRING) /\ Len(whole) = b /\ \A i \in 1..b : whole[i] = s[0 + i]
  <2>1. 0 \in Nat /\ 0 + b <= Len(s) BY <1>1
  <2> HIDE DEF whole
  <2> QED BY <1>1, <2>1, BlockLines DEF whole
<1>5. left = SubSeq(s, 1, a) /\ right = SubSeq(s, a + 1, b) /\ whole = SubSeq(s, 1, b)
  BY <1>1
<1> HIDE DEF left, right, whole
<1>6. /\ both \in Seq(STRING) /\ Len(both) = a + m
      /\ \A i \in 1..(a + m) : both[i] = IF i <= a THEN left[i] ELSE right[i - a]
  <2>1. /\ both \in Seq(STRING) /\ Len(both) = Len(left) + Len(right)
        /\ \A i \in 1..(Len(left) + Len(right)) :
              both[i] = IF i <= Len(left) THEN left[i] ELSE right[i - Len(left)]
    BY <1>2, <1>3, ConcatProperties
  <2> HIDE DEF both
  <2> QED BY <1>2, <1>3, <2>1
<1> HIDE DEF both
<1>7. ASSUME NEW i \in 1..b PROVE both[i] = whole[i]
  <2>1. whole[i] = s[i]
    <3>1. 0 + i = i OBVIOUS
    <3> QED BY <1>4, <3>1
  <2>2. CASE i <= a
    <3>1. i \in 1..a /\ i \in 1..(a + m) /\ 0 + i = i BY <1>1, <2>2
    <3> QED BY <1>2, <1>6, <2>1, <2>2, <3>1
  <2>3. CASE ~(i <= a)
    <3> DEFINE j == i - a
    <3>1. j \in 1..m /\ i \in 1..(a + m) /\ a + j = i BY <1>1, <2>3
    <3>2. both[i] = right[j] BY <1>6, <2>3, <3>1
    <3> HIDE DEF j
    <3>3. right[j] = s[a + j] BY <1>3, <3>1
    <3> QED BY <2>1, <3>1, <3>2, <3>3
  <2> QED BY <2>2, <2>3
<1>8. both = whole
  <2>1. Len(both) = Len(whole) /\ \A i \in 1..Len(both) : both[i] = whole[i]
    BY <1>1, <1>4, <1>6, <1>7
  <2> QED BY <1>4, <1>6, <2>1, SeqEqual
<1> QED BY <1>2, <1>3, <1>5, <1>8 DEF both

LEMMA WholeOf ==
    ASSUME NEW s \in Seq(STRING)
    PROVE  SubSeq(s, 1, Len(s)) = s /\ SubSeq(s, 1, 0) = <<>>
OBVIOUS

(* The hunks are on one side as they were found, and on the other as they  *)
(* were put in.                                                            *)
Starts(hunks, gone) == [k \in DOMAIN hunks |-> IF gone = "-" THEN hunks[k].old ELSE hunks[k].new]
Lies(base, result, hunks, gone, come, at, to) ==
    /\ at \in Placed(base, Blocks(hunks, gone))
    /\ to \in Placed(result, Blocks(hunks, come))
    /\ SameGaps(base, Blocks(hunks, gone), at, result, Blocks(hunks, come), to)
    /\ Told(base, Blocks(hunks, gone), at, Starts(hunks, gone))

(* Where the gap before hunk k + 1 begins.                                 *)
End(blocks, at, k) == IF k = 0 THEN 0 ELSE at[k] + Len(blocks[k])
OneGap(base, result, a, b, c, d) ==
    /\ a <= b /\ c <= d
    /\ SubSeq(base, a + 1, b) = SubSeq(result, c + 1, d)
LEMMA OneBlock ==
    ASSUME NEW base \in Seq(STRING), NEW result \in Seq(STRING), NEW hunks \in Seq(HunkType),
           NEW gone, NEW come, NEW at, NEW to, Lies(base, result, hunks, gone, come, at, to),
           NEW k \in 0..(Len(hunks) - 1)
    PROVE  LET olds == Blocks(hunks, gone)
               news == Blocks(hunks, come)
           IN  /\ at[k + 1] \in 0..Len(base) /\ to[k + 1] \in 0..Len(result)
               /\ FoundAt(base, olds[k + 1], at[k + 1]) /\ FoundAt(result, news[k + 1], to[k + 1])
               /\ OneGap(base, result, End(olds, at, k), at[k + 1], End(news, to, k), to[k + 1])
               /\ \/ at[k + 1] = Wanted(hunks[k + 1], gone)
                  \/ /\ olds[k + 1] # <<>>
                     /\ OnlyPlace(base, olds[k + 1], End(olds, at, k), at[k + 1])
<1> DEFINE olds == Blocks(hunks, gone)
           news == Blocks(hunks, come)
           j == k + 1
<1>1. /\ Len(hunks) \in Nat /\ DOMAIN olds = 1..Len(hunks) /\ DOMAIN news = 1..Len(hunks)
      /\ Len(olds) = Len(hunks) /\ Len(news) = Len(hunks) /\ DOMAIN hunks = 1..Len(hunks)
  BY BlocksTyped, LenProperties
<1>2. j \in 1..Len(hunks) /\ j \in 1..(Len(hunks) + 1) /\ ~(j > Len(hunks)) /\ j - 1 = k /\ (j = 1 <=> k = 0)
  BY <1>1
<1> HIDE DEF olds, news, j
<1>3. at[j] \in 0..Len(base) /\ FoundAt(base, olds[j], at[j])
  BY <1>1, <1>2 DEF Lies, Placed, olds
<1>4. to[j] \in 0..Len(result) /\ FoundAt(result, news[j], to[j])
  BY <1>1, <1>2 DEF Lies, Placed, news
<1>5. /\ Gap(base, olds, at, j).from = End(olds, at, k) /\ Gap(base, olds, at, j).to = at[j]
      /\ Gap(result, news, to, j).from = End(news, to, k) /\ Gap(result, news, to, j).to = to[j]
  BY <1>1, <1>2 DEF Gap, End
<1>6. OneGap(base, result, Gap(base, olds, at, j).from, Gap(base, olds, at, j).to,
                           Gap(result, news, to, j).from, Gap(result, news, to, j).to)
  <2>1. SameGaps(base, olds, at, result, news, to) BY DEF Lies, olds, news
  <2> QED BY <1>1, <1>2, <2>1, Zenon DEF SameGaps, OneGap
<1>7. Starts(hunks, gone)[j] = (IF gone = "-" THEN hunks[j].old ELSE hunks[j].new)
  BY <1>1, <1>2 DEF Starts
<1>8. \/ at[j] = Wanted(hunks[j], gone)
      \/ olds[j] # <<>> /\ OnlyPlace(base, olds[j], Gap(base, olds, at, j).from, at[j])
  <2>1. Told(base, olds, at, Starts(hunks, gone)) BY DEF Lies, olds
  <2> QED BY <1>1, <1>2, <1>7, <2>1, Zenon DEF Told, Wanted, OnlyPlace
<1> QED BY <1>3, <1>4, <1>5, <1>6, <1>8 DEF olds, news, j

LEMMA LastGap ==
    ASSUME NEW base \in Seq(STRING), NEW result \in Seq(STRING), NEW hunks \in Seq(HunkType),
           NEW gone, NEW come, NEW at, NEW to, Lies(base, result, hunks, gone, come, at, to)
    PROVE  OneGap(base, result, End(Blocks(hunks, gone), at, Len(hunks)), Len(base),
                                End(Blocks(hunks, come), to, Len(hunks)), Len(result))
<1> DEFINE olds == Blocks(hunks, gone)
           news == Blocks(hunks, come)
           n == Len(hunks)
           j == n + 1
<1>1. n \in Nat /\ Len(olds) = n /\ Len(news) = n BY BlocksTyped, LenProperties
<1> HIDE DEF olds, news, n
<1>2. j \in 1..(n + 1) /\ j > n /\ j - 1 = n /\ (j = 1 <=> n = 0) BY <1>1
<1> HIDE DEF j
<1>3. /\ Gap(base, olds, at, j).from = End(olds, at, n) /\ Gap(base, olds, at, j).to = Len(base)
      /\ Gap(result, news, to, j).from = End(news, to, n) /\ Gap(result, news, to, j).to = Len(result)
  BY <1>1, <1>2 DEF Gap, End
<1>4. SameGaps(base, olds, at, result, news, to) BY DEF Lies, olds, news
<1>5. OneGap(base, result, Gap(base, olds, at, j).from, Gap(base, olds, at, j).to,
                           Gap(result, news, to, j).from, Gap(result, news, to, j).to)
  BY <1>1, <1>2, <1>4, Zenon DEF SameGaps, OneGap
<1> QED BY <1>3, <1>5 DEF olds, news, n

(* One turn copies up to the hunk and puts in what is there on the other   *)
(* side.                                                                   *)
Done(blocks, at, result, news, to, k) ==
    [cursor |-> End(blocks, at, k), output |-> SubSeq(result, 1, End(news, to, k))]

LEMMA EndFits ==
    ASSUME NEW base \in Seq(STRING), NEW hunks \in Seq(HunkType), NEW mark,
           NEW at \in Placed(base, Blocks(hunks, mark)), NEW k \in 0..Len(hunks)
    PROVE  End(Blocks(hunks, mark), at, k) \in 0..Len(base)
<1> DEFINE blocks == Blocks(hunks, mark)
<1>1. Len(base) \in Nat /\ Len(hunks) \in Nat OBVIOUS
<1>2. CASE k = 0 BY <1>1, <1>2 DEF End
<1>3. CASE k # 0
  <2>1. k \in 1..Len(hunks) BY <1>1, <1>3
  <2>2. k \in DOMAIN blocks /\ blocks[k] \in Seq(STRING) BY <2>1, BlocksTyped
  <2> HIDE DEF blocks
  <2>3. at[k] \in 0..Len(base) /\ FoundAt(base, blocks[k], at[k]) BY <2>2 DEF Placed, blocks
  <2>4. Len(blocks[k]) \in Nat BY <2>2
  <2>5. at[k] + Len(blocks[k]) \in 0..Len(base)
    <3> DEFINE x == at[k]
               m == Len(blocks[k])
    <3>1. x \in 0..Len(base) /\ m \in Nat /\ x + m <= Len(base) BY <2>3, <2>4 DEF FoundAt
    <3> HIDE DEF x, m
    <3>2. x + m \in 0..Len(base) BY <1>1, <3>1
    <3> QED BY <3>2 DEF x, m
  <2> QED BY <1>3, <2>5 DEF End, blocks
<1> QED BY <1>2, <1>3

LEMMA TurnAsTold ==
    ASSUME NEW base \in Seq(STRING), NEW result \in Seq(STRING), NEW hunks \in Seq(HunkType),
           NEW gone, NEW come, NEW at, NEW to, Lies(base, result, hunks, gone, come, at, to),
           NEW k \in 0..(Len(hunks) - 1)
    PROVE  LET olds == Blocks(hunks, gone)
               news == Blocks(hunks, come)
           IN  Turn(base, hunks[k + 1], gone, come, Done(olds, at, result, news, to, k))
                 = Done(olds, at, result, news, to, k + 1)
<1> DEFINE olds == Blocks(hunks, gone)
           news == Blocks(hunks, come)
           done == Done(olds, at, result, news, to, k)
           hunk == hunks[k + 1]
           old == Side(hunk.lines, gone)
           new == Side(hunk.lines, come)
           a == End(olds, at, k)
           b == at[k + 1]
           c == End(news, to, k)
           d == to[k + 1]
           e == d + Len(new)
<1>1. Len(base) \in Nat /\ Len(result) \in Nat /\ Len(hunks) \in Nat OBVIOUS
<1>2. k + 1 \in 1..Len(hunks) /\ k \in 0..Len(hunks) /\ k + 1 # 0 BY <1>1
<1>3. hunk \in HunkType BY <1>2, ElementOfSeq
<1>4. hunk.lines \in Seq(HunkLine) /\ hunk.old \in Nat /\ hunk.new \in Nat BY <1>3 DEF HunkType
<1>5. olds[k + 1] = old /\ news[k + 1] = new /\ old \in Seq(STRING) /\ new \in Seq(STRING)
  BY <1>2, BlocksTyped
<1>6. /\ b \in 0..Len(base) /\ d \in 0..Len(result)
      /\ FoundAt(base, old, b) /\ FoundAt(result, new, d)
      /\ OneGap(base, result, a, b, c, d)
      /\ b = Wanted(hunk, gone) \/ (old # <<>> /\ OnlyPlace(base, old, a, b))
  BY <1>5, OneBlock
<1>7. a \in 0..Len(base) /\ c \in 0..Len(result)
  <2>1. at \in Placed(base, olds) /\ to \in Placed(result, news) BY DEF Lies
  <2> QED BY <1>2, <2>1, EndFits
<1>8. Wanted(hunk, gone) \in Int BY <1>4 DEF Wanted
<1>9. Mismatch # done /\ done.cursor = a /\ done.output = SubSeq(result, 1, c)
  <2>1. done = [cursor |-> a, output |-> SubSeq(result, 1, c)] BY DEF Done
  <2> HIDE DEF done, a, c
  <2> QED BY <2>1 DEF Mismatch
<1>10. End(olds, at, k + 1) = b + Len(old) /\ End(news, to, k + 1) = e
  BY <1>2, <1>5 DEF End
<1> HIDE DEF olds, news, done, hunk, a, b, c, d
<1>11. Place(base, hunk, gone, done) = b
  <2>1. a \in Nat /\ b \in a..Len(base) BY <1>1, <1>6, <1>7 DEF OneGap
  <2> HIDE DEF old
  <2>2. Locate(base, old, Wanted(hunk, gone), a) = b BY <1>5, <1>6, <1>8, <2>1, LocatedAsTold
  <2> QED BY <1>9, <2>2 DEF Place, old
<1>12. ~(b > Len(base)) BY <1>1, <1>6
<1>13. Turn(base, hunk, gone, come, done)
         = [cursor |-> b + Len(old), output |-> SubSeq(result, 1, c) \o SubSeq(base, a + 1, b) \o new]
  BY <1>9, <1>11, <1>12 DEF Turn
<1> HIDE DEF old, new
<1>14. SubSeq(result, 1, c) \o SubSeq(base, a + 1, b) \o new = SubSeq(result, 1, e)
  <2>1. SubSeq(base, a + 1, b) = SubSeq(result, c + 1, d) BY <1>6 DEF OneGap
  <2>2. c \in Nat /\ d \in c..Len(result) BY <1>1, <1>6, <1>7 DEF OneGap
  <2>3. SubSeq(result, 1, c) \o SubSeq(result, c + 1, d) = SubSeq(result, 1, d)
    BY <2>2, UpToThere
  <2>4. e <= Len(result) /\ SubSeq(result, d + 1, e) = new BY <1>6 DEF FoundAt
  <2>5. Len(new) \in Nat BY <1>5
  <2>6. d \in Nat /\ e \in d..Len(result) BY <1>1, <1>6, <2>4, <2>5
  <2> HIDE DEF e
  <2>7. SubSeq(result, 1, d) \o SubSeq(result, d + 1, e) = SubSeq(result, 1, e)
    BY <2>6, UpToThere
  <2> QED BY <2>1, <2>3, <2>4, <2>7
<1> HIDE DEF e
<1>15. Turn(base, hunk, gone, come, done) = Done(olds, at, result, news, to, k + 1)
  BY <1>10, <1>13, <1>14 DEF Done
<1> QED BY <1>15 DEF olds, news, done, hunk

LEMMA AppliedAsTold ==
    ASSUME NEW base \in Seq(STRING), NEW result \in Seq(STRING), NEW hunks \in Seq(HunkType),
           NEW gone, NEW come, NEW at, NEW to, Lies(base, result, hunks, gone, come, at, to)
    PROVE  ApplyHunks(base, hunks, gone, come) = [lines |-> result]
<1> DEFINE olds == Blocks(hunks, gone)
           news == Blocks(hunks, come)
           n == Len(hunks)
           end(k) == Done(olds, at, result, news, to, k)
           a == End(olds, at, n)
           c == End(news, to, n)
           done == Applied(base, hunks, gone, come)
<1>1. n \in Nat /\ Len(base) \in Nat /\ Len(result) \in Nat OBVIOUS
<1>2. PICK g : Steps(g, base, hunks, gone, come) BY AppliedSteps
<1> DEFINE S == {k \in 0..n : g[k] = end(k)}
<1>3. 0 \in S
  <2>1. end(0) = Begun BY WholeOf DEF Done, End, Begun
  <2> HIDE DEF end
  <2> QED BY <1>1, <1>2, <2>1 DEF Steps
<1>4. ASSUME NEW k \in 0..(n - 1), k \in S PROVE k + 1 \in S
  <2>1. k + 1 \in 1..n /\ k + 1 \in 0..n /\ (k + 1) - 1 = k /\ g[k] = end(k) BY <1>1, <1>4
  <2>2. Turn(base, hunks[k + 1], gone, come, end(k)) = end(k + 1)
    <3>1. k \in 0..(Len(hunks) - 1) OBVIOUS
    <3> QED BY <3>1, TurnAsTold
  <2>3. g[k + 1] = Turn(base, hunks[k + 1], gone, come, g[k]) BY <1>2, <2>1 DEF Steps
  <2> HIDE DEF end
  <2> QED BY <2>1, <2>2, <2>3
<1>5. \A k \in 0..n : k \in S
  <2> HIDE DEF S, n
  <2> QED BY <1>1, <1>3, <1>4, UpTo
<1>6. done = end(n)
  <2>1. n \in S BY <1>1, <1>5
  <2> HIDE DEF end
  <2> QED BY <1>2, <2>1 DEF Steps
<1>7. done # Mismatch /\ done.cursor = a /\ done.output = SubSeq(result, 1, c)
  <2>1. done = [cursor |-> a, output |-> SubSeq(result, 1, c)] BY <1>6 DEF Done
  <2> HIDE DEF done, a, c
  <2> QED BY <2>1 DEF Mismatch
<1>8. OneGap(base, result, a, Len(base), c, Len(result)) BY LastGap
<1>9. c \in 0..Len(result)
  <2>1. to \in Placed(result, news) BY DEF Lies
  <2>2. n \in 0..Len(hunks) BY <1>1
  <2> QED BY <2>1, <2>2, EndFits
<1> HIDE DEF done, a, c
<1>10. SubSeq(result, 1, c) \o SubSeq(base, a + 1, Len(base)) = result
  <2>1. c \in Nat /\ Len(result) \in c..Len(result) BY <1>1, <1>9
  <2>2. SubSeq(result, 1, c) \o SubSeq(result, c + 1, Len(result)) = SubSeq(result, 1, Len(result))
    BY <2>1, UpToThere
  <2> QED BY <1>8, <2>2, WholeOf DEF OneGap
<1> QED BY <1>7, <1>10 DEF ApplyHunks, done

(* A hunk that is nowhere to be found stops all of it.                     *)
LEMMA ForeignFails ==
    ASSUME NEW base \in Seq(STRING), NEW hunks \in Seq(HunkType), NEW gone, NEW come,
           Foreign(base, Blocks(hunks, gone))
    PROVE  ApplyHunks(base, hunks, gone, come) = Mismatch
<1> DEFINE blocks == Blocks(hunks, gone)
<1>1. SUFFICES ASSUME Applied(base, hunks, gone, come) # Mismatch PROVE FALSE
  BY DEF ApplyHunks
<1>2. PICK g : Steps(g, base, hunks, gone, come) BY AppliedSteps
<1>3. PICK k \in DOMAIN blocks : \A p \in 0..Len(base) : ~FoundAt(base, blocks[k], p)
  BY DEF Foreign
<1>4. k \in 1..Len(hunks) /\ blocks[k] = Side(hunks[k].lines, gone) BY BlocksTyped
<1>5. k \in 0..Len(hunks) /\ k - 1 \in 0..Len(hunks)
  <2>1. Len(hunks) \in Nat OBVIOUS
  <2> QED BY <1>4, <2>1
<1>6. /\ g[k] \in Going(base) /\ g[k] # Mismatch
      /\ g[k - 1] \in Going(base) /\ g[k - 1] # Mismatch
  BY <1>1, <1>2, <1>5, NoneFailed
<1>7. g[k] = Turn(base, hunks[k], gone, come, g[k - 1]) BY <1>2, <1>4 DEF Steps
<1>8. hunks[k] \in HunkType BY <1>4, ElementOfSeq
<1> DEFINE old == Side(hunks[k].lines, gone)
           there == g[k].cursor - Len(old)
<1>9. there \in 0..Len(base) /\ FoundAt(base, old, there) BY <1>6, <1>7, <1>8, TurnAdds
<1> HIDE DEF there
<1> QED BY <1>3, <1>4, <1>9

(* A told patch, applied and taken back.                                   *)
LEMMA ToldBothWays ==
    ASSUME NEW before \in Seq(STRING), NEW after \in Seq(STRING), NEW file,
           file.hunks \in Seq(HunkType), IsToldPatch(before, after, file.hunks)
    PROVE  /\ Patched(before, file) = [lines |-> after]
           /\ Reversed(after, file) = [lines |-> before]
<1> DEFINE hunks == file.hunks
           olds == Blocks(hunks, "-")
           news == Blocks(hunks, "+")
<1>1. PICK at \in Placed(before, olds), to \in Placed(after, news) :
         /\ SameGaps(before, olds, at, after, news, to)
         /\ Told(before, olds, at, [k \in DOMAIN hunks |-> hunks[k].old])
         /\ Told(after, news, to, [k \in DOMAIN hunks |-> hunks[k].new])
  BY Zenon DEF IsToldPatch
<1>2. Starts(hunks, "-") = [k \in DOMAIN hunks |-> hunks[k].old]
      /\ Starts(hunks, "+") = [k \in DOMAIN hunks |-> hunks[k].new]
  BY DEF Starts
<1>3. Len(olds) = Len(news) BY BlocksTyped
<1> HIDE DEF hunks
<1>4. Lies(before, after, hunks, "-", "+", at, to) BY <1>1, <1>2 DEF Lies
<1>5. Lies(after, before, hunks, "+", "-", to, at)
  <2>1. SameGaps(after, news, to, before, olds, at)
    <3> HIDE DEF olds, news
    <3> QED BY <1>1, <1>3 DEF SameGaps
  <2> QED BY <1>1, <1>2, <2>1 DEF Lies
<1>6. hunks \in Seq(HunkType) BY DEF hunks
<1>7. ApplyHunks(before, hunks, "-", "+") = [lines |-> after] BY <1>4, <1>6, AppliedAsTold
<1>8. ApplyHunks(after, hunks, "+", "-") = [lines |-> before] BY <1>5, <1>6, AppliedAsTold
<1> QED BY <1>7, <1>8 DEF Patched, Reversed, hunks

(* A text is no missing file, and lines are no mismatch.                   *)
LEMMA TextFields ==
    ASSUME NEW text \in FileText
    PROVE  text.lines \in Seq(STRING) /\ text.eol \in BOOLEAN /\ text # Absent
<1>1. text.lines \in Seq(STRING) /\ text.eol \in BOOLEAN BY DEF FileText
<1>2. text = [lines |-> text.lines, eol |-> text.eol] BY DEF FileText
<1> DEFINE lines == text.lines
           eol == text.eol
<1>3. [lines |-> lines, eol |-> eol] # Absent
  <2> HIDE DEF lines, eol
  <2> QED BY DEF Absent
<1> QED BY <1>1, <1>2, <1>3

LEMMA LinesFit ==
    ASSUME NEW applied, NEW lines, applied = [lines |-> lines]
    PROVE  applied # Mismatch /\ applied.lines = lines
BY DEF Mismatch

(* Two texts of the same lines that end alike are the same.                *)
LEMMA SameText ==
    ASSUME NEW lines, NEW a \in BOOLEAN, NEW b \in BOOLEAN,
           NEW s, s = Text(lines, b), s.eol = a, NEW t, t = Text(lines, a), t.eol = b
    PROVE  s = t
<1>1. \A eol \in BOOLEAN : Text(lines, eol).eol = (eol /\ lines # <<>>) BY DEF Text
<1>2. CASE lines = <<>>
  <2>1. Text(lines, TRUE) = Text(lines, FALSE) BY <1>2 DEF Text
  <2> QED BY <2>1
<1>3. CASE lines # <<>>
  <2>1. Text(lines, TRUE).eol = TRUE /\ Text(lines, FALSE).eol = FALSE BY <1>3, <1>1
  <2>2. a = b BY <2>1
  <2> QED BY <2>2
<1> QED BY <1>2, <1>3

LEMMA AddedIsDetermined ==
    ASSUME NEW file, file.hunks \in Seq(HunkType), file.operation = "add",
           NEW after \in FileText, NEW disk \in {Absent, after},
           EndsAlike(file, NoText, after), NotMistaken(file, <<>>, after.lines)
    PROVE  ReconstructAdded(file, disk) = [before |-> NoText, after |-> after]
<1> DEFINE eol == \A k \in DOMAIN file.hunks : ~file.hunks[k].noeol
           patched == Patched(<<>>, file)
<1>1. <<>> \in Seq(STRING) /\ after.lines \in Seq(STRING) BY TextFields
<1>2. IsToldPatch(<<>>, after.lines, file.hunks) BY DEF NotMistaken
<1>3. patched = [lines |-> after.lines]
  <2> DEFINE lines == after.lines
             none == <<>>
  <2>1. lines \in Seq(STRING) /\ none \in Seq(STRING) /\ IsToldPatch(none, lines, file.hunks)
    BY <1>1, <1>2
  <2> HIDE DEF lines, none
  <2>2. Patched(none, file) = [lines |-> lines] BY <2>1, ToldBothWays
  <2> QED BY <2>2 DEF lines, none
<1>4. patched # Mismatch /\ patched.lines = after.lines BY <1>3, LinesFit
<1>5. after = Text(after.lines, eol) BY Zenon DEF EndsAlike
<1>6. ReconstructAdded(file, disk)
        = IF patched = Mismatch THEN ReconstructionError
          ELSE [before |-> NoText,
                after |-> IF disk # Absent /\ disk.lines = patched.lines THEN disk
                          ELSE Text(patched.lines, eol)]
  BY Zenon DEF ReconstructAdded
<1> HIDE DEF patched, eol
<1> QED BY <1>4, <1>5, <1>6

LEMMA DeletedIsDetermined ==
    ASSUME NEW file, file.hunks \in Seq(HunkType), file.operation = "delete",
           NEW before \in FileText, NEW disk \in {Absent, before},
           EndsAlike(file, before, NoText), NotMistaken(file, before.lines, <<>>)
    PROVE  ReconstructDeleted(file, disk) = [before |-> before, after |-> NoText]
<1> DEFINE eol == \A k \in DOMAIN file.hunks : ~file.hunks[k].noeol
           reversed == Reversed(<<>>, file)
<1>1. <<>> \in Seq(STRING) /\ before.lines \in Seq(STRING) BY TextFields
<1>2. IsToldPatch(before.lines, <<>>, file.hunks) BY DEF NotMistaken
<1>3. reversed = [lines |-> before.lines] /\ Patched(before.lines, file) = [lines |-> <<>>]
  <2> DEFINE lines == before.lines
             none == <<>>
  <2>1. lines \in Seq(STRING) /\ none \in Seq(STRING) /\ IsToldPatch(lines, none, file.hunks)
    BY <1>1, <1>2
  <2> HIDE DEF lines, none
  <2>2. Reversed(none, file) = [lines |-> lines] /\ Patched(lines, file) = [lines |-> none]
    BY <2>1, ToldBothWays
  <2> QED BY <2>2 DEF lines, none
<1>4. reversed # Mismatch /\ reversed.lines = before.lines BY <1>3, LinesFit
<1>5. before = Text(before.lines, eol) BY Zenon DEF EndsAlike
<1>6. before # Absent BY TextFields
<1>7. ReconstructDeleted(file, disk)
        = IF disk = Absent
          THEN IF reversed = Mismatch THEN ReconstructionError
               ELSE [before |-> Text(reversed.lines, eol), after |-> NoText]
          ELSE IF Patched(disk.lines, file) = [lines |-> <<>>] THEN [before |-> disk, after |-> NoText]
          ELSE ReconstructionError
  BY Zenon DEF ReconstructDeleted
<1> HIDE DEF reversed, eol
<1> QED BY <1>3, <1>4, <1>5, <1>6, <1>7

LEMMA ChangedIsDetermined ==
    ASSUME NEW file, file.hunks \in Seq(HunkType), file.operation \in {"modify", "rename"},
           NEW before \in FileText, NEW after \in FileText, NEW disk \in {before, after},
           EndsAlike(file, before, after), NotMistaken(file, before.lines, after.lines)
    PROVE  ReconstructChanged(file, disk) = [before |-> before, after |-> after]
<1> DEFINE patched == Patched(disk.lines, file)
           reversed == Reversed(disk.lines, file)
           isNew == reversed # Mismatch /\ (patched = Mismatch \/ TakenForNew(file))
           earlier == Text(reversed.lines, disk.eol)
           later == Text(patched.lines, disk.eol)
           sides == ReconstructChanged(file, disk)
<1>1. sides = IF disk = Absent THEN ReconstructionError
              ELSE IF file.hunks = <<>> THEN [before |-> disk, after |-> disk]
              ELSE IF isNew THEN [before |-> earlier, after |-> disk]
              ELSE IF patched = Mismatch THEN ReconstructionError
              ELSE [before |-> disk, after |-> later]
  BY Zenon DEF ReconstructChanged
<1>2. disk # Absent BY TextFields
<1>3. before.lines \in Seq(STRING) /\ after.lines \in Seq(STRING) BY TextFields
<1>4. /\ IsToldPatch(before.lines, after.lines, file.hunks)
      /\ file.hunks # <<>> =>
            IF LineDelta(file) > 0 THEN Foreign(before.lines, Blocks(file.hunks, "+"))
                                   ELSE Foreign(after.lines, Blocks(file.hunks, "-"))
  BY Zenon DEF NotMistaken
<1>5. /\ Patched(before.lines, file) = [lines |-> after.lines]
      /\ Reversed(after.lines, file) = [lines |-> before.lines]
  BY <1>3, <1>4, ToldBothWays
<1>6. before = Text(before.lines, after.eol) /\ after = Text(after.lines, before.eol)
  BY DEF EndsAlike
<1>7. CASE file.hunks = <<>>
  <2>1. before.lines = after.lines
    <3>1. Patched(before.lines, file) = [lines |-> before.lines]
      <4>1. <<>> \in Seq(HunkType) OBVIOUS
      <4>2. PICK g : Steps(g, before.lines, <<>>, "-", "+") BY <1>3, <4>1, AppliedSteps
      <4>3. Applied(before.lines, <<>>, "-", "+") = Begun BY <4>2 DEF Steps
      <4>4. Begun # Mismatch /\ Begun.output = <<>> /\ Begun.cursor = 0
        BY DEF Begun, Mismatch
      <4> DEFINE lines == before.lines
                 left == Begun.output \o SubSeq(lines, Begun.cursor + 1, Len(lines))
      <4>5. left = lines
        <5>1. Begun.cursor + 1 = 1 BY <4>4
        <5>2. <<>> \o SubSeq(lines, 1, Len(lines)) = lines BY <1>3, WholeOf
        <5> QED BY <4>4, <5>1, <5>2
      <4>6. ApplyHunks(lines, <<>>, "-", "+") = [lines |-> left]
        BY <4>3, <4>4, Zenon DEF ApplyHunks
      <4> HIDE DEF left
      <4> QED BY <1>7, <4>5, <4>6 DEF Patched
    <3>2. [lines |-> before.lines] = [lines |-> after.lines] BY <1>5, <3>1
    <3> QED BY <3>2
  <2>2. before = after
    <3>1. before.eol \in BOOLEAN /\ after.eol \in BOOLEAN BY TextFields
    <3> DEFINE lines == before.lines
               a == before.eol
               b == after.eol
    <3>2. /\ before = Text(lines, b) /\ before.eol = a
          /\ after = Text(lines, a) /\ after.eol = b
      BY <1>6, <2>1
    <3>3. a \in BOOLEAN /\ b \in BOOLEAN BY <3>1
    <3> HIDE DEF lines, a, b
    <3> QED BY <3>2, <3>3, SameText
  <2>3. sides = [before |-> disk, after |-> disk]
    <3> HIDE DEF isNew, earlier, later, patched, sides
    <3> QED BY <1>1, <1>2, <1>7
  <2>4. disk = before /\ disk = after BY <2>2
  <2> QED BY <2>3, <2>4
<1>8. CASE file.hunks # <<>> /\ disk = before
  <2>1. patched = [lines |-> after.lines] BY <1>5, <1>8
  <2>2. patched # Mismatch /\ patched.lines = after.lines BY <2>1, LinesFit
  <2>3. LineDelta(file) > 0 => reversed = Mismatch
    <3>1. SUFFICES ASSUME LineDelta(file) > 0 PROVE reversed = Mismatch OBVIOUS
    <3>2. Foreign(before.lines, Blocks(file.hunks, "+")) BY <1>4, <1>8, <3>1
    <3>3. ApplyHunks(before.lines, file.hunks, "+", "-") = Mismatch BY <1>3, <3>2, ForeignFails
    <3> QED BY <1>8, <3>3 DEF Reversed
  <2>4. later = after BY <1>6, <1>8, <2>2
  <2> HIDE DEF patched, reversed, earlier, later, sides
  <2>5. ~isNew BY <2>2, <2>3 DEF TakenForNew
  <2> HIDE DEF isNew
  <2>6. sides = [before |-> disk, after |-> later] BY <1>1, <1>2, <1>8, <2>2, <2>5
  <2> QED BY <1>8, <2>4, <2>6 DEF sides
<1>9. CASE file.hunks # <<>> /\ disk = after
  <2>1. reversed = [lines |-> before.lines] BY <1>5, <1>9
  <2>2. reversed # Mismatch /\ reversed.lines = before.lines BY <2>1, LinesFit
  <2>3. ~(LineDelta(file) > 0) => patched = Mismatch
    <3>1. SUFFICES ASSUME ~(LineDelta(file) > 0) PROVE patched = Mismatch OBVIOUS
    <3>2. Foreign(after.lines, Blocks(file.hunks, "-")) BY <1>4, <1>9, <3>1
    <3>3. ApplyHunks(after.lines, file.hunks, "-", "+") = Mismatch BY <1>3, <3>2, ForeignFails
    <3> QED BY <1>9, <3>3 DEF Patched
  <2>4. earlier = before BY <1>6, <1>9, <2>2
  <2> HIDE DEF patched, reversed, earlier, later, sides
  <2>5. isNew BY <2>2, <2>3 DEF TakenForNew
  <2> HIDE DEF isNew
  <2>6. sides = [before |-> earlier, after |-> disk] BY <1>1, <1>2, <1>9, <2>5
  <2> QED BY <1>9, <2>4, <2>6 DEF sides
<1> QED BY <1>7, <1>8, <1>9

(* Of a determined change both trees give the same two sides.              *)
LEMMA ReconstructIsDetermined ==
    ASSUME NEW c, c.before \in Trees, c.after \in Trees,
           NEW file \in FileType(Paths \cup {NoPath}), OnlyItChanges(file, c),
           EndsAlike(file, OldText(file, c), NewText(file, c)),
           NotMistaken(file, OldText(file, c).lines, NewText(file, c).lines),
           NEW where \in {c.before, c.after}
    PROVE  Reconstruct(file, where) = SidesOf(file, c)
<1> DEFINE before == OldText(file, c)
           after == NewText(file, c)
           disk == At(where, BasePath(file, where))
           sides == [before |-> before, after |-> after]
<1>1. /\ file.old \in Paths \cup {NoPath} /\ file.new \in Paths \cup {NoPath}
      /\ file.hunks \in Seq(HunkType)
      /\ file.operation \in {"add", "delete", "rename", "modify"}
      /\ file.operation = "add" => file.old = NoPath
      /\ file.operation = "delete" => file.new = NoPath
  BY DEF FileType
<1>2. \A tree_, path : tree_ \in Trees /\ path \in Paths \cup {NoPath}
                         => At(tree_, path) \in FileText \cup {Absent}
  BY DEF At, Trees
<1>3. before # Absent /\ after # Absent
      /\ (file.old # file.new => At(c.before, file.new) = Absent /\ At(c.after, file.old) = Absent)
  BY DEF OnlyItChanges
<1>4. NoText \in FileText
  <2>1. <<>> \in Seq(STRING) OBVIOUS
  <2> QED BY <2>1 DEF NoText, Text, FileText
<1>5. before \in FileText
  <2>1. CASE file.operation = "add" BY <1>4, <2>1 DEF OldText
  <2>2. CASE file.operation # "add"
    <3>1. before = At(c.before, file.old) BY <2>2 DEF OldText
    <3>2. At(c.before, file.old) \in FileText \cup {Absent} BY <1>1, <1>2
    <3> QED BY <1>3, <3>1, <3>2
  <2> QED BY <2>1, <2>2
<1>6. after \in FileText
  <2>1. CASE file.operation = "delete" BY <1>4, <2>1 DEF NewText
  <2>2. CASE file.operation # "delete"
    <3>1. after = At(c.after, file.new) BY <2>2 DEF NewText
    <3>2. At(c.after, file.new) \in FileText \cup {Absent} BY <1>1, <1>2
    <3> QED BY <1>3, <3>1, <3>2
  <2> QED BY <2>1, <2>2
<1>7. EndsAlike(file, before, after) /\ NotMistaken(file, before.lines, after.lines) OBVIOUS
<1>8. At(c.before, NoPath) = Absent /\ At(c.after, NoPath) = Absent BY DEF At
<1>9. CASE file.operation = "add"
  <2>1. before = NoText /\ after = At(c.after, file.new) BY <1>9 DEF OldText, NewText
  <2>2. file.old = NoPath /\ file.new # NoPath BY <1>1, <1>3, <1>8, <1>9, <2>1
  <2>3. BasePath(file, where) = file.new BY <2>2 DEF BasePath
  <2>4. disk \in {Absent, after} BY <1>3, <2>1, <2>2, <2>3
  <2>5. NoText.lines = <<>> BY TextLines
  <2>6. Reconstruct(file, where) = ReconstructAdded(file, disk) BY <1>9 DEF Reconstruct
  <2> HIDE DEF before, after, disk
  <2>7. ReconstructAdded(file, disk) = [before |-> NoText, after |-> after]
    BY <1>1, <1>6, <1>7, <1>9, <2>1, <2>4, <2>5, AddedIsDetermined
  <2> QED BY <2>1, <2>6, <2>7 DEF SidesOf, before, after
<1>10. CASE file.operation = "delete"
  <2>1. after = NoText /\ before = At(c.before, file.old) BY <1>10 DEF OldText, NewText
  <2>2. file.new = NoPath /\ file.old # NoPath BY <1>1, <1>3, <1>8, <1>10, <2>1
  <2>3. BasePath(file, where) = file.old
    <3>1. At(where, file.new) = Absent BY <1>8, <2>2
    <3> QED BY <2>2, <3>1 DEF BasePath
  <2>4. disk \in {Absent, before} BY <1>3, <2>1, <2>2, <2>3
  <2>5. NoText.lines = <<>> BY TextLines
  <2>6. Reconstruct(file, where) = ReconstructDeleted(file, disk) BY <1>10 DEF Reconstruct
  <2> HIDE DEF before, after, disk
  <2>7. ReconstructDeleted(file, disk) = [before |-> before, after |-> NoText]
    BY <1>1, <1>5, <1>7, <1>10, <2>1, <2>4, <2>5, DeletedIsDetermined
  <2> QED BY <2>1, <2>6, <2>7 DEF SidesOf, before, after
<1>11. CASE file.operation \in {"modify", "rename"}
  <2>1. before = At(c.before, file.old) /\ after = At(c.after, file.new)
    BY <1>11 DEF OldText, NewText
  <2>2. file.old # NoPath /\ file.new # NoPath BY <1>3, <1>8, <2>1
  <2>3. disk \in {before, after}
    <3>1. CASE where = c.before
      <4>1. At(where, file.old) # Absent BY <1>3, <2>1, <3>1
      <4>2. BasePath(file, where) = file.old BY <2>2, <4>1 DEF BasePath
      <4> QED BY <2>1, <3>1, <4>2
    <3>2. CASE where = c.after
      <4>1. At(where, file.new) # Absent BY <1>3, <2>1, <3>2
      <4>2. BasePath(file, where) = file.new
        <5>1. CASE file.old = file.new BY <5>1 DEF BasePath
        <5>2. CASE file.old # file.new
          <6>1. At(where, file.old) = Absent BY <1>3, <3>2, <5>2
          <6> QED BY <4>1, <6>1 DEF BasePath
        <5> QED BY <5>1, <5>2
      <4> QED BY <2>1, <3>2, <4>2
    <3> QED BY <3>1, <3>2
  <2>4. Reconstruct(file, where) = ReconstructChanged(file, disk) BY <1>11 DEF Reconstruct
  <2> HIDE DEF before, after, disk
  <2>5. ReconstructChanged(file, disk) = [before |-> before, after |-> after]
    BY <1>1, <1>5, <1>6, <1>7, <1>11, <2>3, ChangedIsDetermined
  <2> QED BY <2>4, <2>5 DEF SidesOf, before, after
<1> QED BY <1>1, <1>9, <1>10, <1>11

(* The digests do not tell the trees apart either.                         *)
LEMMA DigestsAreDetermined ==
    ASSUME change.before \in Trees, change.after \in Trees,
           File \in FileType(Paths \cup {NoPath}), OnlyItChanges(File, change),
           tree \in {change.before, change.after}
    PROVE  ContentDigests(SidesOf(File, change))
             = [baseline |-> DigestOf(change.before), target |-> DigestOf(change.after)]
<1> DEFINE sides == SidesOf(File, change)
           old == File.old
           new == File.new
           kept == {p \in Paths : Digested(p)}
           virtualOld == [p \in Paths |-> IF p = old THEN sides.before
                                          ELSE IF p = new THEN Absent ELSE tree[p]]
           virtualNew == [p \in Paths |-> IF p = new THEN sides.after
                                          ELSE IF p = old THEN Absent ELSE tree[p]]
<1>1. /\ File.operation = "add" => old = NoPath
      /\ File.operation = "delete" => new = NoPath
  BY DEF FileType
<1>2. sides.before = OldText(File, change) /\ sides.after = NewText(File, change) BY DEF SidesOf
<1>3. \A p \in Paths \ {old, new} : change.before[p] = change.after[p] BY DEF OnlyItChanges
<1>4. old # new => At(change.before, new) = Absent /\ At(change.after, old) = Absent
  BY DEF OnlyItChanges
<1>5. NoPath \notin Paths BY ChangesAssumption DEF ChangesAssumption
<1>6. \A p \in Paths \ {old, new} : tree[p] = change.before[p] /\ tree[p] = change.after[p]
  BY <1>3
<1>7. sides # ReconstructionError
  <2> DEFINE x == OldText(File, change)
             y == NewText(File, change)
  <2>1. [before |-> x, after |-> y] # ReconstructionError
    <3> HIDE DEF x, y
    <3> QED BY DEF ReconstructionError
  <2> QED BY <2>1 DEF SidesOf
<1>8. old \in Paths => sides.before = change.before[old]
  BY <1>1, <1>2, <1>5 DEF OldText, At
<1>9. new \in Paths => sides.after = change.after[new]
  BY <1>1, <1>2, <1>5 DEF NewText, At
<1>10. new \in Paths /\ old # new => change.before[new] = Absent BY <1>4, <1>5 DEF At
<1>11. old \in Paths /\ old # new => change.after[old] = Absent BY <1>4, <1>5 DEF At
<1> HIDE DEF sides, old, new
<1>12. DigestOf(virtualOld) = DigestOf(change.before)
  <2>1. ASSUME NEW p \in kept PROVE virtualOld[p] = change.before[p] BY <1>6, <1>8, <1>10
  <2> HIDE DEF virtualOld
  <2> QED BY <2>1 DEF DigestOf
<1>13. DigestOf(virtualNew) = DigestOf(change.after)
  <2>1. ASSUME NEW p \in kept PROVE virtualNew[p] = change.after[p] BY <1>6, <1>9, <1>11
  <2> HIDE DEF virtualNew
  <2> QED BY <2>1 DEF DigestOf
<1>14. CASE ~Digested(old) /\ ~Digested(new)
  <2>1. ContentDigests(sides) = [baseline |-> DigestOf(tree), target |-> DigestOf(tree)]
    BY <1>14 DEF ContentDigests, old, new
  <2>2. \A p \in kept : tree[p] = change.before[p] /\ tree[p] = change.after[p] BY <1>6, <1>14
  <2>3. DigestOf(tree) = DigestOf(change.before) /\ DigestOf(tree) = DigestOf(change.after)
    BY <2>2 DEF DigestOf
  <2> QED BY <2>1, <2>3 DEF sides
<1>15. CASE ~(~Digested(old) /\ ~Digested(new))
  <2>1. ContentDigests(sides) = [baseline |-> DigestOf(virtualOld), target |-> DigestOf(virtualNew)]
    BY <1>7, <1>15 DEF ContentDigests, old, new
  <2> QED BY <1>12, <1>13, <2>1 DEF sides
<1> QED BY <1>14, <1>15

(* The verdicts there are on a determined change: all have its findings,   *)
(* and only the graph is that of either tree.                              *)
Sides == SidesOf(File, change)
Found == PythonFindings(Sides) \cup FileFindings(Sides)
VerdictIn(graph) ==
    [decision |-> DecisionOn(Found, PythonTests \cup FileTests(Sides), ImpactBoundary(graph)),
     digest |-> DigestOf(change.after), rebuilt |-> TRUE, found |-> Found]
Verdicts == {VerdictIn(DigestOf(where)) : where \in {change.before, change.after}}

LEMMA SidesAreThere == Sides # ReconstructionError
<1> DEFINE x == OldText(File, change)
           y == NewText(File, change)
<1>1. [before |-> x, after |-> y] # ReconstructionError
  <2> HIDE DEF x, y
  <2> QED BY DEF ReconstructionError
<1> QED BY <1>1 DEF Sides, SidesOf

(* What a finding says of its policy or invariant.                         *)
FileFinding(p, violated, public) ==
    [ByPolicy(p) EXCEPT !.violated = violated, !.public = public]
MissedFinding(p) == [ByPolicy(p) EXCEPT !.severity = "high", !.unknown = TRUE]

LEMMA FileFindingFields ==
    ASSUME NEW p, NEW violated, NEW public
    PROVE  /\ FileFinding(p, violated, public).severity = Registry[p].severity
           /\ FileFinding(p, violated, public).mode = Registry[p].mode
           /\ FileFinding(p, violated, public).violated = violated
           /\ ~FileFinding(p, violated, public).unknown
           /\ MissedFinding(p).mode = Registry[p].mode /\ MissedFinding(p).unknown
<1> DEFINE severity == Registry[p].severity
           mode == Registry[p].mode
           owner == Registry[p].owner
<1>1. ByPolicy(p) = [id |-> p, severity |-> severity, confidence |-> 100, mode |-> mode,
                     violated |-> FALSE, unknown |-> FALSE, public |-> FALSE,
                     approvers |-> {owner}]
  <2>1. ByPolicy(p) = [Raised(p, severity) EXCEPT !.mode = mode, !.approvers = {owner}]
    BY DEF ByPolicy
  <2> HIDE DEF severity, mode, owner
  <2> QED BY <2>1 DEF Raised
<1> HIDE DEF severity, mode, owner
<1>2. /\ FileFinding(p, violated, public).severity = severity
      /\ FileFinding(p, violated, public).mode = mode
      /\ FileFinding(p, violated, public).violated = violated
      /\ ~FileFinding(p, violated, public).unknown
  BY <1>1 DEF FileFinding
<1>3. MissedFinding(p).mode = mode /\ MissedFinding(p).unknown
  BY <1>1 DEF MissedFinding
<1> QED BY <1>2, <1>3 DEF severity, mode

(* The findings on a file that is rebuilt.                                 *)
ViolatedIn(v) == Violates(v.kind, v.source, v.baseline)
FindingOn(v) == FileFinding(v.policy, ViolatedIn(v), PublicChange(File))

LEMMA FileFindingsAre == FileFindings(Sides) = {FindingOn(v) : v \in Validations(Sides)}
BY SidesAreThere DEF FileFindings, FindingOn, FileFinding, ViolatedIn

PythonFinding(f) ==
    [Raised(f.id, [violated |-> "critical", incomplete |-> "high", passed |-> "medium"][f.status])
        EXCEPT !.mode = ModeOf(f.id),
               !.violated = f.status = "violated",
               !.unknown = f.status = "incomplete"]

LEMMA PythonFindingFields ==
    ASSUME NEW f
    PROVE  /\ PythonFinding(f).id = f.id /\ PythonFinding(f).mode = ModeOf(f.id)
           /\ PythonFinding(f).violated <=> f.status = "violated"
           /\ PythonFinding(f).unknown <=> f.status = "incomplete"
           /\ f.status = "violated" => PythonFinding(f).severity = "critical"
<1> DEFINE Severity == [violated |-> "critical", incomplete |-> "high", passed |-> "medium"]
           severity == Severity[f.status]
           id == f.id
           mode == ModeOf(f.id)
           violated == f.status = "violated"
           unknown == f.status = "incomplete"
<1>1. PythonFinding(f) = [Raised(id, severity) EXCEPT !.mode = mode, !.violated = violated,
                                                      !.unknown = unknown]
  BY DEF PythonFinding
<1>2. f.status = "violated" => severity = "critical" OBVIOUS
<1> HIDE DEF Severity, severity, id, mode, violated, unknown
<1>3. /\ PythonFinding(f).id = id /\ PythonFinding(f).mode = mode
      /\ PythonFinding(f).violated = violated /\ PythonFinding(f).unknown = unknown
      /\ PythonFinding(f).severity = severity
  BY <1>1 DEF Raised
<1> QED BY <1>2, <1>3 DEF id, mode, violated, unknown

LEMMA PythonFindingsAre ==
    ASSUME NEW sides, Python(File)
    PROVE  PythonFindings(sides)
             = {PythonFinding(f) : f \in InvariantFindings(change.governance, File, sides)}
BY DEF PythonFindings, PythonFinding

(* A stale context is not among the findings on the file.                  *)
LEMMA FoundIsNotStale ==
    ASSUME EvaluationHolds
    PROVE  StaleContext \notin Found
<1>1. StaleContext.id = "stale context" /\ StaleContext.unknown
  BY DEF StaleContext, Asked, Raised
<1>2. StaleContext \notin FileFindings(Sides)
  <2>1. \A v : ~FindingOn(v).unknown BY FileFindingFields DEF FindingOn
  <2> QED BY <1>1, <2>1, FileFindingsAre
<1>3. ASSUME StaleContext \in PythonFindings(Sides) PROVE FALSE
  <2>1. Python(File) BY <1>3 DEF PythonFindings
  <2>2. PICK f \in InvariantFindings(change.governance, File, Sides) : StaleContext = PythonFinding(f)
    BY <1>3, <2>1, PythonFindingsAre
  <2>3. f.id = "stale context" BY <1>1, <2>2, PythonFindingFields
  <2>4. f.id = "fault" \/ \E i \in change.governance.invariants : f.id = i.id
    <3> DEFINE governance == change.governance
    <3>1. CASE Uncovered(governance, File) BY <2>2, <3>1 DEF InvariantFindings
    <3>2. CASE ~Uncovered(governance, File)
      <4> DEFINE status(i) == IF Sides = ReconstructionError THEN "incomplete"
                              ELSE Status(Sides.after, i)
      <4>1. InvariantFindings(governance, File, Sides)
              = {[id |-> i.id, status |-> status(i)] : i \in Checked(governance, File)}
        BY <3>2 DEF InvariantFindings
      <4> HIDE DEF status
      <4>2. PICK i \in Checked(governance, File) : f = [id |-> i.id, status |-> status(i)]
        BY <2>2, <4>1
      <4> QED BY <4>2 DEF Checked
    <3> QED BY <3>1, <3>2
  <2> QED BY <2>3, <2>4, ChangesAssumption DEF ChangesAssumption, EvaluationHolds
<1> QED BY <1>2, <1>3 DEF Found

Conditions == Determined(change) /\ ParseUnified(change.diff) # Fault

(* Between any two reads of an evaluation the tree may turn, but neither   *)
(* read depends on it: every step leaves what the change alone determines. *)
VerdictDetermined ==
    Conditions =>
        /\ tree \in {change.before, change.after}
        /\ files = Fault => pc = "idle" /\ verdicts = {}
        /\ pc # "refuse"
        /\ pc = "validate" => target = DigestOf(change.after) /\ findings = {}
        /\ pc = "decide" => /\ target = DigestOf(change.after) /\ findings = Found
                            /\ read # Nothing /\ read.sides = Sides
        /\ verdicts \subseteq Verdicts

LEMMA ReadingIsDetermined ==
    ASSUME EvaluationHolds, Conditions, files = ParseUnified(change.diff),
           tree \in {change.before, change.after}
    PROVE  /\ Reconstruct(File, tree) = Sides
           /\ ContentDigests(Sides)
                = [baseline |-> DigestOf(change.before), target |-> DigestOf(change.after)]
<1>1. change.before \in Trees /\ change.after \in Trees
  BY ChangesAssumption DEF ChangesAssumption, Trees, EvaluationHolds
<1>2. File \in FileType(Paths \cup {NoPath})
  <2>1. 1 \in 1..Len(files) BY EmptySeq DEF EvaluationHolds, Conditions, Fault
  <2> QED BY <2>1, ElementOfSeq DEF File, EvaluationHolds
<1>3. File = ParseUnified(change.diff)[1] BY DEF File
<1>4. /\ OnlyItChanges(File, change)
      /\ EndsAlike(File, OldText(File, change), NewText(File, change))
      /\ NotMistaken(File, OldText(File, change).lines, NewText(File, change).lines)
  BY <1>3, Zenon DEF Conditions, Determined
<1>5. Reconstruct(File, tree) = Sides BY <1>1, <1>2, <1>4, ReconstructIsDetermined DEF Sides
<1>6. ContentDigests(Sides)
        = [baseline |-> DigestOf(change.before), target |-> DigestOf(change.after)]
  BY <1>1, <1>2, <1>4, DigestsAreDetermined DEF Sides
<1> QED BY <1>5, <1>6

LEMMA VerdictFields ==
    ASSUME NEW v \in Verdicts
    PROVE  /\ v.rebuilt = TRUE /\ v.digest = DigestOf(change.after) /\ v.found = Found
           /\ \A graph : v = VerdictIn(graph) =>
                 v.decision = DecisionOn(Found, PythonTests \cup FileTests(Sides), ImpactBoundary(graph))
<1>1. ASSUME NEW graph
      PROVE  /\ VerdictIn(graph).rebuilt = TRUE /\ VerdictIn(graph).digest = DigestOf(change.after)
             /\ VerdictIn(graph).found = Found
             /\ VerdictIn(graph).decision
                  = DecisionOn(Found, PythonTests \cup FileTests(Sides), ImpactBoundary(graph))
  <2> DEFINE decision == DecisionOn(Found, PythonTests \cup FileTests(Sides), ImpactBoundary(graph))
             digest == DigestOf(change.after)
             found == Found
  <2>1. VerdictIn(graph) = [decision |-> decision, digest |-> digest, rebuilt |-> TRUE, found |-> found]
    BY DEF VerdictIn
  <2> HIDE DEF decision, digest, found
  <2>2. /\ VerdictIn(graph).decision = decision /\ VerdictIn(graph).digest = digest
        /\ VerdictIn(graph).rebuilt = TRUE /\ VerdictIn(graph).found = found
    BY <2>1
  <2> QED BY <2>2 DEF decision, digest, found
<1> QED BY <1>1 DEF Verdicts

(* The verdicts are of the change and of its diff, and of nothing else.    *)
LEMMA VerdictStays ==
    ASSUME change' = change, files' = files
    PROVE  Sides' = Sides /\ Found' = Found /\ Verdicts' = Verdicts
<1>1. Sides' = Sides BY DEF Sides, File
<1>2. PythonFindings(Sides)' = PythonFindings(Sides) BY <1>1 DEF PythonFindings, File
<1>3. FileFindings(Sides)' = FileFindings(Sides) BY <1>1 DEF FileFindings, Validations, File
<1>4. Found' = Found BY <1>2, <1>3 DEF Found
<1>5. PythonTests' = PythonTests /\ FileTests(Sides)' = FileTests(Sides)
  BY <1>1 DEF PythonTests, FileTests, File
<1>6. ASSUME NEW where PROVE VerdictIn(DigestOf(where))' = VerdictIn(DigestOf(where))
  <2>1. ImpactBoundary(DigestOf(where))' = ImpactBoundary(DigestOf(where)) BY DEF ImpactBoundary
  <2> QED BY <1>4, <1>5, <2>1 DEF VerdictIn, DecisionOn
<1>7. Verdicts' = Verdicts
  <2> DEFINE V == VerdictIn(DigestOf(change.before))
             W == VerdictIn(DigestOf(change.after))
  <2>1. Verdicts = {V, W} BY DEF Verdicts
  <2>2. V' = V /\ W' = W BY <1>6
  <2>3. Verdicts' = {V', W'} BY DEF Verdicts
  <2> HIDE DEF V, W
  <2> QED BY <2>1, <2>2, <2>3
<1> QED BY <1>1, <1>4, <1>7

LEMMA DeterminedStep ==
    ASSUME EvaluationHolds, VerdictDetermined, [Next]_vars
    PROVE  VerdictDetermined'
<1>1. CASE UNCHANGED vars
  <2>1. Sides' = Sides /\ Found' = Found /\ Verdicts' = Verdicts BY <1>1, VerdictStays DEF vars
  <2>2. Conditions' <=> Conditions BY <1>1 DEF vars, Conditions
  <2> QED BY <1>1, <2>1, <2>2 DEF vars, VerdictDetermined
<1>2. CASE MoveTree
  <2>1. Sides' = Sides /\ Found' = Found /\ Verdicts' = Verdicts BY <1>2, VerdictStays DEF MoveTree
  <2>2. Conditions' <=> Conditions BY <1>2 DEF MoveTree, Conditions
  <2>3. Conditions => tree' \in {change.before, change.after}
    <3>1. Conditions => change.edited = {} BY Zenon DEF Conditions, Determined, OnlyItChanges
    <3> QED BY <1>2, <3>1 DEF MoveTree
  <2> QED BY <1>2, <2>1, <2>2, <2>3 DEF MoveTree, VerdictDetermined
<1>3. CASE Begin
  <2>1. Conditions' <=> Conditions BY <1>3 DEF Begin, Conditions
  <2>2. files # Fault => files' = files BY <1>3 DEF Begin, EvaluationHolds
  <2>3. files # Fault => Verdicts' = Verdicts BY <1>3, <2>2, VerdictStays DEF Begin
  <2>4. files' = ParseUnified(change.diff) /\ change' = change BY <1>3 DEF Begin
  <2>5. Conditions => files' # Fault /\ pc' = "digest" BY <1>3, <2>4 DEF Begin, Conditions
  <2>6. Conditions => verdicts' \subseteq Verdicts'
    <3>1. verdicts' = verdicts BY <1>3 DEF Begin
    <3> QED BY <2>3, <3>1 DEF VerdictDetermined
  <2>7. Conditions => tree' \in {change.before, change.after}
    BY <1>3 DEF Begin, VerdictDetermined
  <2> QED BY <2>1, <2>4, <2>5, <2>6, <2>7 DEF VerdictDetermined
<1>4. CASE Refuse
  <2>1. ~Conditions BY <1>4 DEF Refuse, VerdictDetermined
  <2>2. Conditions' <=> Conditions BY <1>4 DEF Refuse, Return, Conditions
  <2> QED BY <1>4, <2>1, <2>2 DEF Refuse, Return, VerdictDetermined
<1>5. CASE Digest
  <2>1. Sides' = Sides /\ Found' = Found /\ Verdicts' = Verdicts BY <1>5, VerdictStays DEF Digest
  <2>2. Conditions' <=> Conditions BY <1>5 DEF Digest, Conditions
  <2>3. Conditions => target' = DigestOf(change.after) /\ findings' = {}
    <3> SUFFICES ASSUME Conditions PROVE target' = DigestOf(change.after) /\ findings' = {}
      OBVIOUS
    <3>1. files # Fault /\ files = ParseUnified(change.diff) /\ tree \in {change.before, change.after}
      BY <1>5 DEF Digest, VerdictDetermined, EvaluationHolds
    <3> DEFINE digests == ContentDigests(Reconstruct(File, tree))
               begun == DigestOf(change.before)
               final == DigestOf(change.after)
    <3>2. digests = [baseline |-> begun, target |-> final] BY <3>1, ReadingIsDetermined
    <3>3. target' = digests.target
          /\ findings' = IF digests.baseline \in {Nothing, begun} THEN {} ELSE {StaleContext}
      BY <1>5 DEF Digest
    <3> HIDE DEF digests, begun, final
    <3>4. digests.baseline = begun /\ digests.target = final BY <3>2
    <3>5. target' = final /\ findings' = {} BY <3>3, <3>4
    <3> QED BY <3>5 DEF final
  <2>4. Conditions => verdicts' \subseteq Verdicts /\ tree' \in {change.before, change.after}
                      /\ files' # Fault
    BY <1>5 DEF Digest, VerdictDetermined
  <2>5. pc' = "validate" /\ change' = change
    BY <1>5 DEF Digest, VerdictDetermined
  <2> QED BY <2>1, <2>2, <2>3, <2>4, <2>5 DEF VerdictDetermined
<1>6. CASE Validate
  <2>1. Sides' = Sides /\ Found' = Found /\ Verdicts' = Verdicts BY <1>6, VerdictStays DEF Validate
  <2>2. Conditions' <=> Conditions BY <1>6 DEF Validate, Conditions
  <2>3. Conditions => findings' = Found /\ read' # Nothing /\ read'.sides = Sides
    <3> SUFFICES ASSUME Conditions PROVE findings' = Found /\ read' # Nothing /\ read'.sides = Sides
      OBVIOUS
    <3>1. /\ files # Fault /\ files = ParseUnified(change.diff) /\ tree \in {change.before, change.after}
          /\ findings = {}
      BY <1>6 DEF Validate, VerdictDetermined, EvaluationHolds
    <3>2. Reconstruct(File, tree) = Sides BY <3>1, ReadingIsDetermined
    <3>3. /\ read' = [tree |-> tree, sides |-> Sides]
          /\ findings' = findings \cup PythonFindings(Sides) \cup FileFindings(Sides)
      BY <1>6, <3>2 DEF Validate
    <3>4. read' # Nothing /\ read'.sides = Sides BY <3>3 DEF Nothing
    <3> QED BY <3>1, <3>3, <3>4 DEF Found
  <2>4. Conditions => /\ verdicts' \subseteq Verdicts /\ tree' \in {change.before, change.after}
                      /\ files' # Fault /\ target' = DigestOf(change.after)
    BY <1>6 DEF Validate, VerdictDetermined
  <2>5. pc' = "decide" /\ change' = change
    BY <1>6 DEF Validate, VerdictDetermined
  <2> QED BY <2>1, <2>2, <2>3, <2>4, <2>5 DEF VerdictDetermined
<1>7. CASE Conclude
  <2>1. Verdicts' = Verdicts BY <1>7, VerdictStays DEF Conclude, Return
  <2>2. Conditions' <=> Conditions BY <1>7 DEF Conclude, Return, Conditions
  <2>3. Conditions => verdicts' \subseteq Verdicts
    <3> SUFFICES ASSUME Conditions PROVE verdicts' \subseteq Verdicts OBVIOUS
    <3>1. /\ target = DigestOf(change.after) /\ findings = Found /\ read.sides = Sides
          /\ verdicts \subseteq Verdicts /\ tree \in {change.before, change.after}
      BY <1>7 DEF Conclude, VerdictDetermined
    <3>2. verdicts' = verdicts \cup
            {[decision |-> DecisionOn(findings, PythonTests \cup FileTests(read.sides),
                                      ImpactBoundary(DigestOf(tree))),
              digest |-> target, rebuilt |-> read.sides # ReconstructionError,
              found |-> findings]}
      BY <1>7 DEF Conclude, Return
    <3>3. (read.sides # ReconstructionError) = TRUE BY <3>1, SidesAreThere
    <3>4. verdicts' = verdicts \cup {VerdictIn(DigestOf(tree))} BY <3>1, <3>2, <3>3 DEF VerdictIn
    <3>5. VerdictIn(DigestOf(tree)) \in Verdicts BY <3>1 DEF Verdicts
    <3> QED BY <3>1, <3>4, <3>5
  <2>4. Conditions => tree' \in {change.before, change.after} /\ files' # Fault
    BY <1>7 DEF Conclude, Return, VerdictDetermined
  <2>5. pc' = "idle" /\ change' = change
    BY <1>7 DEF Conclude, Return, VerdictDetermined
  <2> QED BY <2>1, <2>2, <2>3, <2>4, <2>5 DEF VerdictDetermined
<1> QED BY <1>1, <1>2, <1>3, <1>4, <1>5, <1>6, <1>7 DEF Next

LEMMA DeterminedAlways == Spec => []VerdictDetermined
<1>1. Init => VerdictDetermined BY DEF Init, VerdictDetermined
<1>2. EvaluationHolds /\ VerdictDetermined /\ [Next]_vars => VerdictDetermined'
  BY DeterminedStep
<1> QED BY <1>1, <1>2, EvaluationTyped, PTL DEF Spec

(* Every evaluation of a determined change has the same findings on the    *)
(* file, none of which is that it is stale, and binds the approval to the  *)
(* content after the change, however often the diff is applied and         *)
(* reverted meanwhile.  The decision may still turn with the graph.        *)
THEOREM VerdictOfTheChange == Spec => [](Determined(change) => SideDoesNotMatter)
<1>1. EvaluationHolds /\ VerdictDetermined => (Determined(change) => SideDoesNotMatter)
  <2> SUFFICES ASSUME EvaluationHolds, VerdictDetermined, Determined(change), files # Fault
               PROVE  \A v \in verdicts :
                         /\ v.rebuilt /\ StaleContext \notin v.found
                         /\ v.digest = DigestOf(change.after)
                         /\ \A w \in verdicts : w.found = v.found
    BY DEF SideDoesNotMatter
  <2>1. verdicts \subseteq Verdicts BY DEF EvaluationHolds, VerdictDetermined, Conditions
  <2>2. ASSUME NEW v \in verdicts
        PROVE  v.rebuilt /\ v.digest = DigestOf(change.after) /\ v.found = Found
    BY <2>1, VerdictFields
  <2> QED BY <2>2, FoundIsNotStale
<1> QED BY <1>1, EvaluationTyped, DeterminedAlways, PTL

-----------------------------------------------------------------------------
(* What decide is given, and what the impact analysis can add to it.       *)
InputOf(raised, tests, impact) ==
    [findings |-> raised \cup impact.findings,
     owners |-> (UNION {f.approvers : f \in Active(raised)}) \cup impact.owners,
     tests |-> tests \cup impact.tests # {},
     passed |-> change.passed, known |-> TRUE, satisfied |-> FALSE]

LEMMA InputFields ==
    ASSUME NEW raised, NEW tests, NEW impact
    PROVE  /\ DecisionOn(raised, tests, impact) = Decide(InputOf(raised, tests, impact))
           /\ InputOf(raised, tests, impact).findings = raised \cup impact.findings
           /\ ~InputOf(raised, tests, impact).satisfied
           /\ InputOf(raised, tests, impact).passed = change.passed
<1> DEFINE owners == (UNION {f.approvers : f \in Active(raised)}) \cup impact.owners
           needed == tests \cup impact.tests # {}
           all == raised \cup impact.findings
           in == InputOf(raised, tests, impact)
<1>1. DecisionOn(raised, tests, impact) = Decide(in) BY DEF DecisionOn, InputOf
<1>2. in.findings = all /\ ~in.satisfied /\ in.passed = change.passed
  <2>1. in = [findings |-> all, owners |-> owners, tests |-> needed,
              passed |-> change.passed, known |-> TRUE, satisfied |-> FALSE]
    BY DEF InputOf
  <2> HIDE DEF owners, needed, all, in
  <2> QED BY <2>1
<1> QED BY <1>1, <1>2

LEMMA ImpactIsNoViolation ==
    ASSUME NEW graph
    PROVE  \A f \in ImpactBoundary(graph).findings : ~f.violated
<1>1. \A approvers : ~Asked("impact", approvers).violated BY DEF Asked, Raised
<1> DEFINE F == ImpactBoundary(graph).findings
<1>2. F = {} \/ \E approvers : F = {Asked("impact", approvers)}
  <2> DEFINE report == Analysed(change.diff, graph)
             none == [findings |-> {}, tests |-> {}, owners |-> {}]
  <2>1. CASE report = NoArtifact BY <2>1 DEF ImpactBoundary
  <2>2. CASE report # NoArtifact /\ ~report.resolved
    <3> DEFINE asked == {Asked("impact", {})}
    <3>1. ImpactBoundary(graph) = [findings |-> asked, tests |-> {}, owners |-> {}]
      BY <2>2 DEF ImpactBoundary
    <3> HIDE DEF asked
    <3>2. F = asked BY <3>1
    <3> QED BY <3>2 DEF asked
  <2>3. CASE report # NoArtifact /\ report.resolved /\ ~report.boundary
    <3> DEFINE tests == report.tests
    <3>1. ImpactBoundary(graph) = [findings |-> {}, tests |-> tests, owners |-> {}]
      BY <2>3 DEF ImpactBoundary
    <3> HIDE DEF tests
    <3> QED BY <3>1
  <2>4. CASE report # NoArtifact /\ report.resolved /\ report.boundary
    <3> DEFINE asked == {Asked("impact", report.approvers)}
               tests == report.tests
               owners == report.approvers
    <3>1. ImpactBoundary(graph) = [findings |-> asked, tests |-> tests, owners |-> owners]
      BY <2>4 DEF ImpactBoundary
    <3> HIDE DEF asked, tests, owners
    <3>2. F = asked BY <3>1
    <3> QED BY <3>2 DEF asked
  <2> QED BY <2>1, <2>2, <2>3, <2>4
<1> HIDE DEF F
<1>3. \A f \in F : ~f.violated BY <1>1, <1>2
<1> QED BY <1>3 DEF F

(* What is unknown to a policy that acts is not passed, whatever the       *)
(* impact analysis adds ...                                                *)
LEMMA UnknownAsks ==
    ASSUME NEW raised, NEW tests, NEW impact, NEW f \in raised, f.unknown, Acts(f.mode)
    PROVE  DecisionOn(raised, tests, impact) \in {"BLOCK", "REQUIRE_APPROVAL"}
<1> DEFINE in == InputOf(raised, tests, impact)
<1>1. /\ DecisionOn(raised, tests, impact) = Decide(in)
      /\ in.findings = raised \cup impact.findings
      /\ ~in.satisfied /\ in.passed = change.passed
  BY InputFields
<1> HIDE DEF in
<1>2. f \in Unknown(in.findings) BY <1>1 DEF Unknown, Active, Acts
<1>3. UnknownBoundary(in) BY <1>2 DEF UnknownBoundary
<1> QED BY <1>1, <1>3 DEF Decide

(* ... a critical violation in mode blocking blocks, and nothing else ...  *)
Grave(f) == f.violated /\ f.severity = "critical" /\ f.mode = "blocking"

LEMMA CriticalBlocks ==
    ASSUME NEW raised, NEW tests, NEW graph
    PROVE  DecisionOn(raised, tests, ImpactBoundary(graph)) = "BLOCK" <=> \E f \in raised : Grave(f)
<1> DEFINE impact == ImpactBoundary(graph)
<1>1. \A f \in impact.findings : ~f.violated BY ImpactIsNoViolation
<1> HIDE DEF impact
<1> DEFINE in == InputOf(raised, tests, impact)
<1>2. /\ DecisionOn(raised, tests, impact) = Decide(in)
      /\ in.findings = raised \cup impact.findings
  BY InputFields
<1> HIDE DEF in
<1>3. Critical(in.findings) # {} <=> \E f \in raised : Grave(f)
  BY <1>1, <1>2 DEF Critical, Active, Grave
<1>4. Decide(in) = "BLOCK" <=> Critical(in.findings) # {} BY DEF Decide
<1> QED BY <1>2, <1>3, <1>4 DEF impact

(* ... and a violation in mode warning is not allowed, and once the tests  *)
(* have passed a person is asked.                                          *)
LEMMA WarningAsks ==
    ASSUME NEW raised, NEW tests, NEW impact, NEW f \in raised, f.violated, f.mode = "warning"
    PROVE  /\ DecisionOn(raised, tests, impact) # "ALLOW"
           /\ change.passed =>
                 DecisionOn(raised, tests, impact) \in {"BLOCK", "REQUIRE_APPROVAL"}
<1> DEFINE in == InputOf(raised, tests, impact)
<1>1. /\ DecisionOn(raised, tests, impact) = Decide(in)
      /\ in.findings = raised \cup impact.findings
      /\ ~in.satisfied /\ in.passed = change.passed
  BY InputFields
<1> HIDE DEF in
<1>2. f \in Warned(in.findings) BY <1>1 DEF Warned, Active
<1>3. SharedConcern(in) BY <1>2 DEF SharedConcern
<1> QED BY <1>1, <1>3 DEF Decide

-----------------------------------------------------------------------------
(* The findings an evaluation decides on are all there are on the file, so *)
(* what was not read is among them.                                        *)
ReadingHolds ==
    /\ pc # "idle" \/ verdicts # {} => files = ParseUnified(change.diff)
    /\ pc = "refuse" => files = Fault
    /\ pc = "decide" => PythonFindings(read.sides) \cup FileFindings(read.sides) \subseteq findings
    /\ UnreadIsAsked

LEMMA UnreadIsFound ==
    ASSUME EvaluationHolds, ReadingHolds, pc = "decide", NEW v,
           v.found = findings, v.rebuilt = (read.sides # ReconstructionError), Unread(v)
    PROVE  \E f \in findings : f.unknown /\ Acts(f.mode)
<1> DEFINE governance == change.governance
<1>1. PythonFindings(read.sides) \cup FileFindings(read.sides) \subseteq findings
  BY DEF ReadingHolds
<1>2. ASSUME Python(File), NEW f \in InvariantFindings(governance, File, read.sides),
             f.status = "incomplete", Acts(ModeOf(f.id))
      PROVE  \E g \in findings : g.unknown /\ Acts(g.mode)
  <2>1. PythonFinding(f) \in PythonFindings(read.sides) BY <1>2, PythonFindingsAre
  <2>2. PythonFinding(f).unknown /\ Acts(PythonFinding(f).mode) BY <1>2, PythonFindingFields
  <2> QED BY <1>1, <2>1, <2>2
<1>3. CASE \E f \in v.found : f.unknown /\ Acts(f.mode) BY <1>3
<1>4. CASE Python(File) /\ Uncovered(governance, File)
  <2> DEFINE f == [id |-> "fault", status |-> "incomplete"]
  <2>1. f \in InvariantFindings(governance, File, read.sides) BY <1>4 DEF InvariantFindings
  <2>2. f.id = "fault" /\ f.status = "incomplete" OBVIOUS
  <2>3. Acts(ModeOf("fault")) BY EvaluationAssumption DEF EvaluationAssumption, ModeOf, Acts
  <2> HIDE DEF f
  <2> QED BY <1>2, <1>4, <2>1, <2>2, <2>3
<1>5. ASSUME read.sides = ReconstructionError, NEW p \in Policies(File), Acts(Registry[p].mode)
      PROVE  \E f \in findings : f.unknown /\ Acts(f.mode)
  <2>1. MissedFinding(p) \in FileFindings(read.sides) BY <1>5 DEF FileFindings, MissedFinding
  <2>2. MissedFinding(p).unknown /\ MissedFinding(p).mode = Registry[p].mode BY FileFindingFields
  <2> QED BY <1>1, <1>5, <2>1, <2>2
<1>6. ASSUME read.sides = ReconstructionError, Python(File), ~Uncovered(governance, File),
             NEW i \in Checked(governance, File), Acts(ModeOf(i.id))
      PROVE  \E f \in findings : f.unknown /\ Acts(f.mode)
  <2> DEFINE f == [id |-> i.id, status |-> "incomplete"]
  <2>1. InvariantFindings(governance, File, read.sides)
          = {[id |-> k.id, status |-> "incomplete"] : k \in Checked(governance, File)}
    BY <1>6 DEF InvariantFindings
  <2>2. f \in InvariantFindings(governance, File, read.sides) BY <2>1
  <2>3. f.id = i.id /\ f.status = "incomplete" OBVIOUS
  <2> HIDE DEF f
  <2> QED BY <1>2, <1>6, <2>2, <2>3
<1> QED BY <1>3, <1>4, <1>5, <1>6 DEF Unread

LEMMA UnreadStays ==
    ASSUME change' = change, files' = files, NEW v
    PROVE  Unread(v)' <=> Unread(v)
<1>1. File' = File BY DEF File
<1>2. Python(File)' <=> Python(File) BY <1>1 DEF Python
<1>3. Policies(File)' = Policies(File) BY <1>1 DEF Policies
<1>4. Uncovered(change.governance, File)' <=> Uncovered(change.governance, File)
  BY <1>1 DEF Uncovered
<1>5. Checked(change.governance, File)' = Checked(change.governance, File)
  BY <1>1 DEF Checked
<1> QED BY <1>2, <1>3, <1>4, <1>5 DEF Unread

LEMMA ReadingStep ==
    ASSUME EvaluationHolds, ReadingHolds, [Next]_vars
    PROVE  ReadingHolds'
<1>0. ASSUME UNCHANGED <<change, verdicts>>, files' = files
      PROVE  UnreadIsAsked'
  <2>1. ASSUME NEW v PROVE Unread(v)' <=> Unread(v) BY <1>0, UnreadStays
  <2> QED BY <1>0, <2>1 DEF ReadingHolds, UnreadIsAsked
<1>1. ASSUME UNCHANGED <<change, pc, files, read, findings, verdicts>>
      PROVE  ReadingHolds'
  <2>1. UnreadIsAsked' BY <1>0, <1>1
  <2>2. ASSUME pc = "decide"
        PROVE  (PythonFindings(read.sides) \cup FileFindings(read.sides) \subseteq findings)'
    <3>1. PythonFindings(read.sides)' = PythonFindings(read.sides)
      BY <1>1 DEF PythonFindings, File
    <3>2. FileFindings(read.sides)' = FileFindings(read.sides)
      BY <1>1 DEF FileFindings, Validations, File
    <3> QED BY <1>1, <2>2, <3>1, <3>2 DEF ReadingHolds
  <2> QED BY <1>1, <2>1, <2>2 DEF ReadingHolds
<1>2. CASE UNCHANGED vars \/ MoveTree BY <1>1, <1>2 DEF vars, MoveTree
<1>3. ASSUME UNCHANGED <<change, verdicts>>, files' = ParseUnified(change.diff)
      PROVE  UnreadIsAsked'
  <2>1. CASE verdicts = {} BY <1>3, <2>1 DEF UnreadIsAsked
  <2>2. CASE verdicts # {}
    <3>1. files' = files BY <1>3, <2>2 DEF ReadingHolds
    <3> QED BY <1>0, <1>3, <3>1
  <2> QED BY <2>1, <2>2
<1>4. CASE Begin BY <1>3, <1>4 DEF Begin, ReadingHolds
<1>5. CASE Refuse
  <2> DEFINE found == {Asked("diff", {})}
             verdict == [decision |-> "REQUIRE_APPROVAL", digest |-> current, rebuilt |-> FALSE,
                         found |-> found]
  <2>1. verdicts' = verdicts \cup {verdict} /\ pc' = "idle" /\ UNCHANGED <<change, files>>
    BY <1>5 DEF Refuse, Return
  <2>2. verdict.decision = "REQUIRE_APPROVAL"
    <3> HIDE DEF found
    <3> QED OBVIOUS
  <2>3. files = Fault /\ files = ParseUnified(change.diff) BY <1>5 DEF Refuse, ReadingHolds
  <2> HIDE DEF verdict
  <2> QED BY <2>1, <2>2, <2>3 DEF ReadingHolds, UnreadIsAsked
<1>6. CASE Digest
  <2>1. files' = ParseUnified(change'.diff) /\ pc' = "validate" BY <1>6 DEF Digest, ReadingHolds
  <2>2. UnreadIsAsked' BY <1>0, <1>6 DEF Digest
  <2> QED BY <2>1, <2>2 DEF ReadingHolds
<1>7. CASE Validate
  <2>1. /\ files' = ParseUnified(change'.diff) /\ pc' = "decide"
        /\ UNCHANGED <<change, files, verdicts>>
    BY <1>7 DEF Validate, ReadingHolds
  <2> DEFINE sides == Reconstruct(File, tree)
  <2>2. /\ read' = [tree |-> tree, sides |-> sides]
        /\ findings' = findings \cup PythonFindings(sides) \cup FileFindings(sides)
    BY <1>7 DEF Validate
  <2> HIDE DEF sides
  <2>3. read'.sides = sides BY <2>2
  <2>4. PythonFindings(read.sides)' = PythonFindings(sides)
    BY <2>1, <2>3 DEF PythonFindings, File
  <2>5. FileFindings(read.sides)' = FileFindings(sides)
    <3>1. File' = File BY <2>1 DEF File
    <3>2. Policies(File)' = Policies(File) BY <3>1 DEF Policies
    <3>3. PublicChange(File)' = PublicChange(File) BY <3>1
    <3>4. Validations(read.sides)' = Validations(sides) BY <2>3, <3>1 DEF Validations
    <3> QED BY <2>3, <3>2, <3>3, <3>4 DEF FileFindings
  <2>6. UnreadIsAsked' BY <1>0, <2>1
  <2> QED BY <2>1, <2>2, <2>4, <2>5, <2>6 DEF ReadingHolds
<1>8. CASE Conclude
  <2> DEFINE tests == PythonTests \cup FileTests(read.sides)
             impact == ImpactBoundary(DigestOf(tree))
             decision == DecisionOn(findings, tests, impact)
             rebuilt == read.sides # ReconstructionError
             verdict == [decision |-> decision, digest |-> target, rebuilt |-> rebuilt,
                         found |-> findings]
  <2>1. /\ verdicts' = verdicts \cup {verdict} /\ pc' = "idle" /\ UNCHANGED <<change, files>>
        /\ files # Fault /\ files = ParseUnified(change.diff) /\ pc = "decide"
    BY <1>8 DEF Conclude, Return, EvaluationHolds, ReadingHolds
  <2>2. verdict.decision = decision /\ verdict.rebuilt = rebuilt /\ verdict.found = findings
    <3> HIDE DEF decision, rebuilt
    <3> QED OBVIOUS
  <2> HIDE DEF verdict
  <2>3. Unread(verdict) => decision \in {"BLOCK", "REQUIRE_APPROVAL"}
    <3> SUFFICES ASSUME Unread(verdict) PROVE decision \in {"BLOCK", "REQUIRE_APPROVAL"} OBVIOUS
    <3>1. PICK f \in findings : f.unknown /\ Acts(f.mode) BY <2>1, <2>2, UnreadIsFound
    <3> HIDE DEF tests, impact
    <3> QED BY <3>1, UnknownAsks
  <2> HIDE DEF decision
  <2>4. UnreadIsAsked'
    <3>1. ASSUME NEW v PROVE Unread(v)' <=> Unread(v) BY <2>1, UnreadStays
    <3>2. \A v \in verdicts' : v \in verdicts \/ v = verdict BY <2>1
    <3> QED BY <2>1, <2>2, <2>3, <3>1, <3>2 DEF ReadingHolds, UnreadIsAsked
  <2> QED BY <2>1, <2>4 DEF ReadingHolds
<1> QED BY <1>2, <1>4, <1>5, <1>6, <1>7, <1>8 DEF Next

LEMMA ReadingAlways == Spec => []ReadingHolds
<1>1. Init => ReadingHolds BY DEF Init, ReadingHolds, UnreadIsAsked
<1>2. EvaluationHolds /\ ReadingHolds /\ [Next]_vars => ReadingHolds' BY ReadingStep
<1> QED BY <1>1, <1>2, EvaluationTyped, PTL DEF Spec

(* Whatever the diff, the trees and the edits, the registry and the        *)
(* governance: what could not be parsed, and what a policy in mode warning *)
(* or blocking or an invariant is about and could not be read, never       *)
(* passes.                                                                 *)
THEOREM UnreadNeverPasses == Spec => []UnreadIsAsked
<1>1. ReadingHolds => UnreadIsAsked BY DEF ReadingHolds
<1> QED BY <1>1, ReadingAlways, PTL

-----------------------------------------------------------------------------
(* The validations are those of the policies on the two paths: none is     *)
(* left out when the file moves, changes its kind or goes.                 *)
LEMMA ValidationsFind ==
    ASSUME EvaluationHolds, files # Fault, ReadAsMeant(change), NEW p
    PROVE  (\E v \in Validations(Sides) : v.policy = p /\ ViolatedIn(v)) <=> p \in Losing(File, change)
<1> DEFINE old == PoliciesAt(File.old)
           new == PoliciesAt(File.new)
           both == {q \in old \cap new : Kind[File.old] = Kind[File.new]}
           before == At(change.before, File.old)
           after == At(change.after, File.new)
           Of(q, path, source, baseline) ==
               [policy |-> q, kind |-> Kind[path], source |-> source, baseline |-> baseline]
<1>0. File = ParseUnified(change.diff)[1] BY DEF File, EvaluationHolds
<1>1. File \in FileType(Paths \cup {NoPath})
  <2>1. 1 \in 1..Len(files) BY EmptySeq DEF EvaluationHolds, Fault
  <2> QED BY <2>1, ElementOfSeq DEF File, EvaluationHolds
<1>2. old # {} => Sides.before = before
  <2>1. old # {} => File.operation # "add" BY <1>1 DEF PoliciesAt, FileType
  <2> QED BY <2>1 DEF Sides, SidesOf, OldText
<1>3. new # {} => Sides.after = after
  <2>1. new # {} => File.operation # "delete" BY <1>1 DEF PoliciesAt, FileType
  <2> QED BY <2>1 DEF Sides, SidesOf, NewText
<1>4. Validations(Sides)
        = {Of(q, File.new, Sides.after, Sides.before) : q \in both}
          \cup {Of(q, File.old, NoText, Sides.before) : q \in old \ both}
          \cup {Of(q, File.new, Sides.after, Nothing) : q \in new \ both}
  BY DEF Validations
<1>5. \A q, path, source, baseline :
         /\ ViolatedIn(Of(q, path, source, baseline)) <=> Violates(Kind[path], source, baseline)
         /\ Of(q, path, source, baseline).policy = q
  <2> SUFFICES ASSUME NEW q, NEW path, NEW source, NEW baseline
               PROVE  /\ ViolatedIn(Of(q, path, source, baseline))
                           <=> Violates(Kind[path], source, baseline)
                      /\ Of(q, path, source, baseline).policy = q
    OBVIOUS
  <2> DEFINE kind == Kind[path]
  <2>1. Of(q, path, source, baseline)
          = [policy |-> q, kind |-> kind, source |-> source, baseline |-> baseline]
    OBVIOUS
  <2> HIDE DEF kind, Of
  <2>2. /\ Of(q, path, source, baseline).kind = kind
        /\ Of(q, path, source, baseline).source = source
        /\ Of(q, path, source, baseline).baseline = baseline
        /\ Of(q, path, source, baseline).policy = q
    BY <2>1
  <2> QED BY <2>2 DEF ViolatedIn, kind
<1>6. p \in old \cup new => (p \in both <=> Compared(File, p)) BY DEF Compared
<1> HIDE DEF Of
<1>7. (\E v \in Validations(Sides) : v.policy = p /\ ViolatedIn(v))
        <=> \/ p \in both /\ Violates(Kind[File.new], after, before)
            \/ p \in old \ both /\ Violates(Kind[File.old], NoText, before)
            \/ p \in new \ both /\ Violates(Kind[File.new], after, Nothing)
  <2> HIDE DEF before, after, old, new
  <2>1. both # {} => old # {} /\ new # {} OBVIOUS
  <2> HIDE DEF both
  <2> DEFINE A == {Of(q, File.new, Sides.after, Sides.before) : q \in both}
             B == {Of(q, File.old, NoText, Sides.before) : q \in old \ both}
             C == {Of(q, File.new, Sides.after, Nothing) : q \in new \ both}
             Hits(v) == v.policy = p /\ ViolatedIn(v)
  <2>2. (\E v \in A : Hits(v)) <=> p \in both /\ Violates(Kind[File.new], after, before)
    BY <1>2, <1>3, <1>5, <2>1
  <2>3. (\E v \in B : Hits(v)) <=> p \in old \ both /\ Violates(Kind[File.old], NoText, before)
    <3>1. ASSUME NEW q
          PROVE  Hits(Of(q, File.old, NoText, Sides.before))
                   <=> q = p /\ Violates(Kind[File.old], NoText, Sides.before)
      BY <1>5
    <3> HIDE DEF Hits
    <3>2. (\E v \in B : Hits(v))
            <=> p \in old \ both /\ Violates(Kind[File.old], NoText, Sides.before)
      BY <3>1
    <3> QED BY <1>2, <3>2
  <2>4. (\E v \in C : Hits(v)) <=> p \in new \ both /\ Violates(Kind[File.new], after, Nothing)
    <3>1. ASSUME NEW q
          PROVE  Hits(Of(q, File.new, Sides.after, Nothing))
                   <=> q = p /\ Violates(Kind[File.new], Sides.after, Nothing)
      BY <1>5
    <3> HIDE DEF Hits
    <3>2. (\E v \in C : Hits(v))
            <=> p \in new \ both /\ Violates(Kind[File.new], Sides.after, Nothing)
      BY <3>1
    <3> QED BY <1>3, <3>2
  <2>5. Validations(Sides) = A \cup B \cup C BY <1>4 DEF A, B, C
  <2> HIDE DEF A, B, C
  <2> QED BY <2>2, <2>3, <2>4, <2>5
<1>8. p \in both => (Violates(Kind[File.new], after, before)
                       <=> Loses(File, change, p) \/ Offends(File, change, p))
  BY <1>0, <1>6, Zenon DEF ReadAsMeant
<1>9. p \in old \ both => (Violates(Kind[File.old], NoText, before) <=> Loses(File, change, p))
  BY <1>0, <1>6, Zenon DEF ReadAsMeant
<1>10. p \in new \ both => (Violates(Kind[File.new], after, Nothing) <=> Offends(File, change, p))
  BY <1>0, <1>6, Zenon DEF ReadAsMeant
<1>11. both \subseteq old /\ both \subseteq new OBVIOUS
<1>12. p \in Losing(File, change)
         <=> (p \in old /\ Loses(File, change, p)) \/ (p \in new /\ Offends(File, change, p))
  BY DEF Losing
<1> HIDE DEF both, before, old, new, after
<1> QED BY <1>7, <1>8, <1>9, <1>10, <1>11, <1>12

(* So a finding is violated if its policy's artifact lost something, and   *)
(* is of the severity and in the mode of that policy.                      *)
LEMMA FileFindsLoss ==
    ASSUME EvaluationHolds, files # Fault, ReadAsMeant(change)
    PROVE  /\ \A f \in FileFindings(Sides) : f.violated =>
                 \E p \in Losing(File, change) :
                    f.severity = Registry[p].severity /\ f.mode = Registry[p].mode
           /\ \A p \in Losing(File, change) : \E f \in FileFindings(Sides) :
                 f.violated /\ f.severity = Registry[p].severity /\ f.mode = Registry[p].mode
<1>1. FileFindings(Sides) = {FindingOn(v) : v \in Validations(Sides)} BY FileFindingsAre
<1>2. ASSUME NEW v
      PROVE  /\ FindingOn(v).violated <=> ViolatedIn(v)
             /\ FindingOn(v).severity = Registry[v.policy].severity
             /\ FindingOn(v).mode = Registry[v.policy].mode
  <2> DEFINE violated == ViolatedIn(v)
         public == PublicChange(File)
  <2>0. FindingOn(v) = FileFinding(v.policy, violated, public) BY DEF FindingOn
  <2> HIDE DEF violated, public
  <2>1. /\ FindingOn(v).violated = violated
        /\ FindingOn(v).severity = Registry[v.policy].severity
        /\ FindingOn(v).mode = Registry[v.policy].mode
    BY <2>0, FileFindingFields
  <2>2. FindingOn(v).violated <=> violated BY <2>1
  <2> QED BY <2>1, <2>2 DEF violated
<1>3. ASSUME NEW v \in Validations(Sides), ViolatedIn(v) PROVE v.policy \in Losing(File, change)
  BY <1>3, ValidationsFind
<1>4. ASSUME NEW p \in Losing(File, change)
      PROVE  \E v \in Validations(Sides) : v.policy = p /\ ViolatedIn(v)
  BY ValidationsFind
<1> QED BY <1>1, <1>2, <1>3, <1>4

(* A method that lost its guard is found, or found not to have been        *)
(* checked, in the mode of its invariant.                                  *)
LEMMA PythonFindsLoss ==
    ASSUME EvaluationHolds, files # Fault, ReadAsMeant(change)
    PROVE  /\ \A f \in PythonFindings(Sides) : f.violated =>
                 \E i \in Unguarded(File, change) : f.mode = ModeOf(i.id)
           /\ \A i \in Unguarded(File, change) : \E f \in PythonFindings(Sides) :
                 \/ f.violated /\ f.severity = "critical" /\ f.mode = ModeOf(i.id)
                 \/ f.unknown /\ f.mode \in {ModeOf(i.id), "blocking"}
<1> DEFINE Said == Statuses(File, change)
<1>1. /\ \A f \in Said : f.status = "violated" => \E i \in Unguarded(File, change) : i.id = f.id
      /\ \A i \in Unguarded(File, change) :
            \E f \in Said : \/ f.status = "violated" /\ f.id = i.id
                            \/ f.status = "incomplete" /\ f.id \in {i.id, "fault"}
  <2>1. File = ParseUnified(change.diff)[1] BY DEF File, EvaluationHolds
  <2> QED BY <2>1, Zenon DEF ReadAsMeant
<1>2. PythonFindings(Sides) = {PythonFinding(f) : f \in Said}
  <2>1. CASE Python(File) BY <2>1, PythonFindingsAre DEF Statuses, Sides
  <2>2. CASE ~Python(File) BY <2>2 DEF Statuses, PythonFindings
  <2> QED BY <2>1, <2>2
<1>3. ModeOf("fault") = "blocking" BY EvaluationAssumption DEF EvaluationAssumption, ModeOf
<1> HIDE DEF Said
<1>4. ASSUME NEW f \in Said, PythonFinding(f).violated
      PROVE  \E i \in Unguarded(File, change) : PythonFinding(f).mode = ModeOf(i.id)
  BY <1>1, <1>4, PythonFindingFields
<1>5. ASSUME NEW i \in Unguarded(File, change)
      PROVE  \E f \in PythonFindings(Sides) :
                 \/ f.violated /\ f.severity = "critical" /\ f.mode = ModeOf(i.id)
                 \/ f.unknown /\ f.mode \in {ModeOf(i.id), "blocking"}
  <2>1. PICK f \in Said : \/ f.status = "violated" /\ f.id = i.id
                          \/ f.status = "incomplete" /\ f.id \in {i.id, "fault"}
    BY <1>1
  <2>2. PythonFinding(f) \in PythonFindings(Sides) BY <1>2
  <2>3. \/ /\ PythonFinding(f).violated /\ PythonFinding(f).severity = "critical"
           /\ PythonFinding(f).mode = ModeOf(i.id)
        \/ PythonFinding(f).unknown /\ PythonFinding(f).mode \in {ModeOf(i.id), "blocking"}
    BY <1>3, <2>1, PythonFindingFields
  <2> QED BY <2>2, <2>3
<1> QED BY <1>2, <1>4, <1>5

(* The verdicts on a determined change are those of the two texts,         *)
(* whichever tree the graph was built of.                                  *)
LEMMA VerdictHoldsLoss ==
    ASSUME EvaluationHolds, files # Fault, ReadAsMeant(change), NEW v \in Verdicts
    PROVE  /\ v.decision = "BLOCK" => GraveLoss
           /\ GraveLoss /\ ~Unread(v) => v.decision = "BLOCK"
           /\ WarnedLoss => v.decision # "ALLOW"
           /\ WarnedLoss /\ change.passed => v.decision \in {"BLOCK", "REQUIRE_APPROVAL"}
<1>1. PICK graph : v = VerdictIn(graph) BY DEF Verdicts
<1> DEFINE tests == PythonTests \cup FileTests(Sides)
           impact == ImpactBoundary(graph)
           decision == DecisionOn(Found, tests, impact)
<1>2. v.decision = decision /\ v.found = Found BY <1>1, VerdictFields
<1> HIDE DEF tests
<1>3. decision = "BLOCK" <=> \E f \in Found : Grave(f) BY CriticalBlocks
<1> HIDE DEF impact
<1>4. ASSUME NEW f \in Found, f.violated, f.mode = "warning"
      PROVE  decision # "ALLOW" /\ (change.passed => decision \in {"BLOCK", "REQUIRE_APPROVAL"})
  BY <1>4, WarningAsks
<1>5. ASSUME NEW f \in Found, f.unknown, Acts(f.mode)
      PROVE  Unread(v) /\ decision \in {"BLOCK", "REQUIRE_APPROVAL"}
  <2>1. decision \in {"BLOCK", "REQUIRE_APPROVAL"} BY <1>5, UnknownAsks
  <2> QED BY <1>2, <1>5, <2>1 DEF Unread
<1> HIDE DEF decision
<1>6. Found = PythonFindings(Sides) \cup FileFindings(Sides) BY DEF Found
<1>7. Acts("blocking") /\ Acts("warning") BY DEF Acts
<1>8. decision = "BLOCK" => GraveLoss
  <2> SUFFICES ASSUME NEW f \in Found, Grave(f) PROVE GraveLoss BY <1>3
  <2>1. CASE f \in FileFindings(Sides) BY <2>1, FileFindsLoss DEF Grave, GraveLoss
  <2>2. CASE f \in PythonFindings(Sides) BY <2>2, PythonFindsLoss DEF Grave, GraveLoss
  <2> QED BY <1>6, <2>1, <2>2
<1>9. GraveLoss /\ ~Unread(v) => decision = "BLOCK"
  <2> SUFFICES ASSUME GraveLoss, ~Unread(v) PROVE \E f \in Found : Grave(f) BY <1>3
  <2>1. ASSUME NEW p \in Losing(File, change), Registry[p].severity = "critical",
               Registry[p].mode = "blocking"
        PROVE  \E f \in Found : Grave(f)
    BY <1>6, <2>1, FileFindsLoss DEF Grave
  <2>2. ASSUME NEW i \in Unguarded(File, change), ModeOf(i.id) = "blocking"
        PROVE  \E f \in Found : Grave(f)
    BY <1>5, <1>6, <1>7, <2>2, PythonFindsLoss DEF Grave
  <2> QED BY <2>1, <2>2 DEF GraveLoss
<1>10. WarnedLoss => /\ decision # "ALLOW"
                     /\ change.passed => decision \in {"BLOCK", "REQUIRE_APPROVAL"}
  <2> SUFFICES ASSUME WarnedLoss
               PROVE  \E f \in Found : \/ f.violated /\ f.mode = "warning"
                                       \/ f.unknown /\ Acts(f.mode)
    BY <1>4, <1>5
  <2>1. ASSUME NEW p \in Losing(File, change), Registry[p].mode = "warning"
        PROVE  \E f \in Found : f.violated /\ f.mode = "warning"
    BY <1>6, <2>1, FileFindsLoss
  <2>2. ASSUME NEW i \in Unguarded(File, change), ModeOf(i.id) = "warning"
        PROVE  \E f \in Found : \/ f.violated /\ f.mode = "warning"
                                \/ f.unknown /\ Acts(f.mode)
    BY <1>6, <1>7, <2>2, PythonFindsLoss
  <2> QED BY <2>1, <2>2 DEF WarnedLoss
<1> QED BY <1>2, <1>8, <1>9, <1>10

(* A determined change that loses something is held as the policy that is  *)
(* about it asks, whichever of its trees each read of the evaluation and   *)
(* the graph found and wherever the file is moved: only the validators'    *)
(* scans are left open.                                                    *)
THEOREM LossFollowsFromTheTexts ==
    Spec => [](Determined(change) /\ ReadAsMeant(change) => LossIsHeld)
<1>1. EvaluationHolds /\ VerdictDetermined /\ ReadingHolds
        => (Determined(change) /\ ReadAsMeant(change) => LossIsHeld)
  <2> SUFFICES ASSUME EvaluationHolds, VerdictDetermined, ReadingHolds,
                      Determined(change), ReadAsMeant(change)
               PROVE  LossIsHeld
    OBVIOUS
  <2>1. UnreadIsAsked BY DEF ReadingHolds
  <2>2. ASSUME files # Fault, NEW v \in verdicts
        PROVE  /\ v.decision = "BLOCK" => GraveLoss
               /\ GraveLoss /\ ~Unread(v) => v.decision = "BLOCK"
               /\ WarnedLoss => v.decision # "ALLOW"
               /\ WarnedLoss /\ change.passed => v.decision \in {"BLOCK", "REQUIRE_APPROVAL"}
    <3>1. v \in Verdicts BY <2>2 DEF VerdictDetermined, Conditions, EvaluationHolds
    <3> QED BY <2>2, <3>1, VerdictHoldsLoss
  <2> QED BY <2>1, <2>2 DEF LossIsHeld
<1> QED BY <1>1, EvaluationTyped, DeterminedAlways, ReadingAlways, PTL

-----------------------------------------------------------------------------
(* The owners collected so far are finitely many, so they can be counted.  *)
LEMMA OwnersFinite ==
    ASSUME TypeOK
    PROVE  IsFiniteSet(input.owners)
<1>1. input.owners \subseteq Owners BY DEF TypeOK
<1> QED BY <1>1, FindingsAssumption, FS_Subset DEF FindingsAssumption

(* The reports of the validators and the context only bring types that fit.*)
THEOREM TypeCorrect == TableSpec => []TypeOK
<1>1. TableInit => TypeOK BY DEF TableInit, TypeOK
<1>2. TypeOK /\ [TableNext]_tableVars => TypeOK'
  <2> SUFFICES ASSUME TypeOK, [TableNext]_tableVars PROVE TypeOK' OBVIOUS
  <2> USE DEF TypeOK
  <2>1. CASE UNCHANGED tableVars BY <2>1 DEF tableVars
  <2>2. ASSUME NEW f \in Findings, NEW brings \in BOOLEAN, Report(f, brings)
        PROVE  TypeOK'
    <3>1. f.approvers \subseteq Owners
      BY FindingsAssumption DEF FindingsAssumption, Finding
    <3>2. UNION {g.approvers : g \in Active({f})} \subseteq Owners
      BY <3>1 DEF Active
    <3> QED BY <2>2, <3>2 DEF Report
  <2>3. ASSUME NEW o \in Owners, NEW tests \in BOOLEAN, Expand({o}, tests)
        PROVE  TypeOK'
    BY <2>3 DEF Expand
  <2>4. CASE LoseVersion BY <2>4 DEF LoseVersion
  <2>5. ASSUME NEW result \in BOOLEAN, Attest(result) PROVE TypeOK'
    BY <2>5 DEF Attest
  <2>6. ASSUME NEW result \in BOOLEAN, Approval(result) PROVE TypeOK'
    BY <2>6 DEF Approval
  <2> QED BY <2>1, <2>2, <2>3, <2>4, <2>5, <2>6 DEF TableNext
<1> QED BY <1>1, <1>2, PTL DEF TableSpec

-----------------------------------------------------------------------------
(* Only a critical finding reaches the default threshold: the next weight, *)
(* high, stays under it even at full confidence.                           *)
LEMMA OnlyCriticalReaches ==
    ASSUME NEW f \in Finding(Owners),
           Weight[f.severity] * f.confidence >= 100 * Threshold
    PROVE  f.severity = "critical"
<1>1. f.severity \in {"low", "medium", "high", "critical"} /\ f.confidence \in 0..100
  BY DEF Finding, Weight
<1>2. CASE f.severity = "low" BY <1>1, <1>2 DEF Weight, Threshold
<1>3. CASE f.severity = "medium" BY <1>1, <1>3 DEF Weight, Threshold
<1>4. CASE f.severity = "high" BY <1>1, <1>4 DEF Weight, Threshold
<1> QED BY <1>1, <1>2, <1>3, <1>4

(* A score that reaches the threshold comes from a finding that a hard     *)
(* condition has caught already, whatever findings the validators report.  *)
THEOREM RiskIsRedundant == TableSpec => []RiskNeverDecides
<1>1. TypeOK => RiskNeverDecides
  <2> SUFFICES ASSUME TypeOK, RiskReached(input.findings)
               PROVE  \/ Critical(input.findings) # {}
                      \/ UnknownBoundary(input)
                      \/ SharedConcern(input)
    BY DEF RiskNeverDecides
  <2>1. PICK f \in Active(input.findings) :
           /\ f.violated \/ f.unknown \/ f.public
           /\ Weight[f.severity] * f.confidence >= 100 * Threshold
    BY DEF RiskReached
  <2>2. f \in Finding(Owners) /\ f \in input.findings /\ f.mode \notin {"draft", "shadow"}
    BY <2>1, FindingsAssumption DEF TypeOK, Active, FindingsAssumption
  <2>3. f.mode \in {"warning", "blocking"}
    BY <2>2 DEF Finding, Mode
  <2>4. f.severity = "critical" BY <2>1, <2>2, OnlyCriticalReaches
  <2>5. CASE f.violated /\ f.mode = "blocking"
    BY <2>1, <2>4, <2>5 DEF Critical
  <2>6. CASE f.violated /\ f.mode = "warning"
    BY <2>1, <2>6 DEF SharedConcern, Warned
  <2>7. CASE f.unknown
    BY <2>1, <2>7 DEF UnknownBoundary, Unknown
  <2>8. CASE f.public
    BY <2>1, <2>8 DEF SharedConcern, Public
  <2> QED BY <2>1, <2>3, <2>5, <2>6, <2>7, <2>8
<1> QED BY <1>1, TypeCorrect, PTL

-----------------------------------------------------------------------------
(* Whether an approval is satisfied plays no part in what decide sees.     *)
LEMMA ApprovalIsNotAReason ==
    ASSUME TypeOK, NEW s \in BOOLEAN
    PROVE  LET in == [input EXCEPT !.satisfied = s]
           IN  /\ in.satisfied = s
               /\ in.findings = input.findings
               /\ in.tests = input.tests
               /\ in.passed = input.passed
               /\ UnknownBoundary(in) = UnknownBoundary(input)
               /\ SharedConcern(in) = SharedConcern(input)
BY DEF TypeOK, UnknownBoundary, SharedConcern

(* An approval lifts a request for approval, never a block and never the   *)
(* tests, for every input.                                                 *)
THEOREM ApprovalLiftsOnlyItsRequest == TableSpec => []ApprovalOnlyAnswers
<1>1. TypeOK => ApprovalOnlyAnswers
  <2> SUFFICES ASSUME TypeOK PROVE ApprovalOnlyAnswers OBVIOUS
  <2> DEFINE pending == [input EXCEPT !.satisfied = FALSE]
             approved == [input EXCEPT !.satisfied = TRUE]
  <2>1. /\ ~pending.satisfied /\ approved.satisfied
        /\ pending.findings = input.findings /\ approved.findings = input.findings
        /\ pending.tests = input.tests /\ approved.tests = input.tests
        /\ pending.passed = input.passed /\ approved.passed = input.passed
        /\ UnknownBoundary(pending) = UnknownBoundary(approved)
        /\ SharedConcern(pending) = SharedConcern(approved)
    BY ApprovalIsNotAReason
  <2>2. CASE Critical(input.findings) # {}
    <3>1. Decide(pending) = "BLOCK" /\ Decide(approved) = "BLOCK"
      BY <2>1, <2>2 DEF Decide
    <3> QED BY <3>1 DEF ApprovalOnlyAnswers
  <2>3. CASE Critical(input.findings) = {}
    <3>1. Decide(approved) =
             IF input.tests /\ ~input.passed THEN "ALLOW_WITH_TESTS" ELSE "ALLOW"
      BY <2>1, <2>3 DEF Decide
    <3>2. Decide(pending) \in {"REQUIRE_APPROVAL", Decide(approved)}
      BY <2>1, <2>3, <3>1 DEF Decide
    <3> QED BY <3>1, <3>2 DEF ApprovalOnlyAnswers
  <2> QED BY <2>2, <2>3
<1> QED BY <1>1, TypeCorrect, PTL

-----------------------------------------------------------------------------
(* One observed finding more, and what decide looks at is the same.        *)
LEMMA ShadowIsInvisible ==
    ASSUME NEW F, NEW f, f.mode \in {"draft", "shadow"}
    PROVE  Active(F \cup {f}) = Active(F)
BY DEF Active

THEOREM ShadowObserves == TableSpec => ShadowOnlyObserves
<1>1. ASSUME TypeOK, NEW f \in Findings, f.mode \in {"draft", "shadow"},
             input' = [input EXCEPT !.findings = @ \cup {f}]
      PROVE  /\ Decide(input') = Decide(input)
             /\ RequiredApprovers(input') = RequiredApprovers(input)
  <2>1. /\ input'.findings = input.findings \cup {f}
        /\ input'.owners = input.owners /\ input'.tests = input.tests
        /\ input'.passed = input.passed /\ input'.known = input.known
        /\ input'.satisfied = input.satisfied
    BY <1>1 DEF TypeOK
  <2>2. Active(input'.findings) = Active(input.findings)
    BY <1>1, <2>1, ShadowIsInvisible
  <2>3. Decide(input') = Decide(input)
    BY <2>1, <2>2 DEF Decide, Critical, UnknownBoundary, Unknown, SharedConcern,
                      Warned, Public, RiskReached
  <2> QED BY <2>1, <2>2, <2>3 DEF RequiredApprovers
<1>2. TypeOK => [(\E f \in Findings :
                     /\ f.mode \in {"draft", "shadow"}
                     /\ input' = [input EXCEPT !.findings = @ \cup {f}])
                  => /\ Decide(input') = Decide(input)
                     /\ RequiredApprovers(input') = RequiredApprovers(input)]_tableVars
  BY <1>1
<1> QED BY <1>2, TypeCorrect, PTL DEF ShadowOnlyObserves

-----------------------------------------------------------------------------
(* What a step may do to the input: owners are only added, and a version   *)
(* once unknown stays unknown.                                             *)
LEMMA StepsOnlyAdd ==
    ASSUME TypeOK, TableNext
    PROVE  input.owners \subseteq input'.owners /\ (input'.known => input.known)
<1> USE DEF TypeOK
<1>1. ASSUME NEW f \in Findings, NEW brings \in BOOLEAN, Report(f, brings)
      PROVE  input.owners \subseteq input'.owners /\ (input'.known => input.known)
  BY <1>1 DEF Report
<1>2. ASSUME NEW o \in Owners, NEW tests \in BOOLEAN, Expand({o}, tests)
      PROVE  input.owners \subseteq input'.owners /\ (input'.known => input.known)
  BY <1>2 DEF Expand
<1>3. CASE LoseVersion BY <1>3 DEF LoseVersion
<1>4. ASSUME NEW result \in BOOLEAN, Attest(result) \/ Approval(result)
      PROVE  input.owners \subseteq input'.owners /\ (input'.known => input.known)
  BY <1>4 DEF Attest, Approval
<1> QED BY <1>1, <1>2, <1>3, <1>4 DEF TableNext

(* More findings, and every list decide makes of them is longer.           *)
LEMMA MoreFindings ==
    ASSUME NEW F, NEW G, F \subseteq G
    PROVE  /\ Critical(F) \subseteq Critical(G)
           /\ Unknown(F) \subseteq Unknown(G)
           /\ Warned(F) \subseteq Warned(G)
           /\ Public(F) \subseteq Public(G)
           /\ RiskReached(F) => RiskReached(G)
BY DEF Active, Critical, Unknown, Warned, Public, RiskReached

(* No finding masks another: a step that adds findings, and brings neither *)
(* tests nor an answer, never makes the decision less restrictive.         *)
THEOREM FindingsOnlyTighten == TableSpec => FindingsNeverRelax
<1>1. ASSUME TypeOK, TypeOK', TableNext,
             input.findings \subseteq input'.findings, input'.tests = input.tests,
             input'.passed = input.passed, input'.satisfied = input.satisfied
      PROVE  Rank[Decide(input')] >= Rank[Decide(input)]
  <2>1. input.owners \subseteq input'.owners /\ (input'.known => input.known)
    BY <1>1, StepsOnlyAdd
  <2>2. Cardinality(input.owners) \in Nat /\ Cardinality(input'.owners) \in Nat
        /\ Cardinality(input.owners) <= Cardinality(input'.owners)
    <3>1. IsFiniteSet(input'.owners)
      BY <1>1, FindingsAssumption, FS_Subset DEF FindingsAssumption, TypeOK
    <3> QED BY <3>1, <2>1, FS_Subset, FS_CardinalityType
  <2>3. Critical(input.findings) # {} => Critical(input'.findings) # {}
    BY <1>1, MoreFindings
  <2>4. UnknownBoundary(input) => UnknownBoundary(input')
    <3>1. Unknown(input.findings) \subseteq Unknown(input'.findings)
      BY <1>1, MoreFindings
    <3> QED BY <2>1, <3>1 DEF UnknownBoundary
  <2>5. SharedConcern(input) => SharedConcern(input')
    <3>1. /\ Warned(input.findings) \subseteq Warned(input'.findings)
          /\ Public(input.findings) \subseteq Public(input'.findings)
      BY <1>1, MoreFindings
    <3> QED BY <2>2, <3>1 DEF SharedConcern
  <2>6. RiskReached(input.findings) => RiskReached(input'.findings)
    BY <1>1, MoreFindings
  <2> QED BY <1>1, <2>3, <2>4, <2>5, <2>6 DEF Decide, Rank
<1>2. TypeOK /\ TypeOK' =>
        [(input.findings \subseteq input'.findings /\ input'.tests = input.tests
          /\ input'.passed = input.passed /\ input'.satisfied = input.satisfied)
         => Rank[Decide(input')] >= Rank[Decide(input)]]_tableVars \/ ~[TableNext]_tableVars
  BY <1>1 DEF tableVars
<1> QED BY <1>2, TypeCorrect, PTL DEF FindingsNeverRelax, TableSpec
=============================================================================
