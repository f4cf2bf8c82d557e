---------------------------- MODULE UnifiedDiff ----------------------------
(***************************************************************************)
(* Reading a unified diff (diff_parser.py) and rebuilding both sides of a  *)
(* changed file from it and from whichever side the working tree holds     *)
(* (diff_reconstruct.py).  Pure definitions, used by ChangeEvaluation.     *)
(*                                                                         *)
(* A diff is a sequence of lines, told apart by what they start with: git, *)
(* from, to, old, new and hunk are headers, added, removed and context the *)
(* lines of a hunk, noeol the "\ No newline" note, binary the binary       *)
(* markers, other everything else.  A path that is refused is Unsafe,      *)
(* /dev/null is NoPath.  A file is its lines and whether the last one ends.*)
(***************************************************************************)
EXTENDS Integers, Sequences, FiniteSets, SequencesExt

CONSTANTS NoPath, Unsafe

Fault == <<>>
Refused == [refused |-> "DiffParseError"]
Missing == [missing |-> "no such line"]
Mismatch == [mismatch |-> "hunk context"]
ReconstructionError == [error |-> "ReconstructionError"]
Absent == [absent |-> "no such file"]

Text(lines, eol) == [lines |-> lines, eol |-> eol /\ lines # <<>>]
NoText == Text(<<>>, FALSE)

FileText == [lines : Seq(STRING), eol : BOOLEAN]
DiffLine(paths) ==
    [is : {"git", "noeol", "binary", "other"}]
    \cup [is : {"from", "to"}, path : paths]
    \cup [is : {"old", "new"}, path : paths, text : STRING]
    \cup [is : {"added", "removed", "context"}, text : STRING]
    \cup [is : {"hunk"}, oldStart : Nat, oldCount : Nat, newStart : Nat, newCount : Nat]

-----------------------------------------------------------------------------
(* Those of s that are wanted, in their order.                             *)
Picked(s, wanted) ==
    LET picked[i \in 0..Len(s)] ==
            IF i = 0 THEN <<>>
            ELSE IF s[i] \in wanted THEN Append(picked[i - 1], s[i])
            ELSE picked[i - 1]
    IN  picked[Len(s)]

(* The parts of s that begin with a line of that kind; what comes before   *)
(* the first is in none.                                                   *)
Parts(s, kind) ==
    LET parts[i \in 0..Len(s)] ==
            LET begun == parts[i - 1]
            IN  IF i = 0 THEN <<>>
                ELSE IF s[i].is = kind THEN Append(begun, <<s[i]>>)
                ELSE IF begun = <<>> THEN <<>>
                ELSE [begun EXCEPT ![Len(begun)] = Append(@, s[i])]
    IN  parts[Len(s)]

(* How a line counts in a hunk, headers of a file included.                *)
Mark == [removed |-> "-", old |-> "-", added |-> "+", new |-> "+", context |-> " "]

Marked(lines, marks) == Picked(lines, {l \in ToSet(lines) : l.mark \in marks})
Texts(lines) == [i \in DOMAIN lines |-> lines[i].text]

HunkLines(part) ==
    LET body == Picked(Tail(part), {l \in ToSet(part) : l.is \in DOMAIN Mark})
    IN  [i \in DOMAIN body |-> [mark |-> Mark[body[i].is], text |-> body[i].text]]

(* _parse_hunk: every line is of a known kind and there are as many as the *)
(* header says.                                                            *)
SoundHunk(part) ==
    /\ \A i \in 2..Len(part) : part[i].is \in DOMAIN Mark \cup {"noeol"}
    /\ Len(Marked(HunkLines(part), {" ", "-"})) = part[1].oldCount
    /\ Len(Marked(HunkLines(part), {" ", "+"})) = part[1].newCount

Hunk(part) ==
    [old |-> part[1].oldStart, new |-> part[1].newStart, lines |-> HunkLines(part),
     noeol |-> \E i \in DOMAIN part : part[i].is = "noeol"]

-----------------------------------------------------------------------------
(* _parse_file, of the lines from one git header to the next: up to the    *)
(* first hunk the last header of a kind counts, after it all is hunks.     *)
Header(section) ==
    LET hunks == {i \in DOMAIN section : section[i].is = "hunk"}
    IN  IF hunks = {} THEN section
        ELSE SubSeq(section, 1, (CHOOSE i \in hunks : \A j \in hunks : i <= j) - 1)

LastLine(lines, kind) ==
    LET at == {i \in DOMAIN lines : lines[i].is = kind}
    IN  IF at = {} THEN Missing ELSE lines[CHOOSE i \in at : \A j \in at : j <= i]

ParsedFile(section) ==
    LET header == Header(section)
        parts == Parts(section, "hunk")
        from == LastLine(header, "from")
        to == LastLine(header, "to")
        old == LastLine(header, "old")
        new == LastLine(header, "new")
        renamed == from # Missing \/ to # Missing
        contents == <<old # Missing, new # Missing, parts # <<>>>>
        paths == IF renamed THEN <<from.path, to.path>> ELSE <<old.path, new.path>>
        sound ==
            /\ \A i \in DOMAIN header : header[i].is # "binary"
            /\ \A k \in DOMAIN parts : SoundHunk(parts[k])
            /\ IF renamed
               THEN /\ from # Missing /\ to # Missing
                    /\ contents \in {<<TRUE, TRUE, TRUE>>, <<FALSE, FALSE, FALSE>>}
               ELSE contents = <<TRUE, TRUE, TRUE>>
            /\ Unsafe \notin {paths[1], paths[2]}
    IN  IF ~sound THEN Refused
        ELSE [old |-> paths[1], new |-> paths[2],
              operation |-> IF renamed THEN "rename"
                            ELSE IF paths[1] = NoPath THEN "add"
                            ELSE IF paths[2] = NoPath THEN "delete"
                            ELSE "modify",
              hunks |-> [k \in DOMAIN parts |-> Hunk(parts[k])]]

(* parse_unified: one file that cannot be read spoils the whole diff.      *)
ParseUnified(diff) ==
    LET sections == Parts(diff, "git")
        files == [k \in DOMAIN sections |-> ParsedFile(sections[k])]
    IN  IF files = <<>> \/ \E k \in DOMAIN files : files[k] = Refused THEN Fault ELSE files

-----------------------------------------------------------------------------
FoundAt(base, expected, p) ==
    p + Len(expected) <= Len(base) /\ SubSeq(base, p + 1, p + Len(expected)) = expected

(* _locate_hunk: where the header says, or else at the only place there    *)
(* is.  Beyond the end of the file means nowhere.                          *)
Locate(base, expected, preferred, minimum) ==
    LET places == {p \in minimum..(Len(base) - Len(expected)) : FoundAt(base, expected, p)}
    IN  IF preferred >= minimum /\ FoundAt(base, expected, preferred) THEN preferred
        ELSE IF expected # <<>> /\ Cardinality(places) = 1 THEN CHOOSE p \in places : TRUE
        ELSE Len(base) + 1

(* The lines on one side: those that stay, and those that go, or come.     *)
Side(lines, mark) == Texts(Marked(lines, {" ", mark}))

(* _apply_hunks, one after the other: gone and come are the marks of the   *)
(* lines to take out and to put in.                                        *)
Applied(base, hunks, gone, come) ==
    LET applied[k \in 0..Len(hunks)] ==
            LET done == applied[k - 1]
                start == IF gone = "-" THEN hunks[k].old ELSE hunks[k].new
                at == Locate(base, Side(hunks[k].lines, gone),
                             IF start = 0 THEN 0 ELSE start - 1, done.cursor)
            IN  IF k = 0 THEN [cursor |-> 0, output |-> <<>>]
                ELSE IF done = Mismatch THEN Mismatch
                ELSE IF at > Len(base) THEN Mismatch
                ELSE [cursor |-> at + Len(Side(hunks[k].lines, gone)),
                      output |-> done.output \o SubSeq(base, done.cursor + 1, at)
                                   \o Side(hunks[k].lines, come)]
    IN  applied[Len(hunks)]

(* A faulty version: what comes after the last hunk is dropped.            *)
ApplyHunksOnly(base, hunks, gone, come) ==
    LET done == Applied(base, hunks, gone, come)
    IN  IF done = Mismatch THEN Mismatch ELSE [lines |-> done.output]

ApplyHunks(base, hunks, gone, come) ==
    LET done == Applied(base, hunks, gone, come)
    IN  IF done = Mismatch THEN Mismatch
        ELSE [lines |-> done.output \o SubSeq(base, done.cursor + 1, Len(base))]

Patched(base, file) == ApplyHunks(base, file.hunks, "-", "+")
Reversed(base, file) == ApplyHunks(base, file.hunks, "+", "-")

-----------------------------------------------------------------------------
At(where, path) == IF path = NoPath THEN Absent ELSE where[path]

(* _base_path: the first of the two paths there is a file at, or the first.*)
BasePath(file, tree) ==
    IF file.old = NoPath \/ (At(tree, file.old) = Absent /\ At(tree, file.new) # Absent)
    THEN file.new ELSE file.old

(* A faulty version: a file both sides fit is taken for the old side.      *)
TakenForOld(file) == FALSE

(* How many lines longer the file becomes.                                 *)
LineDelta(file) ==
    FoldLeft(LAMBDA n, h : n + Len(Marked(h.lines, {"+"})) - Len(Marked(h.lines, {"-"})), 0, file.hunks)

(* Of a file both sides fit: what adds lines is taken to be there already. *)
TakenForNew(file) == LineDelta(file) > 0

ReconstructAdded(file, disk) ==
    LET patched == Patched(<<>>, file)
        eol == \A k \in DOMAIN file.hunks : ~file.hunks[k].noeol
    IN  IF patched = Mismatch THEN ReconstructionError
        ELSE [before |-> NoText,
              after |-> IF disk # Absent /\ disk.lines = patched.lines THEN disk
                        ELSE Text(patched.lines, eol)]

ReconstructDeleted(file, disk) ==
    LET eol == \A k \in DOMAIN file.hunks : ~file.hunks[k].noeol
        reversed == Reversed(<<>>, file)
    IN  IF disk = Absent
        THEN IF reversed = Mismatch THEN ReconstructionError
             ELSE [before |-> Text(reversed.lines, eol), after |-> NoText]
        ELSE IF Patched(disk.lines, file) = [lines |-> <<>>] THEN [before |-> disk, after |-> NoText]
        ELSE ReconstructionError

ReconstructChanged(file, disk) ==
    LET patched == Patched(disk.lines, file)
        reversed == Reversed(disk.lines, file)
        isNew == reversed # Mismatch /\ (patched = Mismatch \/ TakenForNew(file))
    IN  IF disk = Absent THEN ReconstructionError
        ELSE IF file.hunks = <<>> THEN [before |-> disk, after |-> disk]
        ELSE IF isNew THEN [before |-> Text(reversed.lines, disk.eol), after |-> disk]
        ELSE IF patched = Mismatch THEN ReconstructionError
        ELSE [before |-> disk, after |-> Text(patched.lines, disk.eol)]

(* reconstruct_file                                                        *)
Reconstruct(file, tree) ==
    LET disk == At(tree, BasePath(file, tree))
    IN  CASE file.operation = "add" -> ReconstructAdded(file, disk)
          [] file.operation = "delete" -> ReconstructDeleted(file, disk)
          [] OTHER -> ReconstructChanged(file, disk)

-----------------------------------------------------------------------------
(* What it means that the hunks turn one sequence of lines into another,   *)
(* said without looking for them: each stands for its block, wherever that *)
(* is on either side, and the lines around them are the same.              *)
Placed(lines, blocks) ==
    {at \in [DOMAIN blocks -> 0..Len(lines)] :
        \A k \in DOMAIN blocks : FoundAt(lines, blocks[k], at[k])}
Gap(lines, blocks, at, k) ==
    [from |-> IF k = 1 THEN 0 ELSE at[k - 1] + Len(blocks[k - 1]),
     to |-> IF k > Len(blocks) THEN Len(lines) ELSE at[k]]
SameGaps(before, olds, at, after, news, to) ==
    \A k \in 1..(Len(olds) + 1) :
        LET old == Gap(before, olds, at, k)
            new == Gap(after, news, to, k)
        IN  /\ old.from <= old.to /\ new.from <= new.to
            /\ SubSeq(before, old.from + 1, old.to) = SubSeq(after, new.from + 1, new.to)

Blocks(hunks, mark) == [k \in DOMAIN hunks |-> Side(hunks[k].lines, mark)]

IsPatch(before, after, hunks) ==
    LET olds == Blocks(hunks, "-")
        news == Blocks(hunks, "+")
    IN  \E at \in Placed(before, olds), to \in Placed(after, news) :
            SameGaps(before, olds, at, after, news, to)

(* ... and that the hunks can also be found: each is where its header      *)
(* says, or else at the only place left for it.                            *)
Told(lines, blocks, at, starts) ==
    \A k \in DOMAIN blocks :
        \/ at[k] = IF starts[k] = 0 THEN 0 ELSE starts[k] - 1
        \/ /\ blocks[k] # <<>>
           /\ \A p \in Gap(lines, blocks, at, k).from..Len(lines) :
                 FoundAt(lines, blocks[k], p) => p = at[k]

IsToldPatch(before, after, hunks) ==
    LET olds == Blocks(hunks, "-")
        news == Blocks(hunks, "+")
    IN  \E at \in Placed(before, olds), to \in Placed(after, news) :
            /\ SameGaps(before, olds, at, after, news, to)
            /\ Told(before, olds, at, [k \in DOMAIN hunks |-> hunks[k].old])
            /\ Told(after, news, to, [k \in DOMAIN hunks |-> hunks[k].new])

(* One of the blocks is nowhere in the lines.                              *)
Foreign(lines, blocks) ==
    \E k \in DOMAIN blocks : \A p \in 0..Len(lines) : ~FoundAt(lines, blocks[k], p)
=============================================================================
