------------------------- MODULE MCChangeEvaluation -------------------------
(* Diffs as git writes them, of short contract files: every edit script of *)
(* few lines, with different amounts of context; renames, additions and    *)
(* deletions; diffs that lost a line; and trees that drifted from the diff *)
(* by a line on top.  Then every small change of one longer file of each   *)
(* format, and every short migration.                                      *)
EXTENDS ChangeEvaluation, TLC

CONSTANTS
    Lines,       \* lines of a file, one of them identifying
    MaxScript,   \* bound on the lines of an edit script
    Contexts,    \* lines of context around a change
    LastLineEnds,\* whether the last line of the old and of the new file ends
    Repeats      \* whether a line may occur twice in a file

(* a, b and o are Protocol Buffers, o only observed; c and j are OpenAPI,  *)
(* d and the Java file h governed by none, m is a migration, s a message   *)
(* schema, e configuration, p and q are Python.                            *)
FileSuffixes ==
    [a |-> ".proto", b |-> ".proto", o |-> ".proto", c |-> ".yaml", j |-> ".json", d |-> ".txt",
     h |-> ".java", m |-> ".sql", s |-> ".avsc", e |-> ".env", p |-> ".py", q |-> ".py"]
Contracts ==
    [a |-> {"dto", "contract"}, b |-> {"dto", "partner"}, o |-> {"partner"}, c |-> {"dto"},
     j |-> {"dto", "contract"}, d |-> {}, h |-> {}, m |-> {"ledger"}, s |-> {"versions", "schema"},
     e |-> {"secrets"}, p |-> {}, q |-> {}]

(* Policies that observe, that warn, that block, and that would block but  *)
(* are not critical.                                                       *)
Policy(severity, mode, owner, tests) ==
    [severity |-> severity, mode |-> mode, owner |-> owner, tests |-> tests]
PolicyRegistry ==
    [dto |-> Policy("high", "warning", "platform", {"dto-test"}),
     contract |-> Policy("critical", "blocking", "platform", {}),
     partner |-> Policy("critical", "shadow", "partners", {"partner-test"}),
     ledger |-> Policy("critical", "blocking", "platform", {"ledger-test"}),
     versions |-> Policy("high", "warning", "platform", {}),
     schema |-> Policy("critical", "shadow", "partners", {"schema-test"}),
     secrets |-> Policy("high", "blocking", "platform", {}),
     watched |-> Policy("critical", "warning", "platform", {})]

Is(kind) == [is |-> kind]
Named(kind, name) == [is |-> kind, name |-> name]
Field(name, number) == [is |-> "field", name |-> name, number |-> number]
Word(word) == [is |-> "word", word |-> word]
Call(name, argument) == [is |-> "call", name |-> name, argument |-> argument]

(* A line of Lines is a message of one field; k, l, m and drift are blank. *)
OneField(name) == <<Named("message", name), Field(name, 1), Is("close")>>
Blank == [line \in {"k", "l", "m", "drift", "header"} |-> <<>>]
Messages == [id |-> OneField("id"), f |-> OneField("f"), g |-> OneField("g")]
ProtoLexemes ==
    [A |-> <<Named("message", "A")>>, one |-> <<Is("block")>>, end1 |-> <<Is("close")>>,
     end2 |-> <<Is("close")>>, end3 |-> <<Is("close")>>, end4 |-> <<Is("close")>>, B |-> <<Named("message", "B")>>,
     id1 |-> <<Field("id", 1)>>, id2 |-> <<Field("id", 2)>>, x |-> <<Field("x", 3)>>,
     opened |-> <<Is("/*")>>, closed |-> <<Is("*/")>>]
YamlLexemes ==
    [S |-> <<Named("schema", "S")>>, T |-> <<Named("schema", "T")>>,
     u |-> <<Named("property", "u")>>, v |-> <<Named("property", "v")>>,
     v2 |-> <<Named("property", "v")>>, needs |-> <<Named("required", "u")>>]
SqlLexemes ==
    [begin |-> <<Word("begin"), Is(";")>>, commit |-> <<Word("commit"), Is(";")>>,
     write |-> <<Word("with"), Is("("), Word("select"), Is(")"), Word("write"), Is(";")>>,
     note |-> <<Is("--"), Word("or"), Word("write"), Is(";")>>,
     listed |-> <<Word("select"), Is("("), Word("write"), Is(")"), Is(";")>>,
     text |-> <<Word("select"), Is("quote"), Is("/*"), Is(";"), Word("write"), Is("quote"), Is(";")>>,
     opened |-> <<Is("/*")>>, closed |-> <<Is("*/")>>]
OtherLexemes ==
    [version |-> <<Is("version")>>, secret |-> <<Is("credential")>>]
PythonLexemes ==
    [class |-> <<Named("class", "RedeemService")>>, tx |-> <<Named("decorator", "transaction")>>,
     redeem |-> <<Named("def", "redeem")>>, helper |-> <<Named("def", "helper")>>,
     check |-> <<Call("IdempotencyStore.check", "idempotency_key")>>,
     checkother |-> <<Call("IdempotencyStore.check", "coupon_id")>>,
     ledger |-> <<Call("ledger.redeem", "coupon_id")>>, log |-> <<Call("log", "coupon_id")>>]
AllLexemes ==
    Blank @@ Messages @@ ProtoLexemes @@ YamlLexemes @@ SqlLexemes @@ OtherLexemes @@ PythonLexemes

(* The invariant of policy/invariants.yaml, as it is, as one that the      *)
(* registry lets warn, and in trouble: a document names a policy nobody    *)
(* knows, evidence is missing, no knowledge, no contract.                  *)
Guard ==
    [id |-> "guard", file |-> "p", class |-> "RedeemService", function |-> "redeem",
     decorator |-> "transaction", call |-> "IdempotencyStore.check",
     argument |-> "idempotency_key", before |-> "ledger.redeem",
     evidence |-> {<<"registry", "key">>}]
Governed ==
    [contracts |-> {[id |-> "key", source |-> "p", policies |-> {"guard"}, tests |-> {"key-test"}]},
     invariants |-> {Guard}, documents |-> {[id |-> "adr", policies |-> {"guard"}]}]
Watched ==
    [contracts |-> {[id |-> "key", source |-> "p", policies |-> {"watched"}, tests |-> {}]},
     invariants |-> {[Guard EXCEPT !.id = "watched"]},
     documents |-> {[id |-> "adr", policies |-> {"watched"}]}]
Troubled ==
    {[Governed EXCEPT !.documents = {[id |-> "adr", policies |-> {"nobody's"}]}],
     [Governed EXCEPT !.invariants = {[Guard EXCEPT !.evidence = {<<"knowledge", "gone">>}]}],
     [Governed EXCEPT !.documents = {}],
     [Governed EXCEPT !.contracts =
         {[id |-> "key", source |-> "q", policies |-> {"guard"}, tests |-> {}]}]}

SameEnds == {<<TRUE, TRUE>>, <<FALSE, FALSE>>}
NewlineAdded == {<<FALSE, TRUE>>}

OnceEach(lines) == Cardinality(ToSet(lines)) = Len(lines)
Scripts ==
    {s \in SeqOf([mark : {" ", "-", "+"}, text : Lines], MaxScript) :
        /\ \E i \in DOMAIN s : s[i].mark # " "
        /\ Repeats \/ (OnceEach(Side(s, "-")) /\ OnceEach(Side(s, "+")))
        /\ \A i \in 1..(Len(s) - 1) : ~(s[i].mark = "+" /\ s[i + 1].mark = "-")}

(* Two changes so far apart that they are hunks of their own.              *)
Between3 == [i \in 1..3 |-> [mark |-> " ", text |-> <<"k", "l", "m">>[i]]]
Apart ==
    LET short == {s \in Scripts : Len(s) <= 2 /\ \A i \in DOMAIN s : s[i].mark # " "}
    IN  {s \in {p \o Between3 \o q : p, q \in short} :
            OnceEach(Side(s, "-")) /\ OnceEach(Side(s, "+"))}

(* A line stays only if it also ends as it did: what stays and is the last *)
(* line of either file without ending is so of both.                       *)
NotEnded(script, i, mark, ends) ==
    ~ends /\ script[i].mark \in {" ", mark}
          /\ \A j \in (i + 1)..Len(script) : script[j].mark \notin {" ", mark}
WellEnded(script, ends) ==
    \A i \in DOMAIN script :
        script[i].mark = " " => (NotEnded(script, i, "-", ends[1]) <=> NotEnded(script, i, "+", ends[2]))

(* The hunks git writes for a script, as lines of the diff.                *)
Written(script, context, ends) ==
    LET n == Len(script)
        near == {i \in 1..n : \E j \in 1..n : script[j].mark # " " /\ i - j \in (-context)..context}
        firsts == SetToSortSeq({i \in near : i - 1 \notin near}, <)
        lasts == SetToSortSeq({i \in near : i + 1 \notin near}, <)
        Count(from, to, mark) ==
            Cardinality({i \in from..to : script[i].mark \in {" ", mark}})
        Start(k, mark) ==
            Count(1, firsts[k] - 1, mark) + IF Count(firsts[k], lasts[k], mark) = 0 THEN 0 ELSE 1
        Kept == [x \in {"-", "+", " "} |->
                  CASE x = "-" -> "removed" [] x = "+" -> "added" [] OTHER -> "context"]
        Line(i) ==
            <<[is |-> Kept[script[i].mark], text |-> script[i].text]>>
            \o IF NotEnded(script, i, "-", ends[1]) \/ NotEnded(script, i, "+", ends[2])
               THEN <<[is |-> "noeol"]>> ELSE <<>>
        HunkOf(k) ==
            <<[is |-> "hunk", oldStart |-> Start(k, "-"), oldCount |-> Count(firsts[k], lasts[k], "-"),
               newStart |-> Start(k, "+"), newCount |-> Count(firsts[k], lasts[k], "+")]>>
            \o FlattenSeq([i \in 1..(lasts[k] - firsts[k] + 1) |-> Line(firsts[k] + i - 1)])
    IN  FlattenSeq([k \in DOMAIN firsts |-> HunkOf(k)])

Headers(old, new) ==
    <<[is |-> "git"]>>
    \o (IF old # new /\ NoPath \notin {old, new}
        THEN <<[is |-> "from", path |-> old], [is |-> "to", path |-> new]>> ELSE <<>>)
    \o <<[is |-> "old", path |-> old, text |-> "header"], [is |-> "new", path |-> new, text |-> "header"]>>

Tree(path, text) == [p \in DOMAIN FileSuffixes |-> IF p = path THEN text ELSE Absent]
On(drift, lines) == IF drift THEN <<"drift">> \o lines ELSE lines

(* The diff of a script between two paths, and the trees it is between.    *)
Between(old, new, script, hunks, drift, ends) ==
    [diff |-> Headers(old, new) \o hunks, edited |-> {}, governance |-> Governed, passed |-> TRUE,
     before |-> Tree(old, Text(On(drift, Side(script, "-")), ends[1])),
     after |-> Tree(new, Text(On(drift, Side(script, "+")), ends[2]))]

(* Only short scripts with a last end are also tried with renamed files.   *)
Renames(script, ends) ==
    {<<"a", "a">>} \cup
    IF ends = <<TRUE, TRUE>> /\ script \in Scripts
    THEN {<<"a", "b">>, <<"a", "d">>, <<"d", "a">>, <<"c", "a">>} ELSE {}
Modified ==
    LET Diffs(script, context, ends) ==
            LET hunks == Written(script, context, ends)
            IN  {Between("a", "a", script, hunks, TRUE, ends)}
                \cup {Between(pair[1], pair[2], script, hunks, FALSE, ends) :
                         pair \in Renames(script, ends)}
        Changed(ends) ==
            {s \in Scripts \cup Apart :
                /\ Side(s, "-") # <<>> /\ Side(s, "+") # <<>> /\ WellEnded(s, ends)
                /\ Side(s, "-") # Side(s, "+") \/ ends[1] # ends[2]}
    IN  UNION {UNION {Diffs(x[1], x[2], ends) : x \in Changed(ends) \X Contexts} : ends \in LastLineEnds}
Added ==
    {Between(NoPath, "a", s, Written(s, 3, ends), FALSE, ends) :
        s \in {t \in Scripts : Side(t, "-") = <<>>}, ends \in LastLineEnds}
Deleted ==
    {Between("a", NoPath, s, Written(s, 3, ends), FALSE, ends) :
        s \in {t \in Scripts : Side(t, "+") = <<>>}, ends \in LastLineEnds}
Genuine == Modified \cup Added \cup Deleted

(* A line of the diff is lost on the way, other than a note on the newline:*)
(* without it the diff would be one of other files.                        *)
Damaged ==
    UNION {{[c EXCEPT !.diff = RemoveAt(@, i)] :
               i \in {j \in DOMAIN c.diff : c.diff[j].is # "noeol"}} :
              c \in {g \in Genuine : Len(g.diff) <= 6}}

(* Somebody else's lines stand in the file, with or without the change.    *)
Edited ==
    {[c EXCEPT !.edited = {Tree("a", Text(lines, TRUE))}] :
        lines \in {l \in SeqOf(Lines, 2) : Len(l) = 2 /\ OnceEach(l)},
        c \in {g \in Genuine : Len(g.diff) <= 6 /\ g.before["a"] # Absent /\ g.after["a"] # Absent}}

(* One line goes, comes, changes or moves, in a diff that shows the whole  *)
(* file; or lines are commented out.                                       *)
Inserted(base, gone, lines) ==
    FlattenSeq([p \in 1..(Len(base) + 1) |->
        (IF p = 1 THEN <<>>
         ELSE <<[mark |-> IF p - 1 = gone THEN "-" ELSE " ", text |-> base[p - 1]]>>)
        \o (IF p \in DOMAIN lines THEN <<[mark |-> "+", text |-> lines[p]]>> ELSE <<>>)])
Edits(base, new) ==
    {Inserted(base, gone, <<>>) : gone \in DOMAIN base}
    \cup {Inserted(base, x[1], x[2] :> x[3]) :
             x \in {y \in (0..Len(base)) \X (1..(Len(base) + 1)) \X (new \cup ToSet(base)) :
                       y[2] # y[1] /\ (y[3] \in new \/ (y[1] > 0 /\ y[3] = base[y[1]]))}}
CommentedOut(base) ==
    {Inserted(base, 0, x[1] :> "opened" @@ x[2] :> "closed") :
        x \in {y \in (DOMAIN base) \X (DOMAIN base) : y[1] < y[2]}}

Script(lines, mark) == [i \in DOMAIN lines |-> [mark |-> mark, text |-> lines[i]]]
Whole(old, new, script) ==
    Between(old, new, script, Written(script, Len(script), <<TRUE, TRUE>>), FALSE, <<TRUE, TRUE>>)
Distinct(scripts) == {s \in scripts : OnceEach(Side(s, "+")) /\ Side(s, "+") # Side(s, "-")}

(* A brace too many at the end does not matter.                            *)
Balanced(lines) ==
    LET code == Uncommented(Lexed(Text(lines, TRUE)))
        Count(i, kinds) == Cardinality({k \in 1..i : code[k].is \in kinds})
        Depth(i) == Count(i, {"message", "block"}) - Count(i, {"close"})
    IN  IF Last(lines) = "end4" THEN Depth(Len(code)) = -1
        ELSE Depth(Len(code)) = 0 /\ \A i \in DOMAIN code : Depth(i) >= 0
ProtoBase == <<"A", "id1", "one", "x", "end1", "end2", "B", "f", "end3">>
ProtoChanges ==
    LET Sound(s) == /\ Balanced(Side(s, "+"))
                    /\ ~({"id1", "id2"} \subseteq ToSet(Side(s, "+")))
        scripts == Distinct(Edits(ProtoBase, {"id2", "g", "end4"}) \cup CommentedOut(ProtoBase))
    IN  {Whole("a", "a", s) : s \in {t \in scripts : Sound(t)}}

(* The same of the file that is only observed, in which g leads nowhere,   *)
(* and with somebody else's text in its place.                             *)
Observed ==
    LET base == <<"A", "id1", "x", "B", "g", "f">>
        changes == {Whole("o", "o", s) : s \in Distinct({Inserted(base, i, <<>>) : i \in {3, 5, 6}})}
    IN  changes \cup {[c EXCEPT !.edited = {Tree("o", Text(<<"k">>, TRUE))}] : c \in changes}

YamlBase == <<"S", "u", "needs", "v", "T", "v2">>
YamlChanges ==
    {Whole("c", x[1], x[2]) :
        x \in {"c", "j", "a", "d"} \X {s \in Distinct(Edits(YamlBase, {"f"})) : Side(s, "+")[1] = "S"}}
    \cup {Whole("j", "j", s) : s \in {t \in Distinct(Edits(YamlBase, {"f"})) : Side(t, "+")[1] = "S"}}
    \cup {Whole("c", NoPath, Script(YamlBase, "-")), Whole(NoPath, "c", Script(YamlBase, "+"))}

Migration == <<"begin", "write", "commit">>
SqlChanges ==
    {Whole(NoPath, "m", Script(lines, "+")) : lines \in SeqOf(DOMAIN SqlLexemes, 3) \ {<<>>}}
    \cup {Whole("m", new, s) : new \in {"m", "d"},
             s \in Distinct(Edits(Migration, {"note", "text", "listed"}))}
    \cup {Whole("m", NoPath, Script(Migration, "-"))}

OtherChanges ==
    LET Pairs == {<<"s", "s">>, <<"s", "d">>, <<"h", "h">>, <<"a", "h">>,
                  <<"e", "e">>, <<"d", "e">>, <<"d", "s">>, <<"d", "a">>}
    IN  {Whole(pair[1], pair[2], s) :
            pair \in Pairs, s \in Distinct(Edits(<<"version", "k">>, {"secret", "l"}))}

PythonBase == <<"class", "helper", "log", "tx", "redeem", "check", "ledger">>
PythonEdits(new) == Distinct(Edits(PythonBase, new))
PythonChanges ==
    {Whole("p", new, s) : new \in {"p", "q", "d"}, s \in PythonEdits({"k"})}
    \cup {Whole("p", NoPath, Script(PythonBase, "-")), Whole(NoPath, "p", Script(PythonBase, "+"))}
    \cup {[Whole("p", "p", s) EXCEPT !.governance = g] : s \in PythonEdits({}), g \in Troubled \cup {Watched}}

(* The check of the key goes elsewhere, and another check comes.           *)
OtherKeys ==
    LET places == {x \in (1..8) \X (1..8) : x[1] # x[2] /\ 6 \notin {x[1], x[2]}}
    IN  {Whole("p", "p", Inserted(PythonBase, 6, x[1] :> "check" @@ x[2] :> "checkother")) :
            x \in places}

(* Some of them before the tests have passed.                              *)
Untested ==
    {[c EXCEPT !.passed = FALSE] : c \in Observed \cup YamlChanges \cup OtherChanges}

AllChanges ==
    Genuine \cup Damaged \cup Edited \cup Untested
    \cup ProtoChanges \cup Observed \cup YamlChanges \cup SqlChanges \cup OtherChanges \cup PythonChanges

(* Of a proto file, a removed line names the fields and messages that are  *)
(* looked up in the proto files of the graph.  g leads nowhere, and no     *)
(* capability is found for x.                                              *)
AnalysedIn(diff, graph) ==
    LET olds == {i \in DOMAIN diff : diff[i].is = "old" /\ diff[i].path \in {"a", "b", "o"}}
        gone == {diff[i].text : i \in {j \in DOMAIN diff : diff[j].is = "removed"}}
        NamesIn(lines) ==
            {x.name : x \in {y \in UNION {ToSet(Lexemes[l]) : l \in lines} :
                                 y.is \in {"field", "message"}}}
        indexed == UNION {NamesIn(ToSet(graph[p].lines)) :
                              p \in {q \in DOMAIN graph \cap {"a", "b", "o"} : graph[q] # Absent}}
        changed == NamesIn(gone) \cap indexed
    IN  IF olds = {} \/ changed = {} THEN NoArtifact
        ELSE [resolved |-> "x" \notin changed, boundary |-> "g" \in changed,
              approvers |-> {"risk"}, tests |-> {"impact-test"}]

(* What is proved of every determined change whose texts are read as they  *)
(* are meant is proved of all of these.                                    *)
Judged == {c \in Changes : c.edited = {} /\ ParseUnified(c.diff) # Fault}
ASSUME ChangesAreDetermined ==
    /\ LastLineEnds \subseteq SameEnds => \A c \in Judged : Determined(c)
    /\ \A c \in Judged \ OtherKeys : ReadAsMeant(c)
=============================================================================
