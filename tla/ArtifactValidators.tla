------------------------- MODULE ArtifactValidators -------------------------
(***************************************************************************)
(* validate_artifact (policy/validators.py): what the policies on          *)
(* contracts, migrations, message schemas and configuration say of the     *)
(* text of an artifact.  Pure definitions, used by ChangeEvaluation.       *)
(*                                                                         *)
(* A line of a text stands for its lexemes, of the kinds                   *)
(*   message, block, close, field      of Protocol Buffers,                *)
(*   schema, property, required        of OpenAPI,                         *)
(*   word, ( ) ; quote -- /* and */    of SQL,                             *)
(*   version, credential               of the other formats.               *)
(***************************************************************************)
EXTENDS UnifiedDiff

CONSTANTS
    Lexemes,      \* per line, the lexemes it consists of
    Identifying   \* the fields one of which a new contract has to have

Nothing == [nothing |-> "no text"]
NewLine == [is |-> "newline"]

Lexed(text) ==
    IF text \in {Absent, Nothing} THEN <<>>
    ELSE FlattenSeq([i \in DOMAIN text.lines |-> Append(Lexemes[text.lines[i]], NewLine)])

Has(lexemes, kind) == \E i \in DOMAIN lexemes : lexemes[i].is = kind

-----------------------------------------------------------------------------
(* The token pattern of _proto_fields leaves out what stands in a comment  *)
(* that is closed.                                                         *)
InComment(lexemes, i) ==
    \E open \in 1..i, close \in i..Len(lexemes) :
        /\ lexemes[open].is = "/*" /\ lexemes[close].is = "*/"
        /\ \A k \in open..(close - 1) : lexemes[k].is # "*/"
Uncommented(lexemes) ==
    LET kept == SelectSeq([i \in DOMAIN lexemes |-> i], LAMBDA i : ~InComment(lexemes, i))
    IN  [k \in DOMAIN kept |-> lexemes[kept[k]]]

(* parse_scope: the message each open brace is in.  A oneof, and any other *)
(* block, belongs to the message around it; a brace too many ends the file.*)
Scope(scope, x) ==
    LET message == Last(scope.open)
        Field == [message |-> message, name |-> x.name, number |-> x.number]
        Others == {f \in scope.fields : <<f.message, f.name>> # <<message, x.name>>}
    IN  IF scope.ended THEN scope
        ELSE CASE x.is = "message" -> [scope EXCEPT !.open = Append(@, Append(message, x.name))]
               [] x.is = "block" -> [scope EXCEPT !.open = Append(@, message)]
               [] x.is = "close" /\ Len(scope.open) > 1 -> [scope EXCEPT !.open = Front(@)]
               [] x.is = "close" /\ Len(scope.open) = 1 -> [scope EXCEPT !.ended = TRUE]
               [] x.is = "field" /\ message # <<>> -> [scope EXCEPT !.fields = Others \cup {Field}]
               [] OTHER -> scope

(* _proto_fields: per message and name, the number.                        *)
ProtoFields(lexemes) ==
    FoldLeft(Scope, [open |-> << <<>> >>, fields |-> {}, ended |-> FALSE],
             Uncommented(lexemes)).fields

(* Without a baseline, a message has to have one of the usual fields.      *)
ProtoViolates(source, baseline) ==
    LET fields == ProtoFields(Lexed(source))
    IN  IF baseline = Nothing
        THEN Has(Lexed(source), "message") /\ \A f \in fields : f.name \notin Identifying
        ELSE ~(ProtoFields(Lexed(baseline)) \subseteq fields)

-----------------------------------------------------------------------------
(* The schema a line of an OpenAPI document belongs to, or 0.              *)
Schema(lexemes, i) ==
    Max({0} \cup {s \in 1..i : lexemes[s].is = "schema"})

(* _openapi_schema_properties: the properties of the named schemas.        *)
OpenApiFields(lexemes) ==
    {<<lexemes[Schema(lexemes, i)].name, lexemes[i].name>> :
        i \in {j \in DOMAIN lexemes : lexemes[j].is = "property" /\ Schema(lexemes, j) > 0}}

(* _openapi_has_missing_required_field                                     *)
RequiresMissing(lexemes) ==
    \E i \in DOMAIN lexemes :
        LET properties ==
                {lexemes[j].name : j \in {k \in DOMAIN lexemes :
                    lexemes[k].is = "property" /\ Schema(lexemes, k) = Schema(lexemes, i)}}
        IN  lexemes[i].is = "required" /\ properties # {} /\ lexemes[i].name \notin properties

(* A document without any of the markers is not a contract.                *)
OpenApiViolates(source, baseline) ==
    LET now == Lexed(source)
        before == Lexed(baseline)
    IN  /\ Has(now, "schema") \/ Has(before, "schema")
        /\ \/ RequiresMissing(now)
           \/ baseline # Nothing /\ ~(OpenApiFields(before) \subseteq OpenApiFields(now))

-----------------------------------------------------------------------------
(* _sql_top_level_statements: the words outside comments, strings and      *)
(* parentheses, statement by statement.                                    *)
SqlLexeme(scan, x) ==
    CASE scan.in = "line" -> IF x.is = "newline" THEN [scan EXCEPT !.in = "code"] ELSE scan
      [] scan.in = "block" -> IF x.is = "*/" THEN [scan EXCEPT !.in = "code"] ELSE scan
      [] scan.in = "quote" -> IF x.is = "quote" THEN [scan EXCEPT !.in = "code"] ELSE scan
      [] scan.in = "code" ->
            CASE x.is = "--" -> [scan EXCEPT !.in = "line"]
              [] x.is = "/*" -> [scan EXCEPT !.in = "block"]
              [] x.is = "quote" -> [scan EXCEPT !.in = "quote"]
              [] x.is = "(" -> [scan EXCEPT !.depth = @ + 1]
              [] x.is = ")" -> [scan EXCEPT !.depth = IF @ = 0 THEN 0 ELSE @ - 1]
              [] x.is = ";" /\ scan.depth = 0 -> [scan EXCEPT !.statements = Append(@, <<>>)]
              [] x.is = "word" /\ scan.depth = 0 ->
                    [scan EXCEPT !.statements = Append(Front(@), Append(Last(@), x.word))]
              [] OTHER -> scan

SqlStatements(lexemes) ==
    FoldLeft(SqlLexeme, [in |-> "code", depth |-> 0, statements |-> << <<>> >>], lexemes).statements

(* _sql_has_untransactional_write: a statement writes if any of its words  *)
(* does, and opens or closes a transaction if its first one does.          *)
SqlViolates(source) ==
    LET Statement(run, words) ==
            CASE words = <<>> -> run
              [] words # <<>> /\ words[1] = "begin" -> [run EXCEPT !.open = TRUE]
              [] words # <<>> /\ words[1] = "commit" -> [run EXCEPT !.open = FALSE]
              [] OTHER -> [run EXCEPT !.bare = @ \/ ("write" \in ToSet(words) /\ ~run.open)]
    IN  FoldLeft(Statement, [open |-> FALSE, bare |-> FALSE], SqlStatements(Lexed(source))).bare

-----------------------------------------------------------------------------
(* validate_artifact: the validator of the policy, by the format it is for.*)
Violates(kind, source, baseline) ==
    CASE kind = ".proto" -> ProtoViolates(source, baseline)
      [] kind = "openapi" -> OpenApiViolates(source, baseline)
      [] kind = ".sql" -> SqlViolates(source)
      [] kind = "message-schema" -> ~Has(Lexed(source), "version")
      [] kind = "configuration" -> Has(Lexed(source), "credential")
=============================================================================
