------------------------------ MODULE LormGen ------------------------------
(***************************************************************************)
(* lormgen (cmd/lormgen/main.go, gen.go): the Go files named by the        *)
(* arguments are loaded at once, then one after the other is extracted,    *)
(* generated, written and formatted by goimports.  The first error ends    *)
(* the run, and so may a crash; the user edits the sources all the time.   *)
(*                                                                         *)
(* A source is [imports, code, needs, decls]: whether it imports lorm,     *)
(* whether it compiles beside the other sources of its directory when the  *)
(* generated files are left out, the other sources whose declarations it   *)
(* uses, and the fields of its model.  The columns of a field are pairs of *)
(* the prefix its embedding struct gives and a name.                       *)
(***************************************************************************)
EXTENDS Naturals, Sequences, SequencesExt, FiniteSets

CONSTANTS
    Files,      \* the source files, 1 .. n in the order of their names
    Dir,        \* Dir[f]: the directory of f
    Texts,      \* Texts[f]: the sources f may hold
    BadNames,   \* the sets of files tried whose path makes no identifier
    Local,      \* the fields of a struct declared in the same file
    MaxRuns, MaxEdits

\* The field declarations of a struct: names with a tag, or an embedded struct.
NameDeclarations == [sort : {"names"}, names : Seq(STRING \ {""}), col : STRING,
                     flags : SUBSET STRING]
Declarations ==
    NameDeclarations \cup [sort : {"local", "pointer", "foreign"}, prefix : STRING]

\* No two fields of a struct have one name, or it does not compile.
FieldsDistinct(decls) ==
    \A i, k \in DOMAIN decls :
      /\ decls[i].sort = "local" /\ decls[k].sort = "local" => i = k
      /\ decls[i].sort = "names" /\ decls[k].sort = "names" =>
           \A j \in DOMAIN decls[i].names, l \in DOMAIN decls[k].names :
             decls[i].names[j] = decls[k].names[l] => i = k /\ j = l

ASSUME LormGenAssumption ==
    /\ IsFiniteSet(Files) /\ Files \subseteq Nat
    /\ BadNames \subseteq SUBSET Files
    /\ MaxRuns \in Nat /\ MaxEdits \in Nat

ASSUME SourcesAssumption ==
    /\ \A f \in Files : \A s \in Texts[f] :
         /\ s.decls \in Seq(Declarations) /\ (s.code = "fine" => FieldsDistinct(s.decls))
         /\ s.needs \subseteq {g \in Files : Dir[g] = Dir[f] /\ g # f}
         /\ (\E i \in DOMAIN s.decls : s.decls[i].sort = "foreign") => s.needs # {}
    /\ Local \in Seq(NameDeclarations) /\ FieldsDistinct(Local)

VARIABLES
    src,        \* the sources on disk
    gen,        \* the generated files on disk
    badName,
    edits, runs,
    pc,
    input,      \* the files of the run
    parsed,     \* the sources as loaded
    todo,       \* the files still to be done, the first of them now
    answer      \* of the last run

vars == <<src, gen, badName, edits, runs, pc, input, parsed, todo, answer>>

Absent == [form |-> "absent", fields |-> <<>>, run |-> 0]
Names == {[f |-> f, sort |-> s] : f \in Files, s \in {"source", "generated"}}

(* ------------------------------ extraction ----------------------------- *)
\* Variant: the tag of an aggregated declaration is given to all its names.
ParseFieldTagAll(d) ==
    [i \in DOMAIN d.names |->
       [full |-> <<d.names[i]>>, col |-> <<"", IF d.col # "" THEN d.col ELSE d.names[i]>>,
        flags |-> d.flags]]

\* Variant: a field without a column in its tag has none.
ParseFieldNoDefault(d) ==
    [i \in DOMAIN d.names |->
       [full |-> <<d.names[i]>>, flags |-> d.flags,
        col |-> <<"", IF i = Len(d.names) THEN d.col ELSE d.names[i]>>]]

\* parseField: the tag takes effect for the last of the names.
ParseField(d) ==
    [i \in DOMAIN d.names |->
       IF i = Len(d.names)
       THEN [full |-> <<d.names[i]>>, flags |-> d.flags,
             col |-> <<"", IF d.col # "" THEN d.col ELSE d.names[i]>>]
       ELSE [full |-> <<d.names[i]>>, col |-> <<"", d.names[i]>>, flags |-> {}]]

\* Of an embedded field, only a struct declared in the same file is opened; a
\* pointer or a struct of another package gives nothing.
ExtractDecl(d) ==
    CASE d.sort = "names" -> ParseField(d)
      [] d.sort = "local" ->
           LET inner == FlattenSeq([i \in DOMAIN Local |-> ParseField(Local[i])])
           IN  [i \in DOMAIN inner |->
                  [full |-> <<"Local">> \o inner[i].full,
                   col |-> <<d.prefix, inner[i].col[2]>>, flags |-> inner[i].flags]]
      [] OTHER -> <<>>
Extract(s) == FlattenSeq([i \in DOMAIN s.decls |-> ExtractDecl(s.decls[i])])

\* ident.Obj is nil for a struct of another file of the package.
Panics(s) == \E i \in DOMAIN s.decls : s.decls[i].sort = "foreign"

(* --------------------------------- files ------------------------------- *)
\* Variant: generated files are taken for sources.
IsValidFileAll(n) == TRUE
\* isValidFile, for the default suffix of generated files.
IsValidFile(n) == n.sort = "source"

Exists(n) == n.sort = "source" \/ gen[n.f].form # "absent"
ArgsToFiles(args) == {n \in Names : n.f \in args /\ Exists(n) /\ IsValidFile(n)}

\* packages.Load checks the files given and no others of the directory: what a
\* source uses of another one is undefined unless that one is given as well.
Compiles(n, files) ==
    IF n.sort = "source"
    THEN src[n.f].code = "fine" /\ src[n.f].needs \subseteq {m.f : m \in files}
    ELSE gen[n.f].form # "torn"

\* Variant: one generated file for the sources of a directory.
GeneratedFilePathOfDir(f) == CHOOSE g \in Files : Dir[g] = Dir[f]
\* The generated file is named after its source.
GeneratedFilePath(f) == f

\* Files are taken in the order of their names.
Current == CHOOSE f \in todo : \A g \in todo : f <= g
-----------------------------------------------------------------------------
Init ==
    /\ \E s \in [Files -> UNION {Texts[f] : f \in Files}] :
         (\A f \in Files : s[f] \in Texts[f]) /\ src = s
    /\ gen = [f \in Files |-> Absent]
    /\ badName \in BadNames
    /\ edits = 0 /\ runs = 0
    /\ pc = "idle" /\ input = {} /\ parsed = src /\ todo = {}
    /\ answer = "none"

Edit(f) ==
    /\ edits < MaxEdits
    /\ \E s \in Texts[f] \ {src[f]} : src' = [src EXCEPT ![f] = s]
    /\ edits' = edits + 1
    /\ UNCHANGED <<gen, badName, runs, pc, input, parsed, todo, answer>>

End(result) ==
    /\ pc' = "idle" /\ todo' = {} /\ answer' = result
    /\ UNCHANGED <<src, badName, edits, runs, input, parsed>>

\* run: the arguments name at least one file.
Run(args) ==
    /\ pc = "idle" /\ runs < MaxRuns
    /\ runs' = runs + 1
    /\ pc' = "load"
    /\ input' = args
    /\ answer' = "none"
    /\ UNCHANGED <<src, gen, badName, edits, parsed, todo>>

\* load: a package has its files in one directory and no errors; the generated
\* files are not part of it.
CanLoad(files) ==
    /\ \A m, n \in files : Dir[m.f] = Dir[n.f]
    /\ \A n \in files : Compiles(n, files)
Load ==
    /\ pc = "load"
    /\ CanLoad(ArgsToFiles(input))
    /\ pc' = "extract"
    /\ parsed' = src
    /\ todo' = {n.f : n \in ArgsToFiles(input)}
    /\ UNCHANGED <<src, gen, badName, edits, runs, input, answer>>
LoadFails ==
    /\ pc = "load"
    /\ ~CanLoad(ArgsToFiles(input))
    /\ pc' = "idle" /\ answer' = "refused" /\ parsed' = src
    /\ UNCHANGED <<src, gen, badName, edits, runs, input, todo>>

\* A file that does not import lorm is skipped.
Extracted ==
    /\ pc = "extract" /\ todo # {}
    /\ LET s == parsed[Current]
       IN  \/ /\ ~s.imports
              /\ todo' = todo \ {Current} /\ pc' = pc
           \/ /\ s.imports /\ ~Panics(s) /\ Current \notin badName
              /\ pc' = "write" /\ todo' = todo
    /\ UNCHANGED <<src, gen, badName, edits, runs, input, parsed, answer>>

\* extractFile panics, or the code generated is no Go: the path of the source
\* is part of a name in it.
ExtractFails ==
    /\ pc = "extract" /\ todo # {}
    /\ LET s == parsed[Current]
       IN  s.imports /\ (Panics(s) \/ Current \in badName)
    /\ End("failed") /\ UNCHANGED gen

Written(form) ==
    gen' = [gen EXCEPT ![GeneratedFilePath(Current)] =
              [form |-> form, fields |-> Extract(parsed[Current]), run |-> runs]]

\* os.WriteFile; an error or a crash may leave the file cut short.
WriteFile ==
    /\ pc = "write"
    /\ Written("raw")
    /\ pc' = "format"
    /\ UNCHANGED <<src, badName, edits, runs, input, parsed, todo, answer>>
\* Variant: the error is reported and the next file is taken.
WriteFileFailsOn ==
    /\ pc = "write"
    /\ Written("torn")
    /\ pc' = "extract" /\ todo' = todo \ {Current}
    /\ UNCHANGED <<src, badName, edits, runs, input, parsed, answer>>
WriteFileFails ==
    /\ pc = "write"
    /\ Written("torn") \/ UNCHANGED gen
    /\ End("failed")

\* goimports -w writes the file itself: cut off, it may leave it cut short.
Format ==
    /\ pc = "format"
    /\ Written("done")
    /\ pc' = "extract" /\ todo' = todo \ {Current}
    /\ UNCHANGED <<src, badName, edits, runs, input, parsed, answer>>
\* Variant: the error of goimports is not looked at.
FormatFailsOn ==
    /\ pc = "format"
    /\ pc' = "extract" /\ todo' = todo \ {Current}
    /\ UNCHANGED <<src, gen, badName, edits, runs, input, parsed, answer>>
FormatFails ==
    /\ pc = "format"
    /\ Written("torn") \/ UNCHANGED gen
    /\ End("failed")

Crash ==
    /\ pc \in {"load", "extract", "format"}
    /\ End("failed") /\ UNCHANGED gen

Done ==
    /\ pc = "extract" /\ todo = {}
    /\ End("ok") /\ UNCHANGED gen

Next ==
    \/ \E f \in Files : Edit(f)
    \/ \E args \in (SUBSET Files) \ {{}} : Run(args)
    \/ Load \/ LoadFails \/ Extracted \/ ExtractFails
    \/ WriteFile \/ WriteFileFails \/ Format \/ FormatFails \/ Crash \/ Done

Spec == Init /\ [][Next]_vars
-----------------------------------------------------------------------------
Forms == {"absent", "torn", "raw", "done"}
\* Types; every field of a generated file has a column.
TypeInv ==
    /\ \A f \in Files :
         /\ src[f] \in Texts[f]
         /\ gen[f].form \in Forms /\ gen[f].run \in 0 .. runs
         /\ \A i \in DOMAIN gen[f].fields : gen[f].fields[i].col[2] # ""
    /\ badName \in BadNames
    /\ edits \in 0 .. MaxEdits /\ runs \in 0 .. MaxRuns
    /\ pc \in {"idle", "load", "extract", "write", "format"}
    /\ input \subseteq Files
    /\ todo # {} => pc \in {"extract", "write", "format"} /\ todo \subseteq input
    /\ answer \in {"none", "ok", "refused", "failed"}

\* A run that reports success has generated and formatted every file it was
\* given that imports lorm, whatever earlier runs left behind.
SuccessIsComplete ==
    answer = "ok" => \A f \in input :
      parsed[f].imports => gen[f].form = "done" /\ gen[f].run = runs

\* A generated file describes the fields of the source as it was loaded: each
\* field once, under the column of its tag or else of its name, with the flags
\* of its tag; the tag of an aggregated declaration is that of the last name.
Tagged(d, j) == j = Len(d.names)
Field(d, j, embedder, prefix) ==
    [full |-> embedder \o <<d.names[j]>>,
     col |-> <<prefix, IF Tagged(d, j) /\ d.col # "" THEN d.col ELSE d.names[j]>>,
     flags |-> IF Tagged(d, j) THEN d.flags ELSE {}]
Declared(s) ==
    UNION {IF s.decls[i].sort = "names"
           THEN {Field(s.decls[i], j, <<>>, "") : j \in DOMAIN s.decls[i].names}
           ELSE IF s.decls[i].sort = "local"
           THEN UNION {{Field(Local[k], j, <<"Local">>, s.decls[i].prefix)
                          : j \in DOMAIN Local[k].names} : k \in DOMAIN Local}
           ELSE {} : i \in DOMAIN s.decls}
DescribesSource ==
    \A f \in Files :
      gen[f].form \in {"raw", "done"} /\ gen[f].run = runs =>
      /\ ToSet(gen[f].fields) = Declared(parsed[f])
      /\ Len(gen[f].fields) = Cardinality(Declared(parsed[f]))

\* However a run ends, no more than one file is left cut short or unformatted:
\* those generated before it are finished, those after it are as they were.
OneUnfinished ==
    \A f, g \in input :
      f < g /\ gen[g].run = runs /\ parsed[f].imports
      => gen[f].form = "done" /\ gen[f].run = runs

\* What an interrupted run left behind never makes the next one fail: over files
\* of one directory, a run is refused only for a source given that does not
\* compile or uses one that is not given.
LeftoversDoNotMatter ==
    answer = "refused" /\ (\A f, g \in input : Dir[f] = Dir[g]) =>
      \E f \in input : parsed[f].code # "fine" \/ ~(parsed[f].needs \subseteq input)

\* lormgen ./... is done for sources that compile, in however many directories
\* they are (README.md:57).
EveryDirectoryIsDone ==
    answer = "refused" /\ input = Files => \E f \in input : parsed[f].code # "fine"

\* A run changes only the generated files of its arguments that import lorm.
OnlyOwnFiles ==
    [][\A f \in Files : gen'[f] # gen[f] => f \in input /\ parsed[f].imports]_vars
=============================================================================
