---------------------------- MODULE LormGenProof ----------------------------
(* Proofs about LormGen, for any files, sources, runs and edits. *)
EXTENDS LormGen, NaturalsInduction, WellFoundedInduction, SequenceTheorems,
        FiniteSetTheorems, TLAPS

USE LormGenAssumption

Running == pc \in {"extract", "write", "format"}

Shape ==
    /\ runs \in Nat /\ input \subseteq Files /\ todo \subseteq Files
    /\ DOMAIN gen = Files
    /\ \A f \in Files : gen[f].run \in 0 .. runs
    /\ pc \in {"idle", "load", "extract", "write", "format"}
    /\ pc # "idle" => answer = "none"

\* Before anything is generated, all generated files are of earlier runs.
Fresh == pc = "load" => \A f \in Files : gen[f].run < runs

\* The files are taken in order, and each that is left behind is finished.
Progress ==
    Running =>
    /\ todo \subseteq input
    /\ \A f \in input \ todo : \A g \in todo : f < g
    /\ \A f \in input \ todo : parsed[f].imports => gen[f].form = "done" /\ gen[f].run = runs
    /\ \A g \in todo : gen[g].run = runs => g = Current
    /\ pc # "extract" => todo # {} /\ parsed[Current].imports

IInv ==
    Shape /\ Fresh /\ Progress /\ SuccessIsComplete /\ OneUnfinished /\ LeftoversDoNotMatter

\* The file being done is the first of those to be done.
LEMMA CurrentIsFirst ==
    ASSUME todo \subseteq Nat, todo # {}
    PROVE  Current \in todo /\ \A g \in todo : Current <= g
<1>1. PICK f \in todo : \A g \in todo : <<g, f>> \notin OpToRel(<, Nat)
  BY WFMin, NatLessThanWellFounded
<1>2. \A g \in todo : ~(g < f)
  BY <1>1 DEF OpToRel
<1>3. \A g \in todo : f <= g
  BY <1>2
<1> QED BY <1>3 DEF Current

\* A file that is generated leaves the files of the run in order, if those
\* already done are as they were: "files" are the generated files then.
LEMMA OnlyCurrentUnfinished ==
    ASSUME Shape, Progress, Running, NEW files,
           \A f \in input \ todo : files[f] = gen[f],
           \A g \in todo : files[g].run = runs => g = Current
    PROVE  \A f, g \in input :
             f < g /\ files[g].run = runs /\ parsed[f].imports
             => files[f].form = "done" /\ files[f].run = runs
<1> SUFFICES ASSUME NEW f \in input, NEW g \in input,
                    f < g, files[g].run = runs, parsed[f].imports
             PROVE  files[f].form = "done" /\ files[f].run = runs
  OBVIOUS
<1>1. f \in Nat /\ g \in Nat /\ todo \subseteq Nat
  BY DEF Shape
<1>2. f \notin todo
  <2>1. CASE g \in todo
    <3>1. g = Current /\ \A h \in todo : Current <= h
      BY <2>1, <1>1, CurrentIsFirst
    <3> QED BY <3>1, <1>1
  <2>2. CASE g \notin todo
    <3>1. f \in todo => g < f
      BY <2>2 DEF Progress
    <3> QED BY <3>1, <1>1
  <2> QED BY <2>1, <2>2
<1> QED BY <1>2 DEF Progress

\* The next file is taken when the current one needs nothing more.
LEMMA TakeNext ==
    ASSUME Shape, Progress, Running, todo # {}, NEW files,
           \A f \in Files \ {Current} : files[f] = gen[f],
           parsed[Current].imports
             => files[Current].form = "done" /\ files[Current].run = runs
    PROVE  LET left == todo \ {Current}
           IN  /\ left \subseteq input
               /\ \A f \in input \ left : \A g \in left : f < g
               /\ \A f \in input \ left :
                    parsed[f].imports => files[f].form = "done" /\ files[f].run = runs
               /\ \A g \in left : files[g].run # runs
<1> DEFINE left == todo \ {Current}
<1>1. todo \subseteq Nat /\ input \subseteq Files /\ todo \subseteq input
  BY DEF Shape, Progress
<1>2. Current \in todo /\ \A g \in todo : Current <= g
  BY <1>1, CurrentIsFirst
<1>3. \A f \in input \ left : f \in input \ todo \/ f = Current
  OBVIOUS
<1>4. \A f \in input \ left : \A g \in left : f < g
  BY <1>1, <1>2, <1>3 DEF Progress
<1>5. \A f \in input \ left :
        parsed[f].imports => files[f].form = "done" /\ files[f].run = runs
  BY <1>1, <1>2, <1>3 DEF Progress
<1>6. \A g \in left : files[g].run # runs
  BY <1>1 DEF Progress
<1> QED BY <1>1, <1>4, <1>5, <1>6

LEMMA InitInv == Init => IInv
BY DEF Init, IInv, Shape, Fresh, Progress, Running, SuccessIsComplete, OneUnfinished,
       LeftoversDoNotMatter, Absent

LEMMA RunInv == ASSUME IInv, NEW args \in SUBSET Files, Run(args) PROVE IInv'
<1>1. \A f \in Files : gen'[f].run \in 0 .. runs' /\ gen'[f].run < runs'
  <2>1. runs \in Nat /\ runs' = runs + 1 /\ gen' = gen
    BY DEF IInv, Shape, Run
  <2>2. \A f \in Files : gen[f].run \in 0 .. runs
    BY DEF IInv, Shape
  <2>3. \A n \in 0 .. runs : n \in 0 .. runs + 1 /\ n < runs + 1
    BY <2>1
  <2> QED BY <2>1, <2>2, <2>3
<1>2. Shape' /\ Fresh' /\ Progress'
  BY <1>1 DEF IInv, Shape, Fresh, Progress, Running, Run
<1>3. OneUnfinished'
  <2>1. input' \subseteq Files
    BY DEF Run
  <2>2. \A f \in input' : gen'[f].run # runs'
    BY <1>1, <2>1
  <2> QED BY <2>2 DEF OneUnfinished
<1>4. SuccessIsComplete' /\ LeftoversDoNotMatter'
  BY DEF SuccessIsComplete, LeftoversDoNotMatter, Run
<1> QED BY <1>2, <1>3, <1>4 DEF IInv

\* The files loaded are the sources of the run's arguments.
LEMMA FilesOfInput == ASSUME IInv PROVE {n.f : n \in ArgsToFiles(input)} = input
<1>1. \A n \in ArgsToFiles(input) : n.f \in input
  BY DEF ArgsToFiles
<1>2. ASSUME NEW f \in input
      PROVE  \E n \in ArgsToFiles(input) : n.f = f
  <2> DEFINE n == [f |-> f, sort |-> "source"]
  <2>1. n \in ArgsToFiles(input)
    BY DEF ArgsToFiles, Names, Exists, IsValidFile, IInv, Shape
  <2> QED BY <2>1
<1> QED BY <1>1, <1>2

LEMMA LoadInv == ASSUME IInv, Load PROVE IInv'
<1>1. {n.f : n \in ArgsToFiles(input)} = input
  BY FilesOfInput
<1>2. /\ todo' = input /\ pc = "load" /\ pc' = "extract" /\ parsed' = src
      /\ UNCHANGED <<src, gen, badName, edits, runs, input, answer>>
  BY <1>1 DEF Load
<1>3. Shape' /\ Fresh' /\ answer' = "none"
  BY <1>2 DEF IInv, Shape, Fresh
<1>4. \A f \in Files : gen'[f].run # runs'
  BY <1>2 DEF IInv, Fresh, Shape
<1>5. Progress' /\ OneUnfinished'
  BY <1>2, <1>4 DEF IInv, Shape, Progress, Running, OneUnfinished
<1>6. SuccessIsComplete' /\ LeftoversDoNotMatter'
  BY <1>3 DEF SuccessIsComplete, LeftoversDoNotMatter
<1> QED BY <1>3, <1>5, <1>6 DEF IInv

LEMMA LoadFailsInv == ASSUME IInv, LoadFails PROVE IInv'
<1>1. /\ pc = "load" /\ pc' = "idle" /\ answer' = "refused" /\ parsed' = src
      /\ UNCHANGED <<src, gen, badName, edits, runs, input, todo>>
  BY DEF LoadFails
<1>2. Shape' /\ Fresh' /\ Progress' /\ SuccessIsComplete'
  BY <1>1 DEF IInv, Shape, Fresh, Progress, Running, SuccessIsComplete
<1>3. OneUnfinished'
  <2>1. \A f \in Files : gen'[f].run # runs'
    <3>1. \A f \in Files : gen[f].run < runs /\ gen[f].run \in 0 .. runs
      BY <1>1 DEF IInv, Fresh, Shape
    <3>2. \A n \in 0 .. runs : n < runs => n # runs
      OBVIOUS
    <3> QED BY <1>1, <3>1, <3>2
  <2> QED BY <1>1, <2>1 DEF OneUnfinished, IInv, Shape
<1>4. LeftoversDoNotMatter'
  <2>1. \/ \E m, n \in ArgsToFiles(input) : Dir[m.f] # Dir[n.f]
        \/ \E n \in ArgsToFiles(input) : ~Compiles(n, ArgsToFiles(input))
    BY DEF LoadFails, CanLoad
  <2>2. \A n \in ArgsToFiles(input) : n.f \in input /\ n.sort = "source"
    BY DEF ArgsToFiles, IsValidFile
  <2>3. \A n \in ArgsToFiles(input) :
          ~Compiles(n, ArgsToFiles(input))
          => src[n.f].code # "fine" \/ ~(src[n.f].needs \subseteq input)
    BY <2>2, FilesOfInput DEF Compiles
  <2> QED BY <1>1, <2>1, <2>2, <2>3 DEF LeftoversDoNotMatter
<1> QED BY <1>2, <1>3, <1>4 DEF IInv

\* While files are generated they are in order.
LEMMA OrderedInRun == Shape /\ Progress /\ Running => OneUnfinished
BY OnlyCurrentUnfinished DEF OneUnfinished, Progress

\* A step that goes on with the run keeps what is said of its end.
LEMMA GoOn ==
    ASSUME IInv, pc # "idle", Shape', Progress', Running',
           UNCHANGED <<runs, input, parsed, answer>>
    PROVE  IInv'
<1>1. OneUnfinished'
  BY OrderedInRun, PTL
<1>2. answer' = "none" /\ pc' # "load"
  BY DEF IInv, Shape, Running
<1>3. Fresh' /\ SuccessIsComplete' /\ LeftoversDoNotMatter'
  BY <1>2 DEF Fresh, SuccessIsComplete, LeftoversDoNotMatter
<1> QED BY <1>1, <1>3 DEF IInv

\* A run that ends leaves at most the current file unfinished.
LEMMA EndInv ==
    ASSUME IInv, NEW result \in {"ok", "failed"}, End(result), pc # "idle",
           DOMAIN gen' = Files,
           pc = "load" => gen' = gen,
           Running => \A f \in Files : gen'[f] = gen[f]
                                       \/ (f \in todo /\ f = Current /\ gen'[f].run = runs),
           result = "ok" => pc = "extract" /\ todo = {}
    PROVE  IInv'
<1>1. /\ pc' = "idle" /\ todo' = {} /\ answer' = result
      /\ UNCHANGED <<src, badName, edits, runs, input, parsed>>
  BY DEF End
<1>2. pc = "load" \/ Running
  BY DEF IInv, Shape, Running
<1>3. Shape'
  <2>1. \A f \in Files : gen'[f].run \in 0 .. runs
    BY <1>2 DEF IInv, Shape
  <2> QED BY <1>1, <2>1 DEF IInv, Shape
<1>4. Fresh' /\ Progress' /\ LeftoversDoNotMatter'
  BY <1>1 DEF Fresh, Progress, Running, LeftoversDoNotMatter
<1>5. OneUnfinished'
  <2>1. CASE pc = "load"
    BY <1>1, <2>1 DEF IInv, OneUnfinished
  <2>2. CASE Running
    <3>1. \A f \in input \ todo : gen'[f] = gen[f]
      BY <2>2 DEF IInv, Shape
    <3>2. \A g \in todo : gen'[g].run = runs => g = Current
      BY <2>2 DEF IInv, Shape, Progress
    <3>3. \A f, g \in input :
            f < g /\ gen'[g].run = runs /\ parsed[f].imports
            => gen'[f].form = "done" /\ gen'[f].run = runs
      BY <2>2, <3>1, <3>2, OnlyCurrentUnfinished DEF IInv
    <3> QED BY <1>1, <3>3 DEF OneUnfinished
  <2> QED BY <1>2, <2>1, <2>2
<1>6. SuccessIsComplete'
  <2>1. CASE result = "ok"
    <3>1. pc = "extract" /\ todo = {} /\ \A f \in Files : gen'[f] = gen[f]
      BY <2>1 DEF Running
    <3>2. \A f \in input : parsed[f].imports => gen'[f].form = "done" /\ gen'[f].run = runs
      BY <2>1, <3>1 DEF IInv, Shape, Progress, Running
    <3> QED BY <1>1, <3>2 DEF SuccessIsComplete
  <2>2. CASE result # "ok"
    BY <1>1, <2>2 DEF SuccessIsComplete
  <2> QED BY <2>1, <2>2
<1> QED BY <1>3, <1>4, <1>5, <1>6 DEF IInv

LEMMA CurrentKnown ==
    ASSUME IInv, todo # {}
    PROVE  Current \in todo /\ Current \in Files /\ todo \subseteq Nat
BY CurrentIsFirst DEF IInv, Shape

LEMMA ExtractedInv == ASSUME IInv, Extracted PROVE IInv'
<1>1. /\ pc = "extract" /\ todo # {} /\ Running
      /\ UNCHANGED <<src, gen, badName, edits, runs, input, parsed, answer>>
  BY DEF Extracted, Running
<1>2. Current \in todo
  BY <1>1, CurrentKnown
<1>3. CASE ~parsed[Current].imports /\ todo' = todo \ {Current} /\ pc' = pc
  <2>1. /\ todo' \subseteq input
        /\ \A f \in input \ todo' : \A g \in todo' : f < g
        /\ \A f \in input \ todo' :
             parsed[f].imports => gen[f].form = "done" /\ gen[f].run = runs
        /\ \A g \in todo' : gen[g].run # runs
    BY <1>1, <1>3, TakeNext DEF IInv
  <2>2. Shape' /\ Running'
    BY <1>1, <1>3 DEF IInv, Shape, Running
  <2>3. Progress'
    BY <1>1, <1>3, <2>1 DEF Progress
  <2> QED BY <1>1, <2>2, <2>3, GoOn
<1>4. CASE parsed[Current].imports /\ pc' = "write" /\ todo' = todo
  <2>1. Shape' /\ Running'
    BY <1>1, <1>4 DEF IInv, Shape, Running
  <2>2. Current' = Current
    BY <1>4 DEF Current
  <2>3. Progress'
    BY <1>1, <1>4, <2>2 DEF IInv, Progress
  <2> QED BY <1>1, <2>1, <2>3, GoOn
<1> QED BY <1>3, <1>4 DEF Extracted

\* What a write leaves of the generated files.
LEMMA WrittenKeeps ==
    ASSUME IInv, todo # {}, NEW form, Written(form)
    PROVE  /\ DOMAIN gen' = Files
           /\ gen'[Current].form = form /\ gen'[Current].run = runs
           /\ \A f \in Files \ {Current} : gen'[f] = gen[f]
BY CurrentKnown DEF Written, GeneratedFilePath, IInv, Shape

LEMMA WriteFileInv == ASSUME IInv, WriteFile PROVE IInv'
<1>1. /\ pc = "write" /\ pc' = "format" /\ Running /\ Running' /\ todo # {}
      /\ UNCHANGED <<src, badName, edits, runs, input, parsed, todo, answer>>
  BY DEF WriteFile, Running, IInv, Progress
<1>2. /\ DOMAIN gen' = Files
      /\ gen'[Current].form = "raw" /\ gen'[Current].run = runs
      /\ \A f \in Files \ {Current} : gen'[f] = gen[f]
  BY <1>1, WrittenKeeps DEF WriteFile
<1>3. Current' = Current /\ Current \in todo
  BY <1>1, CurrentKnown DEF Current
<1>4. Shape'
  <2>1. \A f \in Files : gen'[f].run \in 0 .. runs
    BY <1>2 DEF IInv, Shape
  <2> QED BY <1>1, <1>2, <2>1 DEF IInv, Shape
<1>5. Progress'
  <2>1. \A f \in input \ todo : gen'[f] = gen[f]
    BY <1>2, <1>3 DEF IInv, Shape
  <2>2. \A g \in todo : gen'[g].run = runs => g = Current
    BY <1>1, <1>2 DEF IInv, Shape, Progress
  <2> QED BY <1>1, <1>3, <2>1, <2>2 DEF IInv, Progress
<1> QED BY <1>1, <1>4, <1>5, GoOn

LEMMA FormatInv == ASSUME IInv, Format PROVE IInv'
<1>1. /\ pc = "format" /\ pc' = "extract" /\ Running /\ Running' /\ todo # {}
      /\ todo' = todo \ {Current}
      /\ UNCHANGED <<src, badName, edits, runs, input, parsed, answer>>
  BY DEF Format, Running, IInv, Progress
<1>2. /\ DOMAIN gen' = Files
      /\ gen'[Current].form = "done" /\ gen'[Current].run = runs
      /\ \A f \in Files \ {Current} : gen'[f] = gen[f]
  BY <1>1, WrittenKeeps DEF Format
<1>3. Shape'
  <2>1. \A f \in Files : gen'[f].run \in 0 .. runs
    BY <1>2 DEF IInv, Shape
  <2> QED BY <1>1, <1>2, <2>1 DEF IInv, Shape
<1>4. /\ todo' \subseteq input
      /\ \A f \in input \ todo' : \A g \in todo' : f < g
      /\ \A f \in input \ todo' :
           parsed[f].imports => gen'[f].form = "done" /\ gen'[f].run = runs
      /\ \A g \in todo' : gen'[g].run # runs
  BY <1>1, <1>2, TakeNext DEF IInv
<1>5. Progress'
  BY <1>1, <1>4 DEF Progress
<1> QED BY <1>1, <1>3, <1>5, GoOn

LEMMA FailInv ==
    ASSUME IInv, ExtractFails \/ WriteFileFails \/ FormatFails \/ Crash
    PROVE  IInv'
<1>1. /\ End("failed") /\ pc # "idle"
      /\ gen' = gen \/ (pc \in {"write", "format"} /\ Written("torn"))
  BY DEF ExtractFails, WriteFileFails, FormatFails, Crash
<1>2. CASE gen' = gen
  <2>1. DOMAIN gen' = Files
    BY <1>2 DEF IInv, Shape
  <2>2. /\ pc = "load" => gen' = gen
        /\ Running => \A f \in Files : gen'[f] = gen[f]
                                       \/ (f \in todo /\ f = Current /\ gen'[f].run = runs)
    BY <1>2
  <2>3. /\ "failed" \in {"ok", "failed"}
        /\ "failed" = "ok" => pc = "extract" /\ todo = {}
    OBVIOUS
  <2> QED BY <1>1, <2>1, <2>2, <2>3, EndInv
<1>3. CASE pc \in {"write", "format"} /\ Written("torn")
  <2>1. todo # {}
    BY <1>3 DEF IInv, Progress, Running
  <2>2. /\ DOMAIN gen' = Files
        /\ gen'[Current].run = runs /\ Current \in todo
        /\ \A f \in Files \ {Current} : gen'[f] = gen[f]
    BY <1>3, <2>1, WrittenKeeps, CurrentKnown
  <2>3. /\ pc = "load" => gen' = gen
        /\ Running => \A f \in Files : gen'[f] = gen[f]
                                       \/ (f \in todo /\ f = Current /\ gen'[f].run = runs)
    <3>1. pc # "load"
      BY <1>3
    <3>2. ASSUME NEW f \in Files
          PROVE  gen'[f] = gen[f] \/ (f \in todo /\ f = Current /\ gen'[f].run = runs)
      BY <2>2
    <3> QED BY <3>1, <3>2
  <2>4. /\ "failed" \in {"ok", "failed"}
        /\ "failed" = "ok" => pc = "extract" /\ todo = {}
    OBVIOUS
  <2> QED BY <1>1, <2>2, <2>3, <2>4, EndInv
<1> QED BY <1>1, <1>2, <1>3

LEMMA DoneInv == ASSUME IInv, Done PROVE IInv'
<1>1. End("ok") /\ pc = "extract" /\ todo = {} /\ gen' = gen /\ pc # "idle"
  BY DEF Done
<1>2. /\ DOMAIN gen' = Files
      /\ pc = "load" => gen' = gen
      /\ Running => \A f \in Files : gen'[f] = gen[f]
                                     \/ (f \in todo /\ f = Current /\ gen'[f].run = runs)
  BY <1>1 DEF IInv, Shape
<1>3. /\ "ok" \in {"ok", "failed"}
      /\ "ok" = "ok" => pc = "extract" /\ todo = {}
  BY <1>1
<1> QED BY <1>1, <1>2, <1>3, EndInv

LEMMA EditInv == ASSUME IInv, NEW f \in Files, Edit(f) PROVE IInv'
<1>1. UNCHANGED <<gen, badName, runs, pc, input, parsed, todo, answer>>
  BY DEF Edit
<1> QED BY <1>1 DEF IInv, Shape, Fresh, Progress, Running, Current, SuccessIsComplete,
                    OneUnfinished, LeftoversDoNotMatter

LEMMA NextInv == ASSUME IInv, [Next]_vars PROVE IInv'
<1>1. CASE UNCHANGED vars
  BY <1>1 DEF vars, IInv, Shape, Fresh, Progress, Running, Current, SuccessIsComplete,
              OneUnfinished, LeftoversDoNotMatter
<1>2. CASE Next
  BY <1>2, EditInv, RunInv, LoadInv, LoadFailsInv, ExtractedInv, WriteFileInv, FormatInv,
     FailInv, DoneInv DEF Next
<1> QED BY <1>1, <1>2

-----------------------------------------------------------------------------
\* A run that reports success has generated and formatted every file it was
\* given that imports lorm.
THEOREM SuccessComplete == Spec => []SuccessIsComplete
<1>1. IInv /\ [Next]_vars => IInv'
  BY NextInv
<1>2. IInv => SuccessIsComplete
  BY DEF IInv
<1> QED BY InitInv, <1>1, <1>2, PTL DEF Spec

\* However a run ends, no more than one file is left unfinished, and those
\* before it are done.
THEOREM NoMoreThanOneUnfinished == Spec => []OneUnfinished
<1>1. IInv /\ [Next]_vars => IInv'
  BY NextInv
<1>2. IInv => OneUnfinished
  BY DEF IInv
<1> QED BY InitInv, <1>1, <1>2, PTL DEF Spec

\* Over files of one directory, a run is refused only for a source given that
\* does not compile or uses one that is not given: whatever earlier runs left
\* behind is no reason.
THEOREM LeftoversHarmless == Spec => []LeftoversDoNotMatter
<1>1. IInv /\ [Next]_vars => IInv'
  BY NextInv
<1>2. IInv => LeftoversDoNotMatter
  BY DEF IInv
<1> QED BY InitInv, <1>1, <1>2, PTL DEF Spec

\* A run changes the generated files of its arguments that import lorm, and
\* no other.
THEOREM OwnFilesOnly == Spec => OnlyOwnFiles
<1> DEFINE Own == \A f \in Files : gen'[f] # gen[f] => f \in input /\ parsed[f].imports
<1>1. IInv /\ [Next]_vars => IInv'
  BY NextInv
<1>2. IInv /\ [Next]_vars => [Own]_vars
  <2> SUFFICES ASSUME IInv, Next, gen' # gen
               PROVE  Own
    OBVIOUS
  <2>1. /\ pc \in {"write", "format"}
        /\ \E form \in {"raw", "torn", "done"} : Written(form)
    BY DEF Next, Edit, Run, Load, LoadFails, Extracted, ExtractFails, WriteFile,
           WriteFileFails, Format, FormatFails, Crash, Done
  <2>2. todo # {} /\ parsed[Current].imports /\ todo \subseteq input
    BY <2>1 DEF IInv, Progress, Running
  <2>3. \A f \in Files \ {Current} : gen'[f] = gen[f]
    BY <2>1, <2>2, WrittenKeeps
  <2> QED BY <2>2, <2>3, CurrentKnown
<1> QED BY InitInv, <1>1, <1>2, PTL DEF Spec, OnlyOwnFiles

-----------------------------------------------------------------------------
(* FlattenSeq: by induction over the number of sequences joined. *)

\* Induction, for a set of numbers.
LEMMA SetInduction ==
    ASSUME NEW G, 0 \in G, \A n \in Nat : n \in G => n + 1 \in G
    PROVE  Nat \subseteq G
<1> DEFINE bad == Nat \ G
<1>1. SUFFICES ASSUME bad # {} PROVE FALSE
  OBVIOUS
<1>2. PICK n \in bad : \A m \in bad : <<m, n>> \notin OpToRel(<, Nat)
  <2>1. bad \subseteq Nat
    OBVIOUS
  <2> HIDE DEF bad
  <2> QED BY <1>1, <2>1, WFMin, NatLessThanWellFounded
<1>3. n - 1 \in Nat /\ n - 1 < n /\ (n - 1) + 1 = n
  <2>1. n \in Nat /\ n # 0
    BY <1>2
  <2> QED BY <2>1
<1>4. n - 1 \in G
  BY <1>2, <1>3 DEF OpToRel
<1> QED BY <1>2, <1>3, <1>4

\* The function FlattenSeq defines: the first i sequences joined.
Joins(f, seqs) == f = [i \in 1 .. Len(seqs) |-> IF i = 1 THEN seqs[i] ELSE f[i - 1] \o seqs[i]]

LEMMA JoinsExist ==
    ASSUME NEW S, NEW seqs \in Seq(Seq(S)), seqs # << >>
    PROVE  \E f : Joins(f, seqs) /\ FlattenSeq(seqs) = f[Len(seqs)]
<1> DEFINE Upto(n, f) == f = [i \in 1 .. n |-> IF i = 1 THEN seqs[i] ELSE f[i - 1] \o seqs[i]]
           G == {n \in Nat : n # 0 => \E f : Upto(n, f)}
<1>1. Len(seqs) \in Nat /\ Len(seqs) # 0
  OBVIOUS
<1>2. ASSUME NEW m \in Nat, m \in G PROVE m + 1 \in G
  <2> DEFINE n == m + 1
  <2>1. n \in Nat /\ n # 0 /\ (n # 1 => m # 0) /\ n - 1 = m
    OBVIOUS
  <2>2. PICK f : n # 1 => Upto(m, f)
    BY <1>2, <2>1
  <2> DEFINE g == [i \in 1 .. n |-> IF i < n THEN f[i]
                                    ELSE IF i = 1 THEN seqs[i] ELSE f[i - 1] \o seqs[i]]
  <2>3. \A i \in 1 .. n : g[i] = IF i = 1 THEN seqs[i] ELSE g[i - 1] \o seqs[i]
    <3>1. n # 1 => \A i \in 1 .. m : f[i] = IF i = 1 THEN seqs[i] ELSE f[i - 1] \o seqs[i]
      BY <2>1, <2>2
    <3>2. ASSUME NEW i \in 1 .. n PROVE  i # 1 => g[i - 1] = f[i - 1]
      BY <2>1
    <3>3. ASSUME NEW i \in 1 .. n, i < n
          PROVE  g[i] = IF i = 1 THEN seqs[i] ELSE f[i - 1] \o seqs[i]
      BY <2>1, <3>1, <3>3
    <3>4. g[n] = IF n = 1 THEN seqs[n] ELSE f[n - 1] \o seqs[n]
      BY <2>1
    <3> HIDE DEF g, n
    <3> QED BY <2>1, <3>2, <3>3, <3>4
  <2>4. Upto(n, g)
    BY <2>3
  <2> QED BY <2>1, <2>4
<1>3. Len(seqs) \in G
  <2>1. 0 \in G
    OBVIOUS
  <2> HIDE DEF G
  <2> QED BY <1>1, <1>2, <2>1, SetInduction
<1>4. \E f : Joins(f, seqs)
  BY <1>1, <1>3 DEF Joins
<1>5. PICK f : f = CHOOSE g : Joins(g, seqs)
  OBVIOUS
<1>6. FlattenSeq(seqs) = f[Len(seqs)]
  BY <1>1, <1>5 DEF FlattenSeq, Joins
<1> QED BY <1>4, <1>5, <1>6

LEMMA JoinedTwo ==
    ASSUME NEW S, NEW s \in Seq(S), NEW t \in Seq(S)
    PROVE  /\ s \o t \in Seq(S)
           /\ ToSet(s \o t) = ToSet(s) \cup ToSet(t)
           /\ IsInjective(s) /\ IsInjective(t) /\ ToSet(s) \cap ToSet(t) = {} => IsInjective(s \o t)
<1>1. /\ s \o t \in Seq(S) /\ DOMAIN (s \o t) = 1 .. Len(s) + Len(t)
      /\ DOMAIN s = 1 .. Len(s) /\ DOMAIN t = 1 .. Len(t) /\ Len(s) \in Nat /\ Len(t) \in Nat
      /\ \A i \in 1 .. Len(s) + Len(t) : (s \o t)[i] = IF i <= Len(s) THEN s[i] ELSE t[i - Len(s)]
  OBVIOUS
<1>2. \A i \in 1 .. Len(s) + Len(t) :
        \/ i \in DOMAIN s /\ (s \o t)[i] = s[i]
        \/ i > Len(s) /\ i - Len(s) \in DOMAIN t /\ (s \o t)[i] = t[i - Len(s)]
  BY <1>1
<1>3. /\ \A i \in DOMAIN s : i \in 1 .. Len(s) + Len(t) /\ (s \o t)[i] = s[i]
      /\ \A i \in DOMAIN t : /\ i + Len(s) \in 1 .. Len(s) + Len(t)
                             /\ (s \o t)[i + Len(s)] = t[i]
  BY <1>1
<1>4. ToSet(s \o t) = ToSet(s) \cup ToSet(t)
  <2>1. ASSUME NEW x \in ToSet(s \o t) PROVE x \in ToSet(s) \cup ToSet(t)
    BY <1>1, <1>2 DEF ToSet
  <2>2. ASSUME NEW i \in DOMAIN s PROVE s[i] \in ToSet(s \o t)
    BY <1>1, <1>3 DEF ToSet
  <2>3. ASSUME NEW i \in DOMAIN t PROVE t[i] \in ToSet(s \o t)
    <3>1. (s \o t)[i + Len(s)] = t[i] /\ i + Len(s) \in DOMAIN (s \o t)
      BY <1>1, <1>3
    <3> QED BY <3>1 DEF ToSet
  <2>4. \A x \in ToSet(s) : x \in ToSet(s \o t)
    BY <2>2 DEF ToSet
  <2>5. \A x \in ToSet(t) : x \in ToSet(s \o t)
    BY <2>3 DEF ToSet
  <2> QED BY <2>1, <2>4, <2>5
<1>5. ASSUME IsInjective(s), IsInjective(t), ToSet(s) \cap ToSet(t) = {},
             NEW j \in DOMAIN (s \o t), NEW k \in DOMAIN (s \o t), (s \o t)[j] = (s \o t)[k]
      PROVE  j = k
  <2>1. CASE j \in DOMAIN s /\ k \in DOMAIN s
    BY <1>1, <1>3, <1>5, <2>1 DEF IsInjective
  <2>2. CASE j \notin DOMAIN s /\ k \notin DOMAIN s
    <3>1. j - Len(s) = k - Len(s)
      BY <1>1, <1>2, <1>5, <2>2 DEF IsInjective
    <3> QED BY <1>1, <3>1
  <2>3. ASSUME NEW a \in DOMAIN s, NEW b \in DOMAIN (s \o t) \ DOMAIN s, (s \o t)[a] = (s \o t)[b]
        PROVE  FALSE
    <3>1. (s \o t)[a] \in ToSet(s) /\ (s \o t)[b] \in ToSet(t)
      BY <1>1, <1>2, <1>3, <2>3 DEF ToSet
    <3> QED BY <1>5, <2>3, <3>1
  <2> QED BY <1>5, <2>1, <2>2, <2>3
<1> QED BY <1>1, <1>4, <1>5 DEF IsInjective

LEMMA Flattened ==
    ASSUME NEW S, NEW seqs \in Seq(Seq(S))
    PROVE  /\ FlattenSeq(seqs) \in Seq(S)
           /\ ToSet(FlattenSeq(seqs)) = UNION {ToSet(seqs[i]) : i \in DOMAIN seqs}
           /\ /\ \A i \in DOMAIN seqs : IsInjective(seqs[i])
              /\ \A i, k \in DOMAIN seqs : i # k => ToSet(seqs[i]) \cap ToSet(seqs[k]) = {}
              => IsInjective(FlattenSeq(seqs))
<1>1. Len(seqs) \in Nat /\ DOMAIN seqs = 1 .. Len(seqs) /\ \A i \in DOMAIN seqs : seqs[i] \in Seq(S)
  OBVIOUS
<1>2. CASE seqs = << >>
  <2>1. FlattenSeq(seqs) = << >> /\ DOMAIN seqs = {}
    BY <1>2 DEF FlattenSeq
  <2> QED BY <2>1 DEF IsInjective, ToSet
<1>3. CASE seqs # << >>
  <2>1. PICK f : Joins(f, seqs) /\ FlattenSeq(seqs) = f[Len(seqs)]
    BY <1>3, JoinsExist
  <2>2. \A i \in DOMAIN seqs : f[i] = IF i = 1 THEN seqs[i] ELSE f[i - 1] \o seqs[i]
    BY <1>1, <2>1 DEF Joins
  <2> DEFINE Apart == /\ \A i \in DOMAIN seqs : IsInjective(seqs[i])
                      /\ \A i, k \in DOMAIN seqs : i # k => ToSet(seqs[i]) \cap ToSet(seqs[k]) = {}
             Good(n) == /\ f[n] \in Seq(S)
                        /\ ToSet(f[n]) = UNION {ToSet(seqs[i]) : i \in 1 .. n}
                        /\ Apart => IsInjective(f[n])
             G == {n \in Nat : n \in DOMAIN seqs => Good(n)}
  <2>3. 0 \in G
    BY <1>1
  <2>4. ASSUME NEW m \in Nat, m \in G PROVE m + 1 \in G
    <3> SUFFICES ASSUME m + 1 \in DOMAIN seqs PROVE Good(m + 1)
      OBVIOUS
    <3>1. CASE m = 0
      <4>1. f[1] = seqs[1] /\ m + 1 = 1 /\ 1 \in DOMAIN seqs
        BY <2>2, <3>1
      <4>2. 1 .. 1 = {1}
        OBVIOUS
      <4> QED BY <1>1, <4>1, <4>2
    <3>2. CASE m # 0
      <4>1. m \in DOMAIN seqs /\ m + 1 # 1 /\ (m + 1) - 1 = m /\ 1 .. m + 1 = (1 .. m) \cup {m + 1}
            /\ 1 .. m \subseteq DOMAIN seqs /\ m + 1 \notin 1 .. m
        BY <1>1, <3>2
      <4>2. f[m + 1] = f[m] \o seqs[m + 1] /\ Good(m)
        BY <2>2, <2>4, <4>1
      <4>3. f[m] \in Seq(S) /\ seqs[m + 1] \in Seq(S)
        BY <1>1, <4>2
      <4>4. f[m + 1] \in Seq(S) /\ ToSet(f[m + 1]) = ToSet(f[m]) \cup ToSet(seqs[m + 1])
        BY <4>2, <4>3, JoinedTwo
      <4>5. ToSet(f[m + 1]) = UNION {ToSet(seqs[i]) : i \in 1 .. m + 1}
        <5>1. ToSet(f[m]) = UNION {ToSet(seqs[i]) : i \in 1 .. m}
          BY <4>2
        <5> QED BY <4>1, <4>4, <5>1
      <4>6. ASSUME Apart PROVE IsInjective(f[m + 1])
        <5>1. ToSet(f[m]) = UNION {ToSet(seqs[i]) : i \in 1 .. m}
          BY <4>2
        <5>2. \A i \in 1 .. m : ToSet(seqs[i]) \cap ToSet(seqs[m + 1]) = {}
          BY <4>1, <4>6
        <5>3. ToSet(f[m]) \cap ToSet(seqs[m + 1]) = {}
          BY <5>1, <5>2
        <5>4. IsInjective(f[m]) /\ IsInjective(seqs[m + 1])
          BY <4>2, <4>6
        <5> QED BY <4>2, <4>3, <5>3, <5>4, JoinedTwo
      <4> QED BY <4>4, <4>5, <4>6
    <3> QED BY <3>1, <3>2
  <2>5. Len(seqs) \in G
    <3> HIDE DEF G
    <3> QED BY <1>1, <2>3, <2>4, SetInduction
  <2>6. Len(seqs) \in DOMAIN seqs
    BY <1>1, <1>3
  <2>7. Good(Len(seqs))
    BY <2>5, <2>6
  <2> QED BY <1>1, <2>1, <2>7
<1> QED BY <1>2, <1>3

\* A sequence without repetitions is as long as its set.
LEMMA SingleLength ==
    ASSUME NEW S, NEW s \in Seq(S), IsInjective(s)
    PROVE  Len(s) = Cardinality(ToSet(s))
<1>1. Len(s) \in Nat /\ DOMAIN s = 1 .. Len(s)
  OBVIOUS
<1>2. s \in Bijection(1 .. Len(s), ToSet(s))
  BY <1>1 DEF Bijection, Injection, Surjection, IsInjective, ToSet
<1> QED BY <1>1, <1>2, FS_CountingElements DEF ExistsBijection

\* Sequences of whatever they hold.
IsSeq(s) == s \in Seq(ToSet(s))

LEMMA SeqType == ASSUME NEW n \in Nat, NEW s, s = [i \in 1 .. n |-> s[i]] PROVE IsSeq(s)
<1>1. DOMAIN s = 1 .. n
  OBVIOUS
<1>2. \A i \in 1 .. n : s[i] \in ToSet(s)
  BY <1>1 DEF ToSet
<1> QED BY <1>2 DEF IsSeq

LEMMA SeqFacts ==
    ASSUME NEW s, IsSeq(s)
    PROVE  /\ Len(s) \in Nat /\ DOMAIN s = 1 .. Len(s)
           /\ \A T : ToSet(s) \subseteq T => s \in Seq(T)
<1> DEFINE S == ToSet(s)
<1>1. s \in Seq(S)
  BY DEF IsSeq
<1> HIDE DEF S
<1>2. Len(s) \in Nat /\ DOMAIN s = 1 .. Len(s)
  BY <1>1
<1>3. ASSUME NEW T, S \subseteq T PROVE s \in Seq(T)
  BY <1>1, <1>3
<1> QED BY <1>2, <1>3 DEF S

LEMMA FlattenedSeqs ==
    ASSUME NEW seqs, IsSeq(seqs), \A i \in DOMAIN seqs : IsSeq(seqs[i])
    PROVE  /\ IsSeq(FlattenSeq(seqs))
           /\ ToSet(FlattenSeq(seqs)) = UNION {ToSet(seqs[i]) : i \in DOMAIN seqs}
           /\ /\ \A i \in DOMAIN seqs : IsInjective(seqs[i])
              /\ \A i, k \in DOMAIN seqs : i # k => ToSet(seqs[i]) \cap ToSet(seqs[k]) = {}
              => IsInjective(FlattenSeq(seqs))
<1> DEFINE S == UNION {ToSet(seqs[i]) : i \in DOMAIN seqs}
<1>1. \A i \in DOMAIN seqs : ToSet(seqs[i]) \subseteq S
  OBVIOUS
<1> HIDE DEF S
<1>2. \A i \in DOMAIN seqs : seqs[i] \in Seq(S)
  BY <1>1, SeqFacts
<1>3. ToSet(seqs) \subseteq Seq(S)
  BY <1>2 DEF ToSet
<1>4. seqs \in Seq(Seq(S))
  BY <1>3, SeqFacts
<1>5. /\ FlattenSeq(seqs) \in Seq(S)
      /\ ToSet(FlattenSeq(seqs)) = UNION {ToSet(seqs[i]) : i \in DOMAIN seqs}
      /\ /\ \A i \in DOMAIN seqs : IsInjective(seqs[i])
         /\ \A i, k \in DOMAIN seqs : i # k => ToSet(seqs[i]) \cap ToSet(seqs[k]) = {}
         => IsInjective(FlattenSeq(seqs))
  BY <1>4, Flattened
<1>6. IsSeq(FlattenSeq(seqs))
  BY <1>5 DEF IsSeq, ToSet
<1> QED BY <1>5, <1>6

-----------------------------------------------------------------------------
(* The fields extracted *)

\* The fields a declaration stands for.
DeclaredBy(d) ==
    IF d.sort = "names" THEN {Field(d, j, <<>>, "") : j \in DOMAIN d.names}
    ELSE IF d.sort = "local"
    THEN UNION {{Field(Local[k], j, <<"Local">>, d.prefix)
                   : j \in DOMAIN Local[k].names} : k \in DOMAIN Local}
    ELSE {}

LEMMA Appended ==
    ASSUME NEW x, NEW y
    PROVE  /\ << >> \o <<x>> = <<x>>
           /\ Len(<<x>> \o <<y>>) = 2 /\ (<<x>> \o <<y>>)[2] = y
<1>1. <<x>> \in Seq({x, y}) /\ <<y>> \in Seq({x, y})
  OBVIOUS
<1>2. Len(<<x>> \o <<y>>) = 2
  BY <1>1, ConcatProperties
<1>3. (<<x>> \o <<y>>)[2] = y
  BY <1>1
<1> QED BY <1>1, <1>2, <1>3, ConcatEmptySeq

LEMMA ParsedFields ==
    ASSUME NEW d \in NameDeclarations
    PROVE  /\ IsSeq(ParseField(d)) /\ DOMAIN ParseField(d) = DOMAIN d.names
           /\ \A j \in DOMAIN d.names :
                /\ ParseField(d)[j] = Field(d, j, <<>>, "")
                /\ ParseField(d)[j].full = <<d.names[j]>>
                /\ ParseField(d)[j].col[2] # ""
<1>1. /\ d.names \in Seq(STRING \ {""})
      /\ DOMAIN d.names = 1 .. Len(d.names) /\ Len(d.names) \in Nat
      /\ \A j \in DOMAIN d.names : d.names[j] # ""
  <2>1. d.names \in Seq(STRING \ {""})
    BY DEF NameDeclarations
  <2>2. \A T : \A n \in Seq(T) : /\ DOMAIN n = 1 .. Len(n) /\ Len(n) \in Nat
                                  /\ \A j \in DOMAIN n : n[j] \in T
    OBVIOUS
  <2> DEFINE T == STRING \ {""}
  <2>3. \A x \in T : x # ""
    OBVIOUS
  <2> HIDE DEF T
  <2>4. /\ DOMAIN d.names = 1 .. Len(d.names) /\ Len(d.names) \in Nat
        /\ \A j \in DOMAIN d.names : d.names[j] \in T
    <3>1. d.names \in Seq(T)
      BY <2>1 DEF T
    <3> QED BY <2>2, <3>1
  <2> QED BY <2>1, <2>3, <2>4
<1>2. ASSUME NEW j \in DOMAIN d.names
      PROVE  /\ ParseField(d)[j] = Field(d, j, <<>>, "")
             /\ ParseField(d)[j].full = <<d.names[j]>>
             /\ ParseField(d)[j].col[2] # ""
  <2>1. << >> \o <<d.names[j]>> = <<d.names[j]>>
    BY Appended
  <2>2. CASE j = Len(d.names)
    BY <1>1, <2>1, <2>2 DEF ParseField, Field, Tagged
  <2>3. CASE j # Len(d.names)
    BY <1>1, <2>1, <2>3 DEF ParseField, Field, Tagged
  <2> QED BY <2>2, <2>3
<1>3. DOMAIN ParseField(d) = DOMAIN d.names
  BY DEF ParseField
<1>4. IsSeq(ParseField(d))
  <2> DEFINE s == ParseField(d)
             n == Len(d.names)
  <2>1. s = [j \in 1 .. n |-> s[j]]
    BY <1>1 DEF ParseField
  <2>2. n \in Nat
    BY <1>1
  <2> HIDE DEF s, n
  <2>3. IsSeq(s)
    BY <2>1, <2>2, SeqType
  <2> QED BY <2>3 DEF s
<1> QED BY <1>2, <1>3, <1>4

\* The fields of the struct embedded are those of its declarations.
Inner == FlattenSeq([i \in DOMAIN Local |-> ParseField(Local[i])])

LEMMA InnerFields ==
    /\ IsSeq(Inner)
    /\ ToSet(Inner) = UNION {{Field(Local[k], j, <<>>, "") : j \in DOMAIN Local[k].names}
                               : k \in DOMAIN Local}
    /\ \A x \in DOMAIN Inner : Inner[x].col[2] # "" /\ \E n : Inner[x].full = <<n>>
    /\ \A x, y \in DOMAIN Inner : Inner[x].full = Inner[y].full => x = y
<1> DEFINE parsedFields == [i \in DOMAIN Local |-> ParseField(Local[i])]
<1>1. /\ DOMAIN Local = 1 .. Len(Local) /\ Len(Local) \in Nat
      /\ \A i \in DOMAIN Local : Local[i] \in NameDeclarations
  <2>1. Local \in Seq(NameDeclarations)
    BY SourcesAssumption
  <2> QED BY <2>1
<1>2. \A i \in DOMAIN Local :
        /\ IsSeq(parsedFields[i]) /\ DOMAIN parsedFields[i] = DOMAIN Local[i].names
        /\ \A j \in DOMAIN Local[i].names :
             /\ parsedFields[i][j] = Field(Local[i], j, <<>>, "")
             /\ parsedFields[i][j].full = <<Local[i].names[j]>>
             /\ parsedFields[i][j].col[2] # ""
  BY <1>1, ParsedFields
<1>3. IsSeq(parsedFields) /\ DOMAIN parsedFields = DOMAIN Local
  <2>1. parsedFields = [i \in 1 .. Len(Local) |-> parsedFields[i]]
    BY <1>1
  <2> HIDE DEF parsedFields
  <2>2. IsSeq(parsedFields)
    BY <1>1, <2>1, SeqType
  <2> QED BY <1>1, <2>1, <2>2
<1>4. Inner = FlattenSeq(parsedFields)
  BY DEF Inner
<1> HIDE DEF parsedFields
<1>5. ASSUME NEW i \in DOMAIN Local
      PROVE  ToSet(parsedFields[i]) = {Field(Local[i], j, <<>>, "") : j \in DOMAIN Local[i].names}
  <2> DEFINE F(j) == Field(Local[i], j, <<>>, "")
  <2>1. DOMAIN parsedFields[i] = DOMAIN Local[i].names
        /\ \A j \in DOMAIN Local[i].names : parsedFields[i][j] = F(j)
    BY <1>2
  <2> HIDE DEF F
  <2>2. ToSet(parsedFields[i]) = {F(j) : j \in DOMAIN Local[i].names}
    BY <2>1 DEF ToSet
  <2> QED BY <2>2 DEF F
<1>6. \A i, k \in DOMAIN Local : \A j \in DOMAIN Local[i].names, l \in DOMAIN Local[k].names :
        Local[i].names[j] = Local[k].names[l] => i = k /\ j = l
  <2>1. \A i \in DOMAIN Local : Local[i].sort = "names"
    BY <1>1 DEF NameDeclarations
  <2> QED BY <2>1, SourcesAssumption DEF FieldsDistinct
<1>7. \A i, k \in DOMAIN Local : \A j \in DOMAIN parsedFields[i], l \in DOMAIN parsedFields[k] :
        parsedFields[i][j].full = parsedFields[k][l].full => i = k /\ j = l
  <2>1. \A i \in DOMAIN Local : \A j \in DOMAIN parsedFields[i] :
          j \in DOMAIN Local[i].names /\ parsedFields[i][j].full = <<Local[i].names[j]>>
    BY <1>2
  <2>2. \A x, y : <<x>> = <<y>> => x = y
    OBVIOUS
  <2> QED BY <1>6, <2>1, <2>2
<1>8. /\ \A i \in DOMAIN Local : IsInjective(parsedFields[i])
      /\ \A i, k \in DOMAIN Local : i # k => ToSet(parsedFields[i]) \cap ToSet(parsedFields[k]) = {}
  <2>1. \A i \in DOMAIN Local : IsInjective(parsedFields[i])
    BY <1>7 DEF IsInjective
  <2>2. ASSUME NEW i \in DOMAIN Local, NEW k \in DOMAIN Local, i # k,
               NEW e \in ToSet(parsedFields[i]), e \in ToSet(parsedFields[k])
        PROVE  FALSE
    <3>1. PICK j \in DOMAIN parsedFields[i] : e = parsedFields[i][j]
      BY DEF ToSet
    <3>2. PICK l \in DOMAIN parsedFields[k] : e = parsedFields[k][l]
      BY <2>2 DEF ToSet
    <3> QED BY <1>7, <2>2, <3>1, <3>2
  <2> QED BY <2>1, <2>2
<1>9. /\ IsSeq(Inner) /\ IsInjective(Inner)
      /\ ToSet(Inner) = UNION {ToSet(parsedFields[i]) : i \in DOMAIN Local}
  BY <1>2, <1>3, <1>4, <1>8, FlattenedSeqs
<1>10. \A x \in DOMAIN Inner :
         \E i \in DOMAIN Local : \E j \in DOMAIN parsedFields[i] : Inner[x] = parsedFields[i][j]
  <2>1. \A x \in DOMAIN Inner : Inner[x] \in ToSet(Inner)
    BY DEF ToSet
  <2> QED BY <1>9, <2>1 DEF ToSet
<1>11. ASSUME NEW x \in DOMAIN Inner, NEW y \in DOMAIN Inner, Inner[x].full = Inner[y].full
       PROVE  x = y
  <2>1. Inner[x] = Inner[y]
    BY <1>7, <1>10, <1>11
  <2> QED BY <1>9, <2>1 DEF IsInjective
<1>12. ASSUME NEW x \in DOMAIN Inner
       PROVE  Inner[x].col[2] # "" /\ \E n : Inner[x].full = <<n>>
  <2>1. PICK i \in DOMAIN Local : \E j \in DOMAIN parsedFields[i] : Inner[x] = parsedFields[i][j]
    BY <1>10
  <2>2. PICK j \in DOMAIN Local[i].names : Inner[x] = parsedFields[i][j]
    BY <1>2, <2>1
  <2> QED BY <1>2, <2>2
<1>13. ToSet(Inner) = UNION {{Field(Local[k], j, <<>>, "") : j \in DOMAIN Local[k].names}
                               : k \in DOMAIN Local}
  <2>1. {ToSet(parsedFields[k]) : k \in DOMAIN Local}
          = {{Field(Local[k], j, <<>>, "") : j \in DOMAIN Local[k].names} : k \in DOMAIN Local}
    BY <1>5
  <2> QED BY <1>9, <2>1
<1> QED BY <1>9, <1>11, <1>12, <1>13

LEMMA LocalFields ==
    ASSUME NEW d, d.sort = "local"
    PROVE  /\ IsSeq(ExtractDecl(d)) /\ IsInjective(ExtractDecl(d))
           /\ ToSet(ExtractDecl(d)) = DeclaredBy(d)
           /\ \A e \in ToSet(ExtractDecl(d)) : e.col[2] # "" /\ Len(e.full) = 2
<1> DEFINE s == ExtractDecl(d)
           Lifted(e) == [full |-> <<"Local">> \o e.full, col |-> <<d.prefix, e.col[2]>>,
                         flags |-> e.flags]
<1>1. s = [x \in DOMAIN Inner |-> Lifted(Inner[x])]
  BY DEF ExtractDecl, Inner
<1>2. Len(Inner) \in Nat /\ DOMAIN Inner = 1 .. Len(Inner)
  BY InnerFields, SeqFacts
<1> HIDE DEF s
<1>3. IsSeq(s) /\ DOMAIN s = DOMAIN Inner
  <2>1. s = [x \in 1 .. Len(Inner) |-> s[x]]
    BY <1>1, <1>2
  <2>2. IsSeq(s)
    BY <1>2, <2>1, SeqType
  <2> QED BY <1>1, <2>2
<1>4. \A x \in DOMAIN s : \E n : /\ Inner[x].full = <<n>>
                                 /\ Len(s[x].full) = 2 /\ s[x].full[2] = n
                                 /\ s[x].col[2] = Inner[x].col[2]
  <2>1. \A n : Len(<<"Local">> \o <<n>>) = 2 /\ (<<"Local">> \o <<n>>)[2] = n
    BY Appended
  <2> SUFFICES ASSUME NEW x \in DOMAIN s
               PROVE  \E n : /\ Inner[x].full = <<n>>
                             /\ Len(s[x].full) = 2 /\ s[x].full[2] = n
                             /\ s[x].col[2] = Inner[x].col[2]
    OBVIOUS
  <2>2. PICK n : Inner[x].full = <<n>>
    BY <1>3, InnerFields
  <2>3. s[x].full = <<"Local">> \o <<n>> /\ s[x].col = <<d.prefix, Inner[x].col[2]>>
    BY <1>1, <1>3, <2>2
  <2> QED BY <2>1, <2>2, <2>3
<1>5. IsInjective(s)
  <2>1. ASSUME NEW x \in DOMAIN s, NEW y \in DOMAIN s, s[x] = s[y]
        PROVE  Inner[x].full = Inner[y].full
    BY <1>4, <2>1
  <2> QED BY <1>3, <2>1, InnerFields DEF IsInjective
<1>6. ASSUME NEW e \in ToSet(s) PROVE e.col[2] # "" /\ Len(e.full) = 2
  <2>1. PICK x \in DOMAIN s : e = s[x]
    BY DEF ToSet
  <2> QED BY <1>3, <1>4, <2>1, InnerFields
<1>7. ToSet(s) = DeclaredBy(d)
  <2>1. ToSet(s) = {Lifted(e) : e \in ToSet(Inner)}
    BY <1>1 DEF ToSet
  <2>2. ASSUME NEW k \in DOMAIN Local, NEW j \in DOMAIN Local[k].names
        PROVE  Lifted(Field(Local[k], j, <<>>, "")) = Field(Local[k], j, <<"Local">>, d.prefix)
    <3>1. << >> \o <<Local[k].names[j]>> = <<Local[k].names[j]>>
      BY Appended
    <3> QED BY <3>1 DEF Field
  <2>3. DeclaredBy(d) = UNION {{Field(Local[k], j, <<"Local">>, d.prefix)
                                  : j \in DOMAIN Local[k].names} : k \in DOMAIN Local}
    BY DEF DeclaredBy
  <2> HIDE DEF Lifted
  <2>4. ToSet(Inner) = UNION {{Field(Local[k], j, <<>>, "") : j \in DOMAIN Local[k].names}
                               : k \in DOMAIN Local}
    BY InnerFields
  <2>5. ASSUME NEW e \in ToSet(s) PROVE e \in DeclaredBy(d)
    <3>1. PICK f \in ToSet(Inner) : e = Lifted(f)
      BY <2>1
    <3>2. PICK k \in DOMAIN Local : f \in {Field(Local[k], j, <<>>, "") : j \in DOMAIN Local[k].names}
      BY <2>4
    <3>3. PICK j \in DOMAIN Local[k].names : f = Field(Local[k], j, <<>>, "")
      BY <3>2
    <3>4. e = Field(Local[k], j, <<"Local">>, d.prefix)
      BY <2>2, <3>1, <3>3
    <3> QED BY <2>3, <3>4
  <2>6. ASSUME NEW e \in DeclaredBy(d) PROVE e \in ToSet(s)
    <3>1. PICK k \in DOMAIN Local : \E j \in DOMAIN Local[k].names :
            e = Field(Local[k], j, <<"Local">>, d.prefix)
      BY <2>3
    <3>2. PICK j \in DOMAIN Local[k].names : e = Field(Local[k], j, <<"Local">>, d.prefix)
      BY <3>1
    <3>3. PICK f : f = Field(Local[k], j, <<>>, "")
      OBVIOUS
    <3>4. e = Lifted(f)
      BY <2>2, <3>2, <3>3
    <3> DEFINE Of(i) == {Field(Local[i], l, <<>>, "") : l \in DOMAIN Local[i].names}
    <3>5. ToSet(Inner) = UNION {Of(i) : i \in DOMAIN Local}
      BY <2>4
    <3>6. f \in ToSet(Inner)
      <4>1. f \in Of(k)
        BY <3>3
      <4> HIDE DEF Of
      <4> QED BY <3>5, <4>1
    <3> QED BY <2>1, <3>4, <3>6
  <2> QED BY <2>5, <2>6
<1> QED BY <1>3, <1>5, <1>6, <1>7 DEF s

LEMMA NamedFields ==
    ASSUME NEW d \in NameDeclarations
    PROVE  /\ IsSeq(ExtractDecl(d)) /\ DOMAIN ExtractDecl(d) = DOMAIN d.names
           /\ ToSet(ExtractDecl(d)) = DeclaredBy(d)
           /\ \A j \in DOMAIN d.names :
                ExtractDecl(d)[j].full = <<d.names[j]>> /\ ExtractDecl(d)[j].col[2] # ""
<1>1. d.sort = "names"
  BY DEF NameDeclarations
<1>2. ExtractDecl(d) = ParseField(d)
  BY <1>1 DEF ExtractDecl
<1>3. DeclaredBy(d) = {Field(d, j, <<>>, "") : j \in DOMAIN d.names}
  BY <1>1 DEF DeclaredBy
<1>4. /\ IsSeq(ParseField(d)) /\ DOMAIN ParseField(d) = DOMAIN d.names
      /\ \A j \in DOMAIN d.names :
           /\ ParseField(d)[j] = Field(d, j, <<>>, "")
           /\ ParseField(d)[j].full = <<d.names[j]>>
           /\ ParseField(d)[j].col[2] # ""
  BY ParsedFields
<1>5. ToSet(ParseField(d)) = DeclaredBy(d)
  BY <1>3, <1>4 DEF ToSet
<1> QED BY <1>2, <1>4, <1>5

LEMMA NoFields ==
    ASSUME NEW d, d.sort \notin {"names", "local"}
    PROVE  IsSeq(ExtractDecl(d)) /\ DOMAIN ExtractDecl(d) = {} /\ DeclaredBy(d) = {}
<1>1. ExtractDecl(d) = << >> /\ DeclaredBy(d) = {}
  BY DEF ExtractDecl, DeclaredBy
<1>2. << >> \in Seq(ToSet(<< >>)) /\ DOMAIN << >> = {}
  OBVIOUS
<1> QED BY <1>1, <1>2 DEF IsSeq

\* What is extracted of a source is what its declarations stand for, each once
\* if it compiles.
LEMMA Extracts ==
    ASSUME NEW f \in Files, NEW s \in Texts[f]
    PROVE  /\ ToSet(Extract(s)) = Declared(s)
           /\ s.code = "fine" => Len(Extract(s)) = Cardinality(Declared(s))
           /\ \A x \in DOMAIN Extract(s) : Extract(s)[x].col[2] # ""
<1> DEFINE Part(i) == ExtractDecl(s.decls[i])
           parts == [i \in DOMAIN s.decls |-> Part(i)]
<1>1. /\ DOMAIN s.decls = 1 .. Len(s.decls) /\ Len(s.decls) \in Nat
      /\ \A i \in DOMAIN s.decls : s.decls[i] \in Declarations
      /\ s.code = "fine" => FieldsDistinct(s.decls)
  <2>1. s.decls \in Seq(Declarations) /\ (s.code = "fine" => FieldsDistinct(s.decls))
    BY SourcesAssumption
  <2>2. \A T : \A n \in Seq(T) : /\ DOMAIN n = 1 .. Len(n) /\ Len(n) \in Nat
                                 /\ \A j \in DOMAIN n : n[j] \in T
    OBVIOUS
  <2> QED BY <2>1, <2>2
<1>2. \A d \in Declarations : \/ d.sort = "names" /\ d \in NameDeclarations
                              \/ d.sort = "local"
                              \/ d.sort \notin {"names", "local"}
  BY DEF Declarations, NameDeclarations
<1>3. ASSUME NEW d \in Declarations
      PROVE  /\ IsSeq(ExtractDecl(d))
             /\ ToSet(ExtractDecl(d)) = DeclaredBy(d)
             /\ \A e \in ToSet(ExtractDecl(d)) : e.col[2] # ""
  <2>1. CASE d \in NameDeclarations
    BY <2>1, NamedFields DEF ToSet
  <2>2. CASE d.sort = "local"
    BY <2>2, LocalFields
  <2>3. CASE d.sort \notin {"names", "local"}
    BY <2>3, NoFields DEF ToSet
  <2> QED BY <1>2, <2>1, <2>2, <2>3
<1>4. Extract(s) = FlattenSeq(parts)
  BY DEF Extract
<1>5. /\ IsSeq(parts) /\ DOMAIN parts = DOMAIN s.decls
      /\ \A i \in DOMAIN s.decls : parts[i] = Part(i) /\ IsSeq(parts[i])
  <2>1. parts = [i \in 1 .. Len(s.decls) |-> parts[i]]
    BY <1>1
  <2>2. \A i \in DOMAIN s.decls : parts[i] = Part(i) /\ IsSeq(parts[i])
    BY <1>1, <1>3
  <2>3. DOMAIN parts = DOMAIN s.decls
    OBVIOUS
  <2> HIDE DEF parts
  <2>4. IsSeq(parts)
    BY <1>1, <2>1, SeqType
  <2> QED BY <2>2, <2>3, <2>4
<1> HIDE DEF parts
<1>6. /\ IsSeq(Extract(s))
      /\ ToSet(Extract(s)) = UNION {ToSet(parts[i]) : i \in DOMAIN s.decls}
      /\ /\ \A i \in DOMAIN s.decls : IsInjective(parts[i])
         /\ \A i, k \in DOMAIN s.decls : i # k => ToSet(parts[i]) \cap ToSet(parts[k]) = {}
         => IsInjective(Extract(s))
  BY <1>4, <1>5, FlattenedSeqs
<1>7. ToSet(Extract(s)) = Declared(s)
  <2>1. Declared(s) = UNION {DeclaredBy(s.decls[i]) : i \in DOMAIN s.decls}
    BY DEF Declared, DeclaredBy
  <2>2. \A i \in DOMAIN s.decls : ToSet(parts[i]) = DeclaredBy(s.decls[i])
    BY <1>1, <1>3, <1>5
  <2>3. {ToSet(parts[i]) : i \in DOMAIN s.decls} = {DeclaredBy(s.decls[i]) : i \in DOMAIN s.decls}
    BY <2>2
  <2> QED BY <1>6, <2>1, <2>3
<1>8. ASSUME NEW x \in DOMAIN Extract(s) PROVE Extract(s)[x].col[2] # ""
  <2>1. Extract(s)[x] \in ToSet(Extract(s))
    BY DEF ToSet
  <2>2. PICK i \in DOMAIN s.decls : Extract(s)[x] \in ToSet(parts[i])
    BY <1>6, <2>1
  <2> QED BY <1>1, <1>3, <1>5, <2>2
<1>9. ASSUME s.code = "fine"
      PROVE  IsInjective(Extract(s))
  <2>1. ASSUME NEW i \in DOMAIN s.decls
        PROVE  IsInjective(parts[i])
    <3>1. CASE s.decls[i].sort = "names" /\ s.decls[i] \in NameDeclarations
      <4>1. \A j, l \in DOMAIN s.decls[i].names : s.decls[i].names[j] = s.decls[i].names[l] => j = l
        BY <1>1, <1>9, <3>1 DEF FieldsDistinct
      <4>2. DOMAIN parts[i] = DOMAIN s.decls[i].names
            /\ \A j \in DOMAIN parts[i] : parts[i][j].full = <<s.decls[i].names[j]>>
        BY <1>5, <3>1, NamedFields
      <4>3. \A x, y : <<x>> = <<y>> => x = y
        OBVIOUS
      <4> QED BY <4>1, <4>2, <4>3 DEF IsInjective
    <3>2. CASE s.decls[i].sort = "local"
      BY <1>5, <3>2, LocalFields
    <3>3. CASE s.decls[i].sort \notin {"names", "local"}
      BY <1>5, <3>3, NoFields DEF IsInjective
    <3> QED BY <1>1, <1>2, <3>1, <3>2, <3>3
  <2>2. ASSUME NEW i \in DOMAIN s.decls, NEW e \in ToSet(parts[i])
        PROVE  \/ /\ s.decls[i].sort = "names" /\ Len(e.full) = 1
                  /\ \E j \in DOMAIN s.decls[i].names : e.full = <<s.decls[i].names[j]>>
               \/ s.decls[i].sort = "local" /\ Len(e.full) = 2
    <3>1. CASE s.decls[i].sort = "names" /\ s.decls[i] \in NameDeclarations
      <4>1. PICK j \in DOMAIN parts[i] : e = parts[i][j]
        BY DEF ToSet
      <4>2. j \in DOMAIN s.decls[i].names /\ parts[i][j].full = <<s.decls[i].names[j]>>
        BY <1>5, <3>1, <4>1, NamedFields
      <4> QED BY <3>1, <4>1, <4>2
    <3>2. CASE s.decls[i].sort = "local"
      BY <1>5, <3>2, LocalFields
    <3>3. CASE s.decls[i].sort \notin {"names", "local"}
      BY <1>5, <3>3, NoFields DEF ToSet
    <3> QED BY <1>1, <1>2, <3>1, <3>2, <3>3
  <2>3. ASSUME NEW i \in DOMAIN s.decls, NEW k \in DOMAIN s.decls, i # k,
               NEW e \in ToSet(parts[i]), e \in ToSet(parts[k])
        PROVE  FALSE
    <3>1. CASE Len(e.full) = 1
      <4>1. s.decls[i].sort = "names" /\ s.decls[k].sort = "names"
        BY <2>2, <2>3, <3>1
      <4>2. PICK j \in DOMAIN s.decls[i].names : e.full = <<s.decls[i].names[j]>>
        BY <2>2, <3>1
      <4>3. PICK l \in DOMAIN s.decls[k].names : e.full = <<s.decls[k].names[l]>>
        BY <2>2, <2>3, <3>1
      <4>4. s.decls[i].names[j] = s.decls[k].names[l]
        BY <4>2, <4>3
      <4> QED BY <1>1, <1>9, <2>3, <4>1, <4>4 DEF FieldsDistinct
    <3>2. CASE Len(e.full) # 1
      <4>1. s.decls[i].sort = "local" /\ s.decls[k].sort = "local"
        BY <2>2, <2>3, <3>2
      <4> QED BY <1>1, <1>9, <2>3, <4>1 DEF FieldsDistinct
    <3> QED BY <3>1, <3>2
  <2> QED BY <1>6, <2>1, <2>3
<1>10. s.code = "fine" => Len(Extract(s)) = Cardinality(Declared(s))
  BY <1>6, <1>7, <1>9, SingleLength DEF IsSeq
<1> QED BY <1>7, <1>8, <1>10

-----------------------------------------------------------------------------
(* What is generated *)

\* Only what compiles is loaded.
LoadedInv == Running => \A f \in input : parsed[f] \in Texts[f] /\ parsed[f].code = "fine"

\* What a run generates is extracted from what it loaded.
WrittenInv ==
    \A f \in Files :
      gen[f].form \in {"raw", "done"} /\ gen[f].run = runs =>
      /\ gen[f].fields = Extract(parsed[f])
      /\ parsed[f] \in Texts[f] /\ parsed[f].code = "fine"

GInv == IInv /\ DOMAIN src = Files /\ TypeInv /\ LoadedInv /\ WrittenInv

LEMMA InitGenerated == Init => GInv
<1> SUFFICES ASSUME Init PROVE GInv
  OBVIOUS
<1>1. IInv /\ ~Running
  BY InitInv DEF Init, Running
<1>2. DOMAIN src = Files /\ \A f \in Files : src[f] \in Texts[f]
  BY DEF Init
<1>3. \A f \in Files : /\ gen[f].form = "absent" /\ gen[f].run = 0
                       /\ DOMAIN gen[f].fields = {}
  BY DEF Init, Absent
<1>4. TypeInv
  <2>1. /\ badName \in BadNames /\ edits = 0 /\ runs = 0 /\ pc = "idle"
        /\ input = {} /\ todo = {} /\ answer = "none"
    BY DEF Init
  <2>2. 0 \in 0 .. MaxEdits /\ 0 \in 0 .. MaxRuns /\ 0 \in 0 .. 0
    OBVIOUS
  <2>3. \A f \in Files : /\ src[f] \in Texts[f]
                         /\ gen[f].form \in Forms /\ gen[f].run \in 0 .. runs
                         /\ \A i \in DOMAIN gen[f].fields : gen[f].fields[i].col[2] # ""
    BY <1>2, <1>3, <2>1, <2>2 DEF Forms
  <2> QED BY <2>1, <2>2, <2>3 DEF TypeInv
<1> QED BY <1>1, <1>2, <1>3, <1>4 DEF GInv, LoadedInv, WrittenInv

\* A step that leaves the generated files and what was loaded.
LEMMA NothingGenerated ==
    ASSUME GInv, IInv', UNCHANGED <<src, gen, badName, edits, runs, input, parsed>>,
           Running' => Running, todo' # {} => Running',
           answer' \in {"none", "ok", "refused", "failed"}
    PROVE  GInv'
<1>1. pc' \in {"idle", "load", "extract", "write", "format"} /\ (Running' => todo' \subseteq input')
  BY DEF IInv, Shape, Progress
<1>2. TypeInv'
  BY <1>1 DEF GInv, TypeInv, Running
<1>3. LoadedInv' /\ WrittenInv'
  BY DEF GInv, LoadedInv, WrittenInv
<1> QED BY <1>2, <1>3 DEF GInv

\* A step that writes a file.
LEMMA SomethingGenerated ==
    ASSUME GInv, IInv', NEW form \in {"raw", "torn", "done"}, Written(form), Running, todo # {},
           UNCHANGED <<src, badName, edits, runs, input, parsed>>,
           todo' # {} => Running', answer' \in {"none", "ok", "refused", "failed"}
    PROVE  GInv'
<1>1. pc' \in {"idle", "load", "extract", "write", "format"} /\ (Running' => todo' \subseteq input')
  BY DEF IInv, Shape, Progress
<1>2. /\ Current \in Files /\ Current \in todo /\ todo \subseteq input
      /\ DOMAIN gen = Files /\ DOMAIN gen' = Files
      /\ \A f \in Files \ {Current} : gen'[f] = gen[f]
  BY CurrentKnown, WrittenKeeps DEF GInv, IInv, Shape, Progress
<1>3. gen'[Current] = [form |-> form, fields |-> Extract(parsed[Current]), run |-> runs]
  BY <1>2 DEF Written, GeneratedFilePath
<1>4. parsed[Current] \in Texts[Current] /\ parsed[Current].code = "fine"
  BY <1>2 DEF GInv, LoadedInv
<1>5. runs \in Nat /\ runs \in 0 .. runs
  BY DEF GInv, IInv, Shape
<1>6. \A f \in Files : /\ gen'[f].form \in Forms /\ gen'[f].run \in 0 .. runs
                       /\ \A i \in DOMAIN gen'[f].fields : gen'[f].fields[i].col[2] # ""
  <2>1. \A i \in DOMAIN Extract(parsed[Current]) : Extract(parsed[Current])[i].col[2] # ""
    BY <1>2, <1>4, Extracts
  <2>2. /\ gen'[Current].form = form /\ gen'[Current].run = runs
        /\ gen'[Current].fields = Extract(parsed[Current])
    BY <1>3
  <2>3. /\ gen'[Current].form \in Forms /\ gen'[Current].run \in 0 .. runs
        /\ \A i \in DOMAIN gen'[Current].fields : gen'[Current].fields[i].col[2] # ""
    BY <1>5, <2>1, <2>2 DEF Forms
  <2> QED BY <1>2, <2>3 DEF GInv, TypeInv
<1>7. TypeInv'
  BY <1>1, <1>6 DEF GInv, TypeInv, Running
<1>8. LoadedInv'
  BY DEF GInv, LoadedInv
<1>9. WrittenInv'
  BY <1>2, <1>3, <1>4 DEF GInv, WrittenInv
<1> QED BY <1>7, <1>8, <1>9 DEF GInv

LEMMA NextGenerated == ASSUME GInv, [Next]_vars PROVE GInv'
<1>1. IInv'
  BY NextInv DEF GInv
<1>2. /\ runs \in Nat /\ MaxRuns \in Nat /\ MaxEdits \in Nat
      /\ edits \in 0 .. MaxEdits /\ runs \in 0 .. MaxRuns
      /\ todo # {} => Running
  BY DEF GInv, TypeInv, IInv, Shape, Running
<1>3. CASE UNCHANGED vars
  <2>1. UNCHANGED <<src, gen, badName, edits, runs, input, parsed, pc, todo, answer>>
    BY <1>3 DEF vars
  <2>2. Running' = Running /\ answer' \in {"none", "ok", "refused", "failed"}
    BY <2>1 DEF Running, GInv, TypeInv
  <2> QED BY <1>1, <1>2, <2>1, <2>2, NothingGenerated
<1>4. ASSUME NEW f \in Files, Edit(f) PROVE GInv'
  <2>1. UNCHANGED <<gen, badName, runs, pc, input, parsed, todo, answer>>
    BY <1>4 DEF Edit
  <2>2. edits' \in 0 .. MaxEdits
    BY <1>2, <1>4 DEF Edit
  <2>3. DOMAIN src' = Files /\ \A g \in Files : src'[g] \in Texts[g]
    BY <1>4 DEF Edit, GInv, TypeInv
  <2>4. TypeInv'
    BY <2>1, <2>2, <2>3 DEF GInv, TypeInv
  <2>5. LoadedInv' /\ WrittenInv'
    BY <2>1 DEF GInv, LoadedInv, WrittenInv, Running
  <2> QED BY <1>1, <2>3, <2>4, <2>5 DEF GInv
<1>5. ASSUME NEW args \in SUBSET Files, Run(args) PROVE GInv'
  <2>1. /\ pc = "idle" /\ runs < MaxRuns /\ runs' = runs + 1 /\ pc' = "load" /\ input' = args
        /\ answer' = "none" /\ UNCHANGED <<src, gen, badName, edits, parsed, todo>>
    BY <1>5 DEF Run
  <2>2. /\ runs' \in 0 .. MaxRuns /\ todo' = {} /\ ~Running'
        /\ \A n \in 0 .. runs : n \in 0 .. runs' /\ n # runs'
    BY <1>2, <2>1 DEF Running
  <2>3. TypeInv'
    BY <2>1, <2>2 DEF GInv, TypeInv
  <2>4. LoadedInv' /\ WrittenInv'
    BY <2>1, <2>2 DEF GInv, TypeInv, LoadedInv, WrittenInv
  <2> QED BY <1>1, <2>1, <2>3, <2>4 DEF GInv
<1>6. ASSUME pc = "load", parsed' = src, UNCHANGED <<src, gen, badName, edits, runs, input>>
      PROVE  WrittenInv'
  BY <1>6 DEF GInv, IInv, Fresh, Shape, WrittenInv
<1>7. CASE Load
  <2>1. /\ pc = "load" /\ pc' = "extract" /\ parsed' = src
        /\ UNCHANGED <<src, gen, badName, edits, runs, input, answer>>
        /\ CanLoad(ArgsToFiles(input))
    BY <1>7 DEF Load
  <2>2. ASSUME NEW f \in input
        PROVE  src[f] \in Texts[f] /\ src[f].code = "fine"
    <3> DEFINE n == [f |-> f, sort |-> "source"]
    <3>1. f \in Files
      BY DEF GInv, IInv, Shape
    <3>2. n \in ArgsToFiles(input)
      BY <3>1 DEF ArgsToFiles, Names, Exists, IsValidFile
    <3>3. Compiles(n, ArgsToFiles(input))
      BY <2>1, <3>2 DEF CanLoad
    <3> QED BY <3>1, <3>3 DEF Compiles, GInv, TypeInv
  <2>3. TypeInv'
    <3>1. Running' /\ todo' \subseteq input'
      BY <1>1, <2>1 DEF IInv, Progress, Running
    <3> QED BY <2>1, <3>1 DEF GInv, TypeInv
  <2>4. LoadedInv'
    BY <2>1, <2>2 DEF LoadedInv
  <2> QED BY <1>1, <1>6, <2>1, <2>3, <2>4 DEF GInv
<1>8. CASE LoadFails
  <2>1. /\ pc = "load" /\ pc' = "idle" /\ parsed' = src /\ answer' = "refused"
        /\ UNCHANGED <<src, gen, badName, edits, runs, input, todo>>
    BY <1>8 DEF LoadFails
  <2>2. todo' = {} /\ ~Running'
    BY <1>2, <2>1 DEF Running
  <2>3. TypeInv' /\ LoadedInv'
    BY <2>1, <2>2 DEF GInv, TypeInv, LoadedInv
  <2> QED BY <1>1, <1>6, <2>1, <2>3 DEF GInv
<1>9. CASE Extracted
  <2>1. /\ Running /\ Running' /\ UNCHANGED <<src, gen, badName, edits, runs, input, parsed, answer>>
    BY <1>9 DEF Extracted, Running
  <2>2. answer' \in {"none", "ok", "refused", "failed"}
    BY <2>1 DEF GInv, TypeInv
  <2> QED BY <1>1, <2>1, <2>2, NothingGenerated
<1>10. ASSUME NEW result \in {"ok", "failed"}, End(result), UNCHANGED gen
       PROVE  GInv'
  <2>1. /\ ~Running' /\ todo' = {} /\ answer' \in {"none", "ok", "refused", "failed"}
        /\ UNCHANGED <<src, gen, badName, edits, runs, input, parsed>>
    BY <1>10 DEF End, Running
  <2> QED BY <1>1, <2>1, NothingGenerated
<1>11. CASE \/ ExtractFails \/ Crash \/ Done
            \/ (WriteFileFails \/ FormatFails) /\ UNCHANGED gen
  <2>1. \E result \in {"ok", "failed"} : End(result) /\ UNCHANGED gen
    BY <1>11 DEF ExtractFails, FormatFails, Crash, Done, WriteFileFails
  <2> QED BY <1>10, <2>1
<1>12. pc \in {"write", "format"} => Running /\ todo # {}
  BY DEF GInv, IInv, Progress, Running
<1>13. CASE (WriteFileFails \/ FormatFails) /\ gen' # gen
  <2>1. pc \in {"write", "format"} /\ Written("torn") /\ End("failed")
    BY <1>13 DEF WriteFileFails, FormatFails
  <2>2. /\ ~Running' /\ todo' = {} /\ answer' \in {"none", "ok", "refused", "failed"}
        /\ UNCHANGED <<src, badName, edits, runs, input, parsed>>
    BY <2>1 DEF End, Running
  <2> QED BY <1>1, <1>12, <2>1, <2>2, SomethingGenerated
<1>14. CASE WriteFile \/ Format
  <2>1. /\ pc \in {"write", "format"} /\ Running'
        /\ \E form \in {"raw", "torn", "done"} : Written(form)
        /\ UNCHANGED <<src, badName, edits, runs, input, parsed, answer>>
    BY <1>14 DEF WriteFile, Format, Running
  <2>2. answer' \in {"none", "ok", "refused", "failed"}
    BY <2>1 DEF GInv, TypeInv
  <2> QED BY <1>1, <1>12, <2>1, <2>2, SomethingGenerated
<1>15. CASE Next
  BY <1>15, <1>4, <1>5, <1>7, <1>8, <1>9, <1>11, <1>13, <1>14 DEF Next
<1> QED BY <1>3, <1>15

\* The types; every field of a generated file has a column.
THEOREM LormGenTypes == Spec => []TypeInv
<1>1. GInv /\ [Next]_vars => GInv'
  BY NextGenerated
<1>2. GInv => TypeInv
  BY DEF GInv
<1> QED BY InitGenerated, <1>1, <1>2, PTL DEF Spec

\* A generated file has the fields of the source it was made from, each once,
\* under the columns and with the flags its tags say.
THEOREM FilesDescribeSources == Spec => []DescribesSource
<1>1. GInv /\ [Next]_vars => GInv'
  BY NextGenerated
<1>2. GInv => DescribesSource
  BY Extracts DEF GInv, WrittenInv, DescribesSource
<1> QED BY InitGenerated, <1>1, <1>2, PTL DEF Spec
=============================================================================
