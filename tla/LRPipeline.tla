----------------------------- MODULE LRPipeline -----------------------------
(***************************************************************************)
(* The generator and the parser end to end: compiler.cpp runs              *)
(* GrammarAnalysis::build_kfirst, then Builder::build on its k_first; the  *)
(* Exporter writes the tables, parser.cpp loads them with the Importer and *)
(* RuntimeParser::parse reads one input on the tables it loaded.  The file  *)
(* may lose up to MaxLost trailing fields: export_to_file never checks     *)
(* that its writes succeeded.                                              *)
(***************************************************************************)
EXTENDS LRReference

CONSTANTS
    InputSymbols,  \* the symbol ids the input words are made of
    MaxInput,      \* the longest input word
    Names,         \* Grammar::_id2view, the exported symbol names
    GARBAGE,       \* an uninitialised value read past the end of the file
    MaxLost        \* the most trailing fields the table file may lack

VARIABLES
    phase,                              \* "first", "build", "parse"
    k_first, fworklist, fcheck,         \* GrammarAnalysis
    table_, goto_, action_, bworklist, bstatus,   \* Builder
    loaded,                             \* the RuntimeParser Importer::load filled
    text, index, memory, result, table, pstatus   \* RuntimeParser::parse

first_vars == <<k_first, fworklist, fcheck>>
build_vars == <<table_, goto_, action_, bworklist, bstatus>>
parse_vars == <<text, index, memory, result, table, pstatus>>
vars == <<phase, first_vars, build_vars, loaded, parse_vars>>

F == INSTANCE FirstK WITH worklist <- fworklist, worklist_double_entry_check <- fcheck
B == INSTANCE LRBuilder WITH worklist <- bworklist, status <- bstatus
C == INSTANCE Codec
R == INSTANCE LRRuntime WITH goto_ <- loaded.goto, action_ <- loaded.action

\* Every word of at most MaxInput tokens over InputSymbols.
Inputs == UNION {[1..n -> InputSymbols] : n \in 0..MaxInput}

\* The inputs in L(S), by the reference definition (a constant).
Language == {w \in Inputs : R!InLanguage(w)}

\* Before build() and parse() run, the tables are empty and nothing parses.
Init ==
    /\ phase = "first"
    /\ F!Init
    /\ B!BuilderInit
    /\ loaded = C!Parser("none", <<>>, <<>>, <<>>, <<>>)
    /\ text = <<>> /\ index = 0 /\ memory = <<>> /\ result = <<>>
    /\ table = 0 /\ pstatus = "idle"

FirstStep ==
    /\ phase = "first"
    /\ F!Next
    /\ UNCHANGED <<phase, build_vars, loaded, parse_vars>>

\* build_kfirst() returned; the Builder is constructed.
StartBuild ==
    /\ phase = "first"
    /\ fworklist = <<>>
    /\ phase' = "build"
    /\ UNCHANGED <<first_vars, build_vars, loaded, parse_vars>>

BuildStep ==
    /\ phase = "build"
    /\ B!BuildNext
    /\ UNCHANGED <<phase, first_vars, loaded, parse_vars>>

\* compiler.cpp exports the built tables; parser.cpp loads the file, which
\* holds all that was written or lacks up to MaxLost trailing fields.
ExportLoad ==
    /\ phase = "build"
    /\ bstatus = "built"
    /\ phase' = "load"
    /\ \E st \in {C!serialize(goto_, action_)} :
          \E n \in (Len(st) - MaxLost)..Len(st) :
             loaded' \in IF n = Len(st) THEN {C!load(st)} ELSE C!TruncatedLoad(n)
    /\ UNCHANGED <<first_vars, build_vars, parse_vars>>

\* load returned, and parse() starts on some input.
StartParse ==
    /\ phase = "load"
    /\ loaded.status = "returned"
    /\ phase' = "parse"
    /\ \E w \in Inputs : R!ParseStart(w)
    /\ UNCHANGED <<first_vars, build_vars, loaded>>

ParseStep ==
    /\ phase = "parse"
    /\ UNCHANGED <<phase, first_vars, build_vars, loaded>>
    /\ R!ParseStep

Next == FirstStep \/ StartBuild \/ BuildStep \/ ExportLoad \/ StartParse \/ ParseStep

\* The step from generating to loading, told apart by its phase change.
\* Every Next step that satisfies it is an ExportLoad step, and it is
\* enabled exactly when ExportLoad is, and it always changes phase, so weak
\* fairness on it and on the other actions is WF_vars(Next).  Stated this
\* way the liveness checker need not re-evaluate the importer on every
\* transition.
LoadStarted == phase = "build" /\ bstatus = "built" /\ phase' = "load"

\* Each stage is one sequential loop that runs as long as it can.
Spec ==
    /\ Init /\ [][Next]_vars
    /\ WF_vars(FirstStep \/ StartBuild \/ BuildStep \/ StartParse \/ ParseStep)
    /\ WF_phase(LoadStarted)

-----------------------------------------------------------------------------
ParseStatuses == {"idle", "parsing", "accepted", "syntax_error", "out_of_range", "length_error"}
ParseEnded == pstatus \notin {"idle", "parsing"}

TypeOK ==
    /\ phase \in {"first", "build", "load", "parse"}
    /\ loaded.status \in {"none", "returned", "k_mismatch", "threw"}
    /\ F!TypeOK
    /\ B!TypeOK
    /\ pstatus \in ParseStatuses
    /\ text \in Seq(InputSymbols)
    /\ index \in 0..(Len(text) + 1)
    /\ memory \in Seq(Int)
    /\ result \in Seq(Rules)

\* While parse() runs, memory is a path of the automaton: it starts at state
\* 0, alternates states and symbols, each state is the GOTO of the one two
\* below it on the symbol between them in the loaded goto_, and `table` is
\* the top.  REDUCE's
\* resize and its memory.back() rely on exactly this shape.
StackIsGotoPath ==
    pstatus = "parsing" =>
        /\ Len(memory) % 2 = 1
        /\ memory[1] = 0
        /\ table = memory[Len(memory)]
        /\ \A i \in 1..((Len(memory) - 1) \div 2) :
              /\ memory[2 * i] \in DOMAIN loaded.goto[memory[2 * i - 1]]
              /\ memory[2 * i + 1] = loaded.goto[memory[2 * i - 1]][memory[2 * i]]

\* Whenever Importer::load returns normally, the parser holds exactly what
\* the generator exported: the names by id, the productions and both
\* tables.  Breaking it takes serialize and load disagreeing on a field,
\* a view or span taken at the wrong offset of the shared buffers, or a
\* file that ended early without load noticing.
LoadedIsExported ==
    (phase \in {"load", "parse"} /\ loaded.status = "returned") =>
        /\ loaded.id2view = Names
        /\ loaded.prod = Prods
        /\ loaded.goto = goto_
        /\ loaded.action = action_

\* Every input parse() accepts is a word of terminals and the rules it
\* returns are a right-most derivation of that word, in reverse.
ParseSound ==
    pstatus = "accepted" => R!IsRightmostDerivation(result, text)

\* parse() accepts exactly the words of the language: no word of L(S) ends
\* in an error, and no other word is accepted.
ParseComplete ==
    ParseEnded => (pstatus = "accepted" <=> text \in Language)

\* On the tables of a successful build, parse() only ever fails with its
\* own syntax error: no goto_.at miss and no size_t wrap in memory.resize.
NoRuntimeFault ==
    pstatus \notin {"out_of_range", "length_error"}

\* Generation and parsing end: build_kfirst and build() empty their
\* worklists, and the parse loop (whose REDUCE steps do not advance index)
\* cannot run forever on an LR(k) table.
PipelineTerminates ==
    <>(bstatus = "conflict" \/ ParseEnded)
=============================================================================
