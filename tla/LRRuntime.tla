------------------------------ MODULE LRRuntime ------------------------------
(***************************************************************************)
(* RuntimeParser<Lookahead>::parse (src/lr-k/include/runtime_parser.hpp)   *)
(* on loaded GOTO/ACTION tables.  One step is one iteration of the parse   *)
(* loop.  Every way the loop can leave is a status: "accepted" (the loop   *)
(* condition fails after ACCEPT), "syntax_error" (the runtime_error thrown  *)
(* three times in the loop), "out_of_range" (goto_[table].at misses) and   *)
(* "length_error" (memory.resize to a size_t that wrapped below zero).     *)
(* The tokens are symbol ids: Tokenizer::tokenize maps every name of the   *)
(* exported symbol list, nonterminals and S_0 included, to its id.         *)
(***************************************************************************)
EXTENDS LRReference, LRAction

VARIABLES
    goto_,    \* loaded table: state |-> (symbol |-> state), read only
    action_,  \* loaded table: state |-> (KString |-> Action), read only
    text,     \* input_text_tokenized
    index,    \* the loop index into text (0-based)
    memory,   \* std::vector<int64_t>: state, symbol, state, ..., state
    result,   \* the rule ids emitted by REDUCE
    table,    \* the current state
    pstatus   \* "parsing" or how parse() ended

parse_vars == <<text, index, memory, result, table, pstatus>>

\* current_lookahead: the next K tokens, fewer near the end of the input.
CurrentLookaheadShort ==
    SubSeq(text, index + 1, IF index + K - 1 < Len(text) THEN index + K - 1 ELSE Len(text))
CurrentLookahead ==
    SubSeq(text, index + 1, IF index + K < Len(text) THEN index + K ELSE Len(text))

CurrentAction == action_[table][CurrentLookahead]
HasAction == CurrentLookahead \in DOMAIN action_[table]

\* Start of parse(): table 0, memory {0}, nothing emitted.
ParseStart(w) ==
    /\ text' = w
    /\ index' = 0
    /\ memory' = <<0>>
    /\ result' = <<>>
    /\ table' = 0
    /\ pstatus' = "parsing"

Parsing == pstatus = "parsing"

\* index == input_text_tokenized.size(): all input consumed.
AtEndOffByOne == index + 1 >= Len(text)
AtEnd == index = Len(text)

\* No entry for the lookahead, SHIFT at the end of the input, or ACCEPT
\* before it: "Syntax error at token <index>".
SyntaxError ==
    /\ Parsing
    /\ \/ ~HasAction
       \/ HasAction /\ CurrentAction = SHIFT /\ AtEnd
       \/ HasAction /\ CurrentAction = ACCEPT /\ ~AtEnd
    /\ pstatus' = "syntax_error"
    /\ UNCHANGED <<goto_, action_, text, index, memory, result, table>>

\* The same, pushing `table` before it is reassigned.
ShiftPushOld ==
    /\ Parsing /\ HasAction /\ CurrentAction = SHIFT
    /\ ~AtEnd
    /\ LET tok == text[index + 1]
       IN  IF tok \in DOMAIN goto_[table]
           THEN /\ table' = goto_[table][tok]
                /\ memory' = memory \o <<tok, table>>
                /\ index' = index + 1
                /\ UNCHANGED pstatus
           ELSE /\ pstatus' = "out_of_range"
                /\ memory' = Append(memory, tok)
                /\ UNCHANGED <<index, table>>
    /\ UNCHANGED <<goto_, action_, text, result>>

\* SHIFT: push the token, then goto_[table].at(token) and push the state.
Shift ==
    /\ Parsing /\ HasAction /\ CurrentAction = SHIFT
    /\ ~AtEnd
    /\ LET tok == text[index + 1]
       IN  IF tok \in DOMAIN goto_[table]
           THEN /\ table' = goto_[table][tok]
                /\ memory' = memory \o <<tok, goto_[table][tok]>>
                /\ index' = index + 1
                /\ UNCHANGED pstatus
           ELSE /\ pstatus' = "out_of_range"
                /\ memory' = Append(memory, tok)
                /\ UNCHANGED <<index, table>>
    /\ UNCHANGED <<goto_, action_, text, result>>

\* memory.resize(memory.size() - 2 * |rhs|) with size_t arithmetic: a
\* wrapped size is larger than max_size() and resize throws length_error.
PopLenExtraPair(r) == 2 * Len(Rhs(r)) + 2
PopLenHalf(r) == Len(Rhs(r))
PopLen(r) == 2 * Len(Rhs(r))

\* result.push_back(prod_num).
EmitFront(res, r) == <<r>> \o res
Emit(res, r) == Append(res, r)

\* The rule of the REDUCE, the memory left by the resize and the state
\* memory.back() then reads.
ReduceRule == RuleOf(CurrentAction)
Kept == SubSeq(memory, 1, Len(memory) - PopLen(ReduceRule))
ExposedBeforeResize == memory[Len(memory)]
Exposed == Kept[Len(Kept)]

\* REDUCE r: emit r, pop |rhs| symbol/state pairs, read the exposed state,
\* push lhs, goto_[state].at(lhs) and push the new state.
ReduceStep ==
    /\ Parsing /\ HasAction /\ IsReduce(CurrentAction)
    /\ result' = Emit(result, ReduceRule)
    /\ LET lhs == Prods[ReduceRule].lhs
       IN  IF PopLen(ReduceRule) > Len(memory)
           THEN /\ pstatus' = "length_error"
                /\ UNCHANGED <<memory, table>>
           ELSE IF lhs \in DOMAIN goto_[Exposed]
           THEN /\ table' = goto_[Exposed][lhs]
                /\ memory' = Kept \o <<lhs, goto_[Exposed][lhs]>>
                /\ UNCHANGED pstatus
           ELSE /\ pstatus' = "out_of_range"
                /\ table' = Exposed
                /\ memory' = Append(Kept, lhs)
    /\ UNCHANGED <<goto_, action_, text, index>>

\* The same without the index++: the loop never ends.
AcceptNoAdvance ==
    /\ Parsing /\ HasAction /\ CurrentAction = ACCEPT
    /\ AtEnd
    /\ UNCHANGED <<goto_, action_, text, index, memory, result, table, pstatus>>

\* ACCEPT at the end of the input: index++ ends the loop, result returned.
Accept ==
    /\ Parsing /\ HasAction /\ CurrentAction = ACCEPT
    /\ AtEnd
    /\ index' = index + 1
    /\ pstatus' = "accepted"
    /\ UNCHANGED <<goto_, action_, text, memory, result, table>>

ParseStep == SyntaxError \/ Shift \/ ReduceStep \/ Accept
=============================================================================
