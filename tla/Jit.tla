-------------------------------- MODULE Jit --------------------------------
(***************************************************************************)
(* The expression JIT of src/compiler.cpp: compile() parses an expression  *)
(* over int variables, int16 literals and calls of int16 C functions into  *)
(* a tree of Polynom, Monom, Func, Var and Num nodes, emits ARM code for   *)
(* it, and the caller runs that code as `int f(void)`.  The parser, the    *)
(* code generator and the execution of the emitted instructions are all   *)
(* modelled; an instruction is a record saying what its word does, not    *)
(* the bits of the word.                                                   *)
(*                                                                         *)
(* Text is a sequence of chunks: a chunk is one punctuation character, or  *)
(* a run of characters that are all alphanumeric or '_' (a symbol name,    *)
(* or one digit).  Adjacent word chunks are read as one word, exactly as   *)
(* the character loop reads them.                                          *)
(***************************************************************************)
EXTENDS Integers, Sequences, SequencesExt, TLC

CONSTANTS
    Vars,          \* names of the int variables in the symbol table
    Funcs,         \* names of the C functions in the symbol table
    Mem,           \* Mem[v]: the int at variable v's address
    Arity,         \* Arity[f]: the number of int16 parameters of f
    Callee(_, _),  \* Callee(f, args): the int16 that f returns
    Texts          \* the expressions handed to compile()

ASSUME Vars \cap Funcs = {}

NUL   == ""                             \* the '\0' after the string
Space == {" "}
Punct == {"+", "-", "*", "(", ")", ","}
DigitVal == "0" :> 0 @@ "1" :> 1 @@ "2" :> 2 @@ "3" :> 3 @@ "4" :> 4 @@
            "5" :> 5 @@ "6" :> 6 @@ "7" :> 7 @@ "8" :> 8 @@ "9" :> 9

\* isalnum(c) || c == '_'
IsWord(c) == c \notin Punct \cup Space \cup {NUL}

INT_MAX == 2147483647
\* int16_t(x): the low 16 bits, sign-extended.
Int16(x) == ((x + 32768) % 65536) - 32768
\* A machine word holding an int.
IntV(n) == <<"int", n>>
IsInt(x) == x[1] = "int"

\* Every string_view of the parser is a suffix of the space-free text t;
\* view o starts at offset o.  Reading at its size reads the '\0'.
At(t, o, i) == IF o + i < Len(t) THEN t[o + i + 1] ELSE NUL
Size(t, o)  == Len(t) - o

\* The value of a singleton set: binds a recursive result once.
The(S) == CHOOSE x \in S : TRUE

Ok(node, gp) == [ok |-> TRUE, node |-> node, gp |-> gp]
Thrown(e)    == [ok |-> FALSE, err |-> e]

\* Parse-tree nodes; v is a Num's value or a Var's or Func's symbol.
Node(k, v, kids, op) == [k |-> k, v |-> v, kids |-> kids, op |-> op]
Num(v)        == Node("num", v, <<>>, "none")
Var(p)        == Node("var", p, <<>>, "none")
Call(p, args) == Node("call", p, args, "none")
Mono(kids)    == Node("monom", 0, kids, "none")
Poly(kids, op) == Node("poly", 0, kids, op)

\* std::stoi(cur_item) cast to int16_t: the longest prefix of digits.
RECURSIVE LeadDigits(_)
LeadDigits(s) ==
    IF s # <<>> /\ Head(s) \in DOMAIN DigitVal
    THEN <<Head(s)>> \o LeadDigits(Tail(s)) ELSE <<>>
\* The digits' value, or -1 once it passes INT_MAX.
Decimal(ds) ==
    FoldLeft(LAMBDA acc, d : IF acc < 0 \/ acc > (INT_MAX - DigitVal[d]) \div 10
                             THEN -1 ELSE 10 * acc + DigitVal[d], 0, ds)
Stoi(item) ==
    IF LeadDigits(item) = <<>> THEN Thrown("invalid_argument")
    ELSE IF Decimal(LeadDigits(item)) < 0 THEN Thrown("out_of_range")
    ELSE [ok |-> TRUE, v |-> Int16(Decimal(LeadDigits(item)))]

\* The end of the word at pos: the first index that is not alphanumeric.
RECURSIVE WordEnd(_, _, _)
WordEnd(t, o, pos) ==
    IF IsWord(At(t, o, pos)) /\ pos < Size(t, o) THEN WordEnd(t, o, pos + 1) ELSE pos

(***************************************************************************)
(* The constructors.  Each returns the node and the index of the last      *)
(* character it consumed, which the code passes back in global_ptr, or     *)
(* the exception it throws.                                                *)
(***************************************************************************)
RECURSIVE Polynom(_, _), PolyRest(_, _, _), Monom(_, _), MonomFrom(_, _, _, _),
          Bracket(_, _, _, _, _), MonomNext(_, _, _, _), Func(_, _),
          FuncFrom(_, _, _, _), FuncArg(_, _, _, _, _)

Polynom(t, o) ==
    IF Size(t, o) = 0 THEN Thrown("empty polynom")
    ELSE IF At(t, o, 0) = "-"
    THEN The({ IF r.ok THEN Ok(Poly(<<Num(0), r.node>>, "sub"), 1 + r.gp) ELSE r
               : r \in {Polynom(t, o + 1)} })
    ELSE The({ PolyRest(t, o, m) : m \in {Monom(t, o)} })

\* After the first Monom: an operator at global_ptr + 1 takes the whole
\* rest of the view as the right operand.
PolyRest(t, o, m) ==
    LET g == m.gp + 1
        op == IF At(t, o, g) = "+" THEN "add" ELSE "sub"
    IN IF ~m.ok THEN m
       ELSE IF g = Size(t, o) \/ At(t, o, g) \notin {"+", "-"}
       THEN Ok(Poly(<<m.node>>, "none"), m.gp)
       ELSE The({ IF r.ok THEN Ok(Poly(<<m.node, r.node>>, op), r.gp + g + 1) ELSE r
                  : r \in {Polynom(t, o + g + 1)} })

Monom(t, o) == MonomFrom(t, o, 0, <<>>)

MonomFrom(t, o, pos, kids) ==
    IF At(t, o, pos) = "("
    THEN The({ Bracket(t, o, pos, kids, r) : r \in {Polynom(t, o + pos + 1)} })
    ELSE LET e == WordEnd(t, o, pos)
             item == SubSeq(t, o + pos + 1, o + e)
         IN IF item \in Vars \cup Funcs
            THEN IF e = Size(t, o) \/ At(t, o, e) # "("
                 THEN MonomNext(t, o, e - 1, Append(kids, Var(item)))
                 ELSE The({ IF ~f.ok THEN f
                            ELSE MonomNext(t, o,
                                     IF At(t, o, e + 1) = ")" THEN e + f.gp + 1
                                                               ELSE e + f.gp + 2,
                                     Append(kids, Call(item, f.args)))
                            : f \in {Func(t, o + e + 1)} })
            ELSE The({ IF s.ok THEN MonomNext(t, o, e - 1, Append(kids, Num(s.v))) ELSE s
                       : s \in {Stoi(item)} })

\* A '(' factor: the Polynom inside must end just before a ')'.
Bracket(t, o, pos, kids, r) ==
    LET p == pos + r.gp + 2
    IN IF ~r.ok THEN r
       ELSE IF At(t, o, p) # ")" THEN Thrown("brackets didn't parse correctly")
       ELSE IF p + 1 >= Size(t, o) \/ At(t, o, p + 1) # "*"
       THEN Ok(Mono(Append(kids, r.node)), p)
       ELSE MonomFrom(t, o, p + 2, Append(kids, r.node))

\* After a name or number: continue only over a '*'.
MonomNext(t, o, p, kids) ==
    IF p + 1 = Size(t, o) \/ At(t, o, p + 1) # "*" THEN Ok(Mono(kids), p)
    ELSE MonomFrom(t, o, p + 2, kids)

Func(t, o) ==
    IF At(t, o, 0) = ")" THEN [ok |-> TRUE, args |-> <<>>, gp |-> 0]
    ELSE FuncFrom(t, o, 0, <<>>)

\* expr.substr(pos, ...) throws when pos is past the end of the view.
FuncFrom(t, o, pos, args) ==
    IF pos > Size(t, o) THEN Thrown("out_of_range")
    ELSE The({ FuncArg(t, o, pos, args, r) : r \in {Polynom(t, o + pos)} })

\* After an argument: a ')' ends the list, any other character separates.
FuncArg(t, o, pos, args, r) ==
    LET p == pos + r.gp
    IN IF ~r.ok THEN r
       ELSE IF At(t, o, p + 1) = ")" THEN [ok |-> TRUE, args |-> Append(args, r.node), gp |-> p]
       ELSE FuncFrom(t, o, p + 2, Append(args, r.node))

\* compile(): the spaces are dropped, then the whole text is one Polynom;
\* what follows the Polynom's last character is never looked at.
Strip(text) == SelectSeq(text, LAMBDA c : c \notin Space)
Parse(text) == Polynom(Strip(text), 0)

(***************************************************************************)
(* Code generation.  The code is a sequence of instructions; push is       *)
(* STR rt, [sp, #-4]! and pop is LDR rt, [sp], #4.                          *)
(***************************************************************************)
Ins(op, rd, rn, rm, imm) == [op |-> op, rd |-> rd, rn |-> rn, rm |-> rm, imm |-> imm]
SP == 13
LR == 14

\* ADD Rd, Rn, Rm and SUB Rd, Rn, Rm; SMUL encodes SMULBB Rd, Rn, Rm.
AddOp(rd, rn, rm) == <<Ins("add", rd, rn, rm, 0)>>
SubOp(rd, rn, rm) == <<Ins("sub", rd, rn, rm, 0)>>
MulOp(rd, rn, rm) == <<Ins("smulbb", rd, rn, rm, 0)>>
\* Mutant: the operands in the other order.
OpComputeSwapped(op, rd, rn, rm) == IF op = "add" THEN AddOp(rd, rm, rn) ELSE SubOp(rd, rm, rn)
OpCompute(op, rd, rn, rm) == IF op = "add" THEN AddOp(rd, rn, rm) ELSE SubOp(rd, rn, rm)

mov_to_register(rd, rs)  == <<Ins("mov", rd, 0, rs, 0)>>
load_to_register(rd, rn) == <<Ins("ldr", rd, rn, 0, 0)>>
pop_from_stack(r)        == <<Ins("pop", r, SP, 0, 4)>>
push_to_stack(r)         == <<Ins("push", r, SP, 0, 4)>>
\* MOVW with the low half of the address, then MOVT with the high half.
put_ptr_to_register(r, p) == <<Ins("movw", r, 0, 0, <<"lo", p>>), Ins("movt", r, 0, 0, p)>>
BLX(rm) == <<Ins("blx", 0, 0, rm, 0)>>
BX_LR   == <<Ins("bx_lr", 0, 0, LR, 0)>>

\* Num::put_into_register: MOVW Rd, #value.  A negative value's sign bits
\* (value >> 12) overwrite the condition and opcode fields, and the word
\* is then an undefined instruction.
NumPut(v, r) == IF v >= 0 THEN <<Ins("movw", r, 0, 0, IntV(v))>> ELSE <<Ins("undefined", r, 0, 0, v)>>

VarPut(p, r) == put_ptr_to_register(r, p) \o load_to_register(r, r)

RECURSIVE Put(_, _)
\* Every child into r3, pushed twice.
PushChildren(kids) ==
    FoldLeft(LAMBDA acc, c : acc \o Put(c, 3) \o push_to_stack(3) \o push_to_stack(3), <<>>, kids)

\* Mutant: LR is not saved around the call.
FuncPutNoLr(n, r) ==
    LET m == Len(n.kids)
    IN PushChildren(n.kids)
       \o FlattenSeq([j \in 1..m |-> pop_from_stack(m - j) \o pop_from_stack(m - j)])
       \o put_ptr_to_register(5, n.v) \o BLX(5) \o mov_to_register(r, 0)

\* Func::put_into_register: argument i is popped into ri, last first; LR is
\* saved around BLX through r5.
FuncPut(n, r) ==
    LET m == Len(n.kids)
    IN PushChildren(n.kids)
       \o FlattenSeq([j \in 1..m |-> pop_from_stack(m - j) \o pop_from_stack(m - j)])
       \o push_to_stack(LR) \o put_ptr_to_register(5, n.v) \o BLX(5)
       \o mov_to_register(r, 0) \o pop_from_stack(LR)

\* Mutant: one pop per factor after the first.
MonomPutSinglePop(n, r) ==
    PushChildren(n.kids) \o pop_from_stack(0) \o pop_from_stack(0)
    \o FlattenSeq([i \in 1..Len(n.kids) - 1 |-> pop_from_stack(1) \o MulOp(0, 0, 1)])
    \o mov_to_register(r, 0)

\* Monom::put_into_register: the last factor into r0, then r0 := r0 * ri
\* for the others, last to first.
MonomPut(n, r) ==
    PushChildren(n.kids) \o pop_from_stack(0) \o pop_from_stack(0)
    \o FlattenSeq([i \in 1..Len(n.kids) - 1 |-> pop_from_stack(1) \o pop_from_stack(1) \o MulOp(0, 0, 1)])
    \o mov_to_register(r, 0)

\* Polynom::put_into_register: left into r0, saved across the right into r1.
PolyPut(n, r) ==
    IF n.op = "none" THEN Put(n.kids[1], r)
    ELSE Put(n.kids[1], 0) \o push_to_stack(0) \o push_to_stack(0)
         \o Put(n.kids[2], 1) \o pop_from_stack(0) \o pop_from_stack(0)
         \o OpCompute(n.op, r, 0, 1)

Put(n, r) ==
    CASE n.k = "num"   -> NumPut(n.v, r)
      [] n.k = "var"   -> VarPut(n.v, r)
      [] n.k = "call"  -> FuncPut(n, r)
      [] n.k = "monom" -> MonomPut(n, r)
      [] n.k = "poly"  -> PolyPut(n, r)

\* Mutant: the final BX LR is not written.
CodegenNoReturn(tree) == Put(tree, 0)

\* compile(): the tree into r0, then BX LR.
Codegen(tree) == Put(tree, 0) \o BX_LR

(***************************************************************************)
(* Running the code.  A register holds an int <<"int", n>>, the low half of a symbol's  *)
(* address <<"lo", p>>, the address <<"ptr", p>>, a code address           *)
(* <<"code", k>>, the caller's return address Ret, a value of the caller's *)
(* own <<"caller", i>>, or Junk.  The stack below the caller's sp (offset  *)
(* 0) is a function from offsets to values.  Sums and differences stay in  *)
(* int32 on the checked inputs: TLC stops with an overflow error if not.   *)
(***************************************************************************)
Regs == (0 .. 12) \cup {LR}
Ret  == <<"ret">>
Junk == <<"junk">>
Ptr(p) == <<"ptr", p>>
Low16(x) == Int16(x)

VARIABLES
    text,     \* the expression given to compile()
    tree,     \* the parse tree, once compile() has built it
    code,     \* the emitted instructions
    pc,       \* the index of the next instruction
    regs,     \* r0-r12 and LR
    sp,       \* sp as an offset from its value at the call
    stack,    \* the words written below the caller's sp
    status    \* "compile", "run", "threw", "returned", "called_data", "fault"

vars == <<text, tree, code, pc, regs, sp, stack, status>>

\* The caller's registers when it calls the compiled function.
CallerRegs == [r \in Regs |-> IF r = LR THEN Ret ELSE <<"caller", r>>]

Init ==
    /\ text \in Texts
    /\ tree = Num(0)
    /\ code = <<>>
    /\ pc = 1
    /\ regs = CallerRegs
    /\ sp = 0
    /\ stack = <<>>
    /\ status = "compile"

\* compile(): the parse, then the code; an exception leaves compile().
Compile ==
    /\ status = "compile"
    /\ \E r \in {Parse(text)} :
          IF r.ok THEN /\ tree' = r.node
                       /\ code' = Codegen(r.node)
                       /\ status' = "run"
                  ELSE /\ status' = "threw"
                       /\ UNCHANGED <<tree, code>>
    /\ UNCHANGED <<text, pc, regs, sp, stack>>

Cur == code[pc]
Exec(op) == status = "run" /\ Cur.op = op
SetReg(r, v) == regs' = [regs EXCEPT ![r] = v]
Step == pc' = pc + 1

Movw == Exec("movw") /\ SetReg(Cur.rd, Cur.imm) /\ Step
          /\ UNCHANGED <<text, tree, code, sp, stack, status>>

\* MOVT keeps the low half: it completes an address only after its MOVW.
Movt == Exec("movt")
          /\ SetReg(Cur.rd, IF regs[Cur.rd] = <<"lo", Cur.imm>> THEN Ptr(Cur.imm) ELSE Junk)
          /\ Step /\ UNCHANGED <<text, tree, code, sp, stack, status>>

\* LDR Rd, [Rn]: a variable's int, or the bytes of a function's code.
Ldr == Exec("ldr")
          /\ \/ \E v \in Vars : regs[Cur.rn] = Ptr(v) /\ SetReg(Cur.rd, IntV(Mem[v])) /\ Step
                                /\ UNCHANGED status
             \/ \E f \in Funcs : regs[Cur.rn] = Ptr(f) /\ SetReg(Cur.rd, Junk) /\ Step
                                 /\ UNCHANGED status
             \/ regs[Cur.rn] \notin {Ptr(x) : x \in Vars \cup Funcs}
                /\ status' = "fault" /\ UNCHANGED <<regs, pc>>
          /\ UNCHANGED <<text, tree, code, sp, stack>>

Push == Exec("push")
          /\ sp' = sp - 4
          /\ stack' = (sp - 4 :> regs[Cur.rd]) @@ stack
          /\ Step /\ UNCHANGED <<text, tree, code, regs, status>>

\* A pop at or above the caller's sp reads the caller's frame.
Pop == Exec("pop")
          /\ SetReg(Cur.rd, IF sp \in DOMAIN stack THEN stack[sp] ELSE <<"frame", sp>>)
          /\ sp' = sp + 4
          /\ Step /\ UNCHANGED <<text, tree, code, stack, status>>

Mov == Exec("mov") /\ SetReg(Cur.rd, regs[Cur.rm]) /\ Step
          /\ UNCHANGED <<text, tree, code, sp, stack, status>>

Alu(f(_, _)) ==
    SetReg(Cur.rd, IF IsInt(regs[Cur.rn]) /\ IsInt(regs[Cur.rm])
                   THEN IntV(f(regs[Cur.rn][2], regs[Cur.rm][2])) ELSE Junk)
    /\ Step /\ UNCHANGED <<text, tree, code, sp, stack, status>>

Add    == Exec("add") /\ Alu(LAMBDA a, b : a + b)
Sub    == Exec("sub") /\ Alu(LAMBDA a, b : a - b)
\* SMULBB: the product of the signed low halves.
Smulbb == Exec("smulbb") /\ Alu(LAMBDA a, b : Low16(a) * Low16(b))

\* The int16 a function returns from the int16 arguments in r0-r3.
CallValue(f, rs) ==
    IF \A i \in 0 .. Arity[f] - 1 : IsInt(rs[i])
    THEN IntV(Callee(f, [i \in 1 .. Arity[f] |-> Low16(rs[i - 1][2])])) ELSE Junk

\* BLX r5 into a C function: LR := the next instruction; the function
\* returns there with r0 set, r4-r11 and sp kept, and r1-r3, r12 and LR
\* either kept or overwritten.  Branching to a variable's address faults
\* on the data page.
Blx == Exec("blx")
          /\ \/ \E f \in Funcs :
                   /\ regs[Cur.rm] = Ptr(f)
                   /\ \E keep \in BOOLEAN :
                        regs' = [r \in Regs |->
                                   IF r = 0 THEN CallValue(f, regs)
                                   ELSE IF r \in {1, 2, 3, 12} THEN (IF keep THEN regs[r] ELSE Junk)
                                   ELSE IF r = LR THEN (IF keep THEN <<"code", pc + 1>> ELSE Junk)
                                   ELSE regs[r]]
                   /\ Step /\ UNCHANGED status
             \/ \E v \in Vars : regs[Cur.rm] = Ptr(v) /\ status' = "called_data"
                                /\ UNCHANGED <<regs, pc>>
             \/ regs[Cur.rm] \notin {Ptr(x) : x \in Vars \cup Funcs}
                /\ status' = "fault" /\ UNCHANGED <<regs, pc>>
          /\ UNCHANGED <<text, tree, code, sp, stack>>

\* BX LR: back to the caller, or to wherever LR points.
BxLr == Exec("bx_lr")
          /\ \/ regs[LR] = Ret /\ status' = "returned" /\ UNCHANGED pc
             \/ \E k \in DOMAIN code : regs[LR] = <<"code", k>> /\ pc' = k /\ UNCHANGED status
             \/ regs[LR] \notin {Ret} \cup {<<"code", k>> : k \in DOMAIN code}
                /\ status' = "fault" /\ UNCHANGED pc
          /\ UNCHANGED <<text, tree, code, regs, sp, stack>>

Undefined == Exec("undefined") /\ status' = "fault"
          /\ UNCHANGED <<text, tree, code, pc, regs, sp, stack>>

Next == Compile \/ Movw \/ Movt \/ Ldr \/ Push \/ Pop \/ Mov \/ Add \/ Sub
        \/ Smulbb \/ Blx \/ BxLr \/ Undefined

\* One thread runs compile() and then the code.
Spec == Init /\ [][Next]_vars

-----------------------------------------------------------------------------
Tagged == {Junk, Ret} \cup {<<"caller", r>> : r \in Regs}
          \cup {<<"lo", x>> : x \in Vars \cup Funcs} \cup {Ptr(x) : x \in Vars \cup Funcs}
          \cup {<<"code", k>> : k \in DOMAIN code}
IsValue(x) == x \in Tagged \/ (x[1] \in {"int", "frame"} /\ x[2] \in Int)

\* Every variable holds a value of its kind.
TypeOK ==
    /\ status \in {"compile", "run", "threw", "returned", "called_data", "fault"}
    /\ status = "run" => pc \in DOMAIN code
    /\ DOMAIN regs = Regs /\ \A r \in Regs : IsValue(regs[r])
    /\ sp \in Int /\ sp % 4 = 0
    /\ \A a \in DOMAIN stack : a < 0 /\ IsValue(stack[a])

\* What the emitted instructions compute for a tree: '+' and '-' on ints,
\* '*' as SMULBB folded from the last factor, a call as the function's
\* int16 result on its first Arity arguments, a function's name read as
\* data as Junk.
RECURSIVE MachineValue(_)
MachineValue(n) ==
    LET vs == [i \in DOMAIN n.kids |-> MachineValue(n.kids[i])]
        xs == [i \in DOMAIN vs |-> vs[i][2]]
        IntsUpTo(m) == \A i \in 1 .. m : IsInt(vs[i])
    IN CASE n.k = "num"  -> IntV(n.v)
         [] n.k = "var"  -> IF n.v \in Vars THEN IntV(Mem[n.v]) ELSE Junk
         [] n.k = "call" -> IF IntsUpTo(Arity[n.v])
                            THEN IntV(Callee(n.v, [i \in 1 .. Arity[n.v] |-> Low16(xs[i])])) ELSE Junk
         [] ~IntsUpTo(Len(vs)) -> Junk
         [] n.k = "monom" -> IntV(FoldRight(LAMBDA x, acc : Low16(acc) * Low16(x),
                                            SubSeq(xs, 1, Len(xs) - 1), xs[Len(xs)]))
         [] n.op = "none" -> vs[1]
         [] n.op = "add"  -> IntV(xs[1] + xs[2])
         [] n.op = "sub"  -> IntV(xs[1] - xs[2])

\* The trees whose calls all name a function and pass it at least as many
\* arguments as it takes; a shorter call reads whatever r0-r3 hold.
RECURSIVE Nodes(_)
Nodes(n) == {n} \cup UNION {Nodes(n.kids[i]) : i \in DOMAIN n.kids}
CallsComplete(n) ==
    \A c \in Nodes(n) : c.k = "call" => c.v \in Funcs /\ Len(c.kids) >= Arity[c.v]

\* compile()'s code, called as int f(void), returns in r0 the value of the
\* tree the parser built: every operand survives in its register or stack
\* slot across the code of the operands computed after it, and every
\* argument reaches its parameter register.
ComputesParsedTree ==
    status = "returned" /\ CallsComplete(tree) => regs[0] = MachineValue(tree)

\* The code never pops the caller's frame, and returns with sp where the
\* caller left it: the pushes and pops of Polynom, Monom and Func pair up.
StackBalanced ==
    /\ sp <= 0
    /\ status = "returned" => sp = 0

\* Whenever the code reaches a BX LR, LR holds the caller's return
\* address: Func::put_into_register saves LR on the stack before BLX
\* overwrites it and restores it after, so the final BX LR neither lands
\* back inside the code (a loop) nor jumps to what the callee left in LR.
ReturnsToCaller == status = "run" /\ Cur.op = "bx_lr" => regs[LR] = Ret
====
