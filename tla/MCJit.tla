-------------------------------- MODULE MCJit --------------------------------
(***************************************************************************)
(* compile() with the symbol table of src/compiler-at-home/test_simple.c:  *)
(* the int variables A = 42, MELEVEN = -11, PI100 = 314, X = -8 and the    *)
(* int16 functions min, max, five and if.  The inputs are the test's own   *)
(* expressions (spaces included, runs of spaces as one), every text of up  *)
(* to four chunks over a small alphabet, and arithmetic expressions        *)
(* printed from trees, each with the value C arithmetic gives it.          *)
(***************************************************************************)
EXTENDS Jit

MCVars  == {<<"A">>, <<"MELEVEN">>, <<"PI100">>, <<"X">>}
MCFuncs == {<<"min">>, <<"max">>, <<"five">>, <<"if">>}
MCMem   == <<"A">> :> 42 @@ <<"MELEVEN">> :> -11 @@ <<"PI100">> :> 314 @@ <<"X">> :> -8
MCArity == <<"min">> :> 2 @@ <<"max">> :> 2 @@ <<"five">> :> 0 @@ <<"if">> :> 4

\* mini16, maxi16, five and if_statement.
MCCallee(f, a) ==
    CASE f = <<"min">>  -> IF a[1] < a[2] THEN a[1] ELSE a[2]
      [] f = <<"max">>  -> IF a[1] > a[2] THEN a[1] ELSE a[2]
      [] f = <<"five">> -> 5
      [] f = <<"if">>   -> IF a[1] < a[2] THEN a[3] ELSE a[4]

\* The tests of test_simple.c but the last, whose thirteen calls make the
\* callee's choices too many to enumerate.
TestCases == <<
    [txt |-> <<"2", "+", "2", "*", "2">>, val |-> 6],
    [txt |-> <<"2", "*", "2", "+", "2">>, val |-> 6],
    [txt |-> <<"(", "2", "+", "2", ")", "*", "2">>, val |-> 8],
    [txt |-> <<"2", "*", "(", "2", "+", "2", ")">>, val |-> 8],
    [txt |-> <<"2", "+", "(", "2", "*", "2", ")">>, val |-> 6],
    [txt |-> <<"1">>, val |-> 1],
    [txt |-> <<"-", "7">>, val |-> -7],
    [txt |-> <<"(", "2", ")">>, val |-> 2],
    [txt |-> <<"five", "(", ")", "*", "five", "(", ")", " ", "+", " ", "five", "(", ")">>, val |-> 30],
    [txt |-> <<"(", " ", "2", " ", "-", " ", "9", " ", ")">>, val |-> -7],
    [txt |-> <<"(", " ", "1", " ", "+", " ", "(", " ", "1", " ", "+", " ", "(", " ", "1", " ", "+", " ", "(", " ", "1", " ", "+", " ", "(", "1", " ", "+", " ", "(", " ", "1", " ", "+", " ", "2", " ", ")", " ", ")", " ", ")", " ", ")", " ", ")", " ", ")">>, val |-> 8],
    [txt |-> <<"4", " ", "-", " ", "A", " ", "*", " ", "2">>, val |-> -80],
    [txt |-> <<"MELEVEN", " ", "*", " ", "2", " ", "-", " ", "PI100">>, val |-> -336],
    [txt |-> <<"X", " ", "*", " ", "A">>, val |-> -336],
    [txt |-> <<" ", "min", " ", "(", " ", "1", " ", ",", " ", "2", " ", ")", " ">>, val |-> 1],
    [txt |-> <<" ", "max", " ", "(", " ", "min", "(", "1", ",", " ", "2", ")", ",", " ", "min", "(", "3", ",", " ", "4", ")", ")", " ">>, val |-> 3],
    [txt |-> <<" ", "min", " ", "(", " ", "min", "(", "-", "4", ",", " ", "-", "3", ")", ",", " ", "min", "(", "-", "2", ",", " ", "-", "1", ")", " ", ")", " ">>, val |-> -4],
    [txt |-> <<"min", "(", "A", " ", "*", " ", "4", ",", " ", "MELEVEN", ")">>, val |-> -11],
    [txt |-> <<" ", "if", " ", "(", " ", "1", ",", " ", "2", ",", " ", "A", ",", " ", "PI100", " ", ")", " ", "*", " ", "MELEVEN">>, val |-> -462]
    >>

\* Every text of one to four chunks.
Alphabet == {"A", "min", "five", "2", "+", "-", "*", "(", ")", ","}
ShortTexts == UNION {[1 .. n -> Alphabet] : n \in 1 .. 4}

\* Expressions of up to three operators (Arith2 combines two of Arith1),
\* printed from trees over 2, A and -2 with the fewest
\* parentheses C needs, and the value C gives them.
Prec(op) == IF op = "*" THEN 2 ELSE 1
Paren(e, yes) == IF yes THEN <<"(">> \o e.txt \o <<")">> ELSE e.txt
Apply(op, a, b) == CASE op = "+" -> a + b [] op = "-" -> a - b [] op = "*" -> a * b
Combine(op, a, b) ==
    [txt  |-> Paren(a, Prec(op) > a.prec) \o <<op>> \o Paren(b, Prec(op) >= b.prec),
     val  |-> Apply(op, a.val, b.val),
     prec |-> Prec(op)]
Atoms == {[txt |-> <<"2">>, val |-> 2, prec |-> 3], [txt |-> <<"A">>, val |-> 42, prec |-> 3],
          [txt |-> <<"-", "2">>, val |-> -2, prec |-> 3]}
Grow(E) == E \cup {Combine(op, a, b) : op \in {"+", "-", "*"}, a \in E, b \in E}
Arith1 == Grow(Atoms)
Arith2 == Grow(Arith1)

TestTexts == {TestCases[i].txt : i \in DOMAIN TestCases}
\* Literals past int16 and past int.
BigLiterals == {<<"4", "0", "0", "0", "0">>, [i \in 1 .. 11 |-> "9"]}
\* A product whose value leaves int16 although every SMULBB operand fits:
\* Monom folds from the last factor, 2 * 314 = 628, then 628 * 314.
WideProduct == [txt |-> <<"PI100", "*", "PI100", "*", "2">>, val |-> 197192, prec |-> 2]
PassTexts == TestTexts \cup ShortTexts \cup {e.txt : e \in Arith2} \cup BigLiterals \cup {WideProduct.txt}
ArithTexts == TestTexts \cup {e.txt : e \in Arith2} \cup {WideProduct.txt}

\* The value each text should have.
Cases == {TestCases[i] : i \in DOMAIN TestCases} \cup Arith2 \cup {WideProduct}
Want == [x \in {c.txt : c \in Cases} |-> (CHOOSE c \in Cases : c.txt = x).val]

\* The code compile() emits returns the value the expression has in C:
\* what test_simple.c checks of each of its expressions.
ValueIsArithmetic ==
    status = "returned" /\ text \in DOMAIN Want => regs[0] = IntV(Want[text])
====
