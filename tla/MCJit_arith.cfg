\* The test's expressions and every expression of up to two operators over
\* 2, A and -2, against the value C gives them.
CONSTANTS
    Vars <- MCVars
    Funcs <- MCFuncs
    Mem <- MCMem
    Arity <- MCArity
    Callee <- MCCallee
    Texts <- ArithTexts
SPECIFICATION Spec
INVARIANT ValueIsArithmetic
CHECK_DEADLOCK FALSE
