------------------------------ MODULE LRAction ------------------------------
(***************************************************************************)
(* struct Action (src/lr-k/src/utils.cpp): a single uint32_t; 0 is SHIFT,  *)
(* 1 is ACCEPT and rule_id + 2 is REDUCE(rule_id).  get_action() reads any *)
(* other value as REDUCE.                                                  *)
(***************************************************************************)
EXTENDS Naturals

SHIFT == 0
ACCEPT == 1
Reduce(rule) == rule + 2
IsReduce(a) == a >= 2
RuleOf(a) == a - 2
=============================================================================
