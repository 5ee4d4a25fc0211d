-------------------------------- MODULE Check --------------------------------
(***************************************************************************)
(* check_prog and its reference, as they recurse through the parts of an   *)
(* expression.                                                             *)
(***************************************************************************)
EXTENDS CheckRules

RECURSIVE CheckExp(_, _, _, _), Occurrences(_), WellFormedParts(_)

CheckExp(e, args, lcl, funs) ==
    CheckArm(LAMBDA x, l : CheckExp(x, args, l, funs), e, args, lcl, funs)

CheckProg(p) == CheckBodies(LAMBDA e, args, funs : CheckExp(e, args, {}, funs), p)

Occurrences(e) == OccurrencesArm(Occurrences, e)

WellFormedParts(e) == WellFormedArm(WellFormedParts, e)

WellFormed(p) == WellFormedBodies(Occurrences, WellFormedParts, p)
=============================================================================
