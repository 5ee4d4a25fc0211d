------------------------------- MODULE Placement -------------------------------
(***************************************************************************)
(* What a sequential program means when its local variables live in the    *)
(* places an allocation gives them, the way compile_with_env reads and     *)
(* writes them (src/src/compile.rs:1178-1224, 1444-1482).  Places are      *)
(* overwritten; a place not written in this activation holds junk.  The    *)
(* places of an activation are its own: that calls save the registers they *)
(* must is not modelled here.                                              *)
(***************************************************************************)
EXTENDS DirectStyle, Analysis

Leaves(r, printed, store) == [r |-> r, out |-> printed, store |-> store]

\* The body with parameters bound to values, for a function of the program
RECURSIVE RunPlaced(_, _, _, _, _)

\* funs gives each name [params, body, lcl]
CallPlaced(f, vs, funs, fuel) ==
    IF fuel = 0 THEN Leaves(OutOfFuel, <<>>, EmptyStore)
    ELSE LET d == funs[f]
             args == [x \in {d.params[i] : i \in DOMAIN d.params} |->
                         vs[CHOOSE i \in DOMAIN d.params : d.params[i] = x]]
         IN  RunPlaced(d.body, Frame(d.lcl, args), EmptyStore, funs, fuel - 1)

\* The arm of Let: the value of the bound expression is written to the place
LetPlaced(x, bound, body, frame, store, funs, fuel) ==
    LET m == RunPlaced(bound, frame, store, funs, fuel)
    IN  IF IsErr(m.r) THEN m
        ELSE LET m2 == RunPlaced(body, frame, Bind(m.store, frame.lcl[x], m.r), funs, fuel)
             IN  Leaves(m2.r, m.out \o m2.out, m2.store)

RunPlaced(e, frame, store, funs, fuel) ==
    LET V(imm) == Operand(imm, frame, store)
        Ends(r) == Leaves(r, <<>>, store)
    IN  CASE e.exp \in {"Num", "Bool", "Var"} -> Ends(V(e))
          [] e.exp = "Prim1" ->
                Leaves(InterpretPrim1(e.op, V(e.e)),
                       IF e.op \in Print1 THEN <<V(e.e)>> ELSE <<>>, store)
          [] e.exp = "Prim2" -> Ends(InterpretPrim2(e.op, V(e.e1), V(e.e2)))
          [] e.exp = "If" ->
                IF V(e.cond).t # "Bool" THEN Ends(ExpectedBool("if", V(e.cond)))
                ELSE RunPlaced(IF V(e.cond).b THEN e.thn ELSE e.els, frame, store, funs, fuel)
          [] e.exp = "Let" ->
                LetPlaced(e.bindings[1].var, e.bindings[1].e, e.body, frame, store, funs, fuel)
          [] e.exp = "Call" ->
                LET m == CallPlaced(e.f, [i \in DOMAIN e.args |-> V(e.args[i])], funs, fuel)
                IN  Leaves(m.r, m.out, store)

\* The program p with one allocation for each function and one more for main
PlacedMeaning(p, lcls, fuel) ==
    LET Placed(i) == [params |-> p.funs[i].params, body |-> p.funs[i].body, lcl |-> lcls[i]]
        funs == [f \in {p.funs[i].name : i \in DOMAIN p.funs} |->
                    Placed(CHOOSE i \in DOMAIN p.funs : p.funs[i].name = f)]
        m == RunPlaced(p.main, Frame(lcls[Len(p.funs) + 1], NoNames), EmptyStore, funs, fuel)
    IN  Means(m.r, m.out)
=============================================================================
