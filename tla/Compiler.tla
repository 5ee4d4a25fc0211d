------------------------------- MODULE Compiler -------------------------------
(***************************************************************************)
(* compile_to_string, src/src/compile.rs:1654-1696, up to the instructions *)
(* themselves: check_prog, the passes one after the other, and then each   *)
(* function and main given places for its variables.  A pass may panic.    *)
(*                                                                         *)
(* allocate_registers is used by its promise: any Allocation of the        *)
(* conflict graph, which RegAlloc is shown to answer with (AllocSpec).     *)
(***************************************************************************)
EXTENDS Lowering, Placement

CONSTANTS Programs,          \* the programs the parser may produce
          MaxSlots,          \* spill slots an answer may use
          Fuel               \* calls after which a program counts as not ending

VARIABLES prog,              \* the SurfProg
          stage,
          code,              \* the program as the last pass left it
          lcls               \* env_lcl of the functions compiled so far, then of main

vars == <<prog, stage, code, lcls>>

Init ==
    /\ prog \in Programs
    /\ stage = "parsed"
    /\ code = prog
    /\ lcls = <<>>

\* let () = check_prog(p)?
DoCheckProg ==
    /\ stage = "parsed"
    /\ stage' = IF CheckProg(prog) = Ok THEN "checked" ELSE "refused"
    /\ UNCHANGED <<prog, code, lcls>>

\* One pass over the whole program
Pass(from, to, result) ==
    /\ stage = from
    /\ stage' = to
    /\ code' = result
    /\ UNCHANGED <<prog, lcls>>

DoSeqProg == Pass("checked", "sequential", SeqProg(code))
DoUniquifyNames == Pass("sequential", "unique", UniquifyNames(code))
DoLiveness == Pass("unique", "live", LivenessP(code))

\* allocate_registers
Answers(graph) ==
    {lcl \in [Vertices(graph) -> {RegLoc(r) : r \in Registers}
                                  \cup {SpillLoc(i) : i \in 0 .. (MaxSlots - 1)}] :
        Allocation(lcl, graph)}

RECURSIVE Binders(_), Mentioned(_), UsesPrintStack(_), FoundIn(_, _, _, _, _)

\* The variables an expression binds, in some order, and those it reads
Binders(e) ==
    CASE e.exp = "Let" -> <<e.bindings[1].var>> \o Binders(e.bindings[1].e) \o Binders(e.body)
      [] e.exp = "If" -> Binders(e.thn) \o Binders(e.els)
      [] OTHER -> <<>>

Mentioned(e) ==
    CASE e.exp = "Let" -> Mentioned(e.bindings[1].e) \cup Mentioned(e.body)
      [] e.exp = "If" -> VarsIn(<<e.cond>>) \cup Mentioned(e.thn) \cup Mentioned(e.els)
      [] OTHER -> ImmVars(e)

UsesPrintStack(e) ==
    CASE e.exp = "Let" -> UsesPrintStack(e.bindings[1].e) \/ UsesPrintStack(e.body)
      [] e.exp = "If" -> UsesPrintStack(e.thn) \/ UsesPrintStack(e.els)
      [] OTHER -> e.exp = "Prim1" /\ e.op = "PrintStack"

\* What liveness and conflicts found out about an expression and its parts
FoundIn(e, params, out, equivs, graph) ==
    {Node(e, params, GetChildAnn(e), out, equivs, graph)} \cup
    CASE e.exp = "Let" ->
            LET x == e.bindings[1].var
                bound == e.bindings[1].e
            IN  FoundIn(bound, params, GetChildAnn(e.body) \ {x}, equivs, graph)
                \cup FoundIn(e.body, params, out, Joined(x, bound, equivs), graph)
      [] e.exp = "If" -> FoundIn(e.thn, params, out, equivs, graph)
                         \cup FoundIn(e.els, params, out, equivs, graph)
      [] OTHER -> {}

BoundIn(e) == {Binders(e)[i] : i \in DOMAIN Binders(e)}

\* compile_with_env does not panic: every bound variable has a place, every
\* variable read has a place or is a parameter, and nothing is left to do
Compilable(e, params, lcl) ==
    /\ BoundIn(e) \subseteq DOMAIN lcl
    /\ Mentioned(e) \subseteq DOMAIN lcl \cup params
    /\ ~UsesPrintStack(e)

Panic == stage' = "panicked" /\ UNCHANGED <<prog, code, lcls>>

\* compile_fun on the next function, compile_main after the last
DoCompile ==
    /\ stage = "live"
    /\ LET i == Len(lcls) + 1
           c == Conflicts(BodyOf(code, i))
       IN  IF ~c.asserted THEN Panic
           ELSE \E lcl \in Answers(c.graph) :
                   IF Compilable(BodyOf(code, i), ParamsOf(code, i), lcl)
                   THEN /\ lcls' = Append(lcls, lcl)
                        /\ stage' = IF i \in DOMAIN code.funs THEN "live" ELSE "compiled"
                        /\ UNCHANGED <<prog, code>>
                   ELSE Panic

Returned == stage \in {"refused", "panicked", "compiled"} /\ UNCHANGED vars

Next == DoCheckProg \/ DoSeqProg \/ DoUniquifyNames \/ DoLiveness \/ DoCompile \/ Returned

Spec == Init /\ [][Next]_vars

-----------------------------------------------------------------------------

Lowered == {"sequential", "unique", "live"}

\* check_exp threads two environments down the tree and stops at the first
\* error.  What it accepts is exactly what is well formed read bottom up: every
\* name resolved, every call to a function of that arity and not hidden by a
\* variable, every literal in 63 bits, no name bound twice in one let
\* (compile.rs:238-421).
AcceptsExactlyWellFormed ==
    stage # "parsed" => (stage # "refused" <=> WellFormed(prog))

\* After every pass the program still prints the same values and ends in the same
\* way as interp.rs, "the reference interpreter", says the source does: operands
\* are evaluated from the left and once, branches only when taken, and every
\* variable still reads the binding it was resolved to (compile.rs:435-713,
\* syntax.rs:385-447).
MeaningPreserved ==
    stage \in Lowered => Meaning(code, Fuel) = Meaning(prog, Fuel)

\* "unique names" (syntax.rs:334): after uniquify_names no two lets of a function
\* bind the same name, and none a parameter's.
UniqueNames ==
    stage \in {"unique", "live"} =>
        \A i \in BodyNumbers(code) :
            /\ Cardinality(BoundIn(BodyOf(code, i))) = Len(Binders(BodyOf(code, i)))
            /\ BoundIn(BodyOf(code, i)) \cap ParamsOf(code, i) = {}

\* What liveness and conflicts find out is enough to share places: nothing is live
\* where a function starts; at every let, whatever is live with the variable in its
\* body is its neighbour in the graph or known to have its value; what an expression
\* may read, or leaves to be read, is live before it (compile.rs:727-989).  And
\* check_prog would accept what the passes made.
SoundAnalyses ==
    stage = "live" /\ lcls = <<>> =>
        LET graphs == [i \in BodyNumbers(code) |-> Conflicts(BodyOf(code, i)).graph]
        IN  /\ CheckProg(code) = Ok
            /\ Analysed(UNION {FoundIn(BodyOf(code, i), ParamsOf(code, i), {}, {}, graphs[i]) :
                                   i \in BodyNumbers(code)},
                        code, graphs)

\* The back end never fails an assertion of conflicts_helper (compile.rs:928) and
\* never looks for a variable that has no place (compile.rs:1219, 1474): the one
\* panic is the todo!() of printStack.
OnlyPrintStackPanics ==
    stage = "panicked" => \E i \in BodyNumbers(code) : UsesPrintStack(BodyOf(code, i))

\* Whatever allocation allocate_registers answers with, the program that keeps its
\* variables in those places means what the source means: no value is overwritten
\* while it can still be read, and two variables share a place only when they are
\* never both live or have the same value (compile.rs:902-983).
PlacesPreserveMeaning ==
    stage = "compiled" => PlacedMeaning(code, lcls, Fuel) = Meaning(prog, Fuel)
=============================================================================
