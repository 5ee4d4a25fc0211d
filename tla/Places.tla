-------------------------------- MODULE Places --------------------------------
(***************************************************************************)
(* Where the variables of a function live, VarLocation of                  *)
(* src/src/compile.rs:70-75, and when a choice of places for all of them   *)
(* is an allocation for a conflict graph.                                  *)
(***************************************************************************)
EXTENDS Graph

CONSTANT Registers           \* the registers given, as ranks in Reg's derived Ord

RegLoc(r) == [loc |-> "Reg", n |-> r]
SpillLoc(i) == [loc |-> "Spill", n |-> i]
Locations == [loc : {"Reg"}, n : Registers] \cup [loc : {"Spill"}, n : Nat]

Spilled(env) == {v \in DOMAIN env : env[v].loc = "Spill"}

\* Two variables that are live together never share a place
Proper(env, graph) ==
    \A v \in DOMAIN env, w \in DOMAIN env :
        w \in Neighbors(graph, v) => env[v] # env[w]

\* The spill slots in use are the first ones, and each belongs to one variable,
\* so the frame of compile_to_instrs (compile.rs:1614-1628) has room for them
DenseSlots(env) ==
    LET slots == {env[v].n : v \in Spilled(env)}
    IN  /\ \A m \in slots : 0 .. m \subseteq slots
        /\ \A v \in Spilled(env), w \in Spilled(env) :
               env[v].n = env[w].n => v = w

\* env is an allocation of the variables of the graph
Allocation(env, graph) ==
    /\ DOMAIN env = Vertices(graph)
    /\ \A v \in DOMAIN env : env[v] \in Locations
    /\ Proper(env, graph)
    /\ DenseSlots(env)
=============================================================================
