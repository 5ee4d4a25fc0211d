------------------------------ MODULE TailCalls ------------------------------
(***************************************************************************)
(* How much stack the machine of interp.rs takes for a program whose calls *)
(* are all tail calls.                                                     *)
(***************************************************************************)
EXTENDS Interp

\* The parts of an expression that are evaluated while a frame waits for them,
\* and those that take its place
Held(e) ==
    CASE e.exp = "Prim1" -> {e.e}
      [] e.exp = "Prim2" -> {e.e1, e.e2}
      [] e.exp = "If" -> {e.cond}
      [] e.exp = "Let" -> {e.bindings[i].e : i \in DOMAIN e.bindings}
      [] e.exp = "Call" -> {e.args[i] : i \in DOMAIN e.args}
      [] OTHER -> {}

InTail(e) ==
    CASE e.exp = "If" -> {e.thn, e.els}
      [] e.exp = "Let" -> {e.body}
      [] OTHER -> {}

CONSTANTS
    Depth(_),                \* the frames an expression needs, calls not counted
    NoCalls(_),              \* whether it has no call at all
    TailOnly(_)              \* whether every call is the last thing it does

\* An expression needs as many frames as any part of it, and it is known of every
\* part what is known of the whole
ASSUME TailCallsAssumption ==
    \A j \in Accepted :
        LET e == j[1]
        IN  /\ Depth(e) \in Nat
            /\ \A x \in Held(e) : Depth(x) \in Nat /\ 1 + Depth(x) <= Depth(e)
            /\ \A x \in InTail(e) : Depth(x) \in Nat /\ Depth(x) <= Depth(e)
            /\ NoCalls(e) => e.exp # "Call" /\ \A x \in Held(e) \cup InTail(e) : NoCalls(x)
            /\ TailOnly(e) => /\ \A x \in Held(e) : NoCalls(x)
                              /\ \A x \in InTail(e) : TailOnly(x)

Bodies(p) == {p.main} \cup {p.funs[i].body : i \in DOMAIN p.funs}

OnlyTailCalls == \A e \in Bodies(prog) : TailOnly(e)

\* A program that only makes tail calls runs in a stack whose size its text
\* bounds, however long it loops: a call pops its own frame before it enters the
\* callee, and binding a variable leaves no frame (interp.rs:423-441, 454-458).
TailCallsKeepStack == OnlyTailCalls => \E e \in Bodies(prog) : Len(stk) <= Depth(e)

-----------------------------------------------------------------------------
(* The inductive invariant: n frames are enough for all that is left of the *)
(* body that the machine is in, and only with no frame on the stack will it *)
(* meet a call.                                                             *)

\* An expression that will be evaluated over k frames
Placed(e, k, n) ==
    /\ Depth(e) \in Nat /\ k + Depth(e) <= n
    /\ IF k = 0 THEN TailOnly(e) ELSE NoCalls(e)

\* The frame k from the bottom
FramePlaced(f, k, n) ==
    /\ f.fr = "Prim2L" => Placed(f.e, k, n)
    /\ f.fr = "If" => Placed(f.thn, k - 1, n) /\ Placed(f.els, k - 1, n)
    /\ f.fr = "Let" => /\ \A i \in DOMAIN f.bindings : Placed(f.bindings[i].e, k, n)
                       /\ Placed(f.body, k - 1, n)
    /\ f.fr = "Call" => k = 1 /\ \A i \in DOMAIN f.remaining : Placed(f.remaining[i], k, n)

StackPlaced(s, n) == Len(s) <= n /\ \A k \in DOMAIN s : FramePlaced(s[k], k, n)

CtlPlaced(c, k, n) == c.mode = "Descending" => Placed(c.e, k, n)

TailIInv ==
    OnlyTailCalls =>
        \E e \in Bodies(prog) : StackPlaced(stk, Depth(e)) /\ CtlPlaced(ctl, Len(stk), Depth(e))
=============================================================================
