------------------------------ MODULE MCRunner ------------------------------
(* Commands of every kind with directories of their own, as the tests use     *)
(* them; and two commands in one directory, one after the other.              *)
EXTENDS Runner

CONSTANTS compiled, failing, interpreted, emitting, helping,
          shared

MCArgs == [c \in Commands |->
    CASE c = interpreted -> <<"--interp", "file">>
      [] c = emitting -> <<"file">>
      [] c = helping -> <<"--run">>
      [] OTHER -> <<"--run", "file">>]

\* A directory is named after the command it is for
OwnDirs == [c \in Commands |-> c]
OneDir == [c \in Commands |-> shared]
MCDirs == Commands \cup {shared}

\* The two that link are at work at the same time; the others come after them
FirstAtOnce == [c \in Commands |-> IF c \in {compiled, failing} THEN {} ELSE {compiled, failing}]
InTurn == [c \in Commands |-> IF c = compiled THEN {} ELSE {compiled}]

MCLines == [p \in Programs |-> IF p \in {compiled, interpreted} THEN 2 ELSE 1]
MCSucceeding == {compiled, interpreted}
Cut == {compiled}
=============================================================================
