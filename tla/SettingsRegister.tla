--------------------------- MODULE SettingsRegister ---------------------------
(***************************************************************************)
(* What "Thread safety is provided by a threading.Lock around all          *)
(* read/write cycles" promises a caller of IniSettingsManager: the         *)
(* settings behave as one register, to which the calls of every request    *)
(* are applied one after the other, each in one step, whole or not at all. *)
(***************************************************************************)
EXTENDS IniConfig

CONSTANT Callers

VARIABLES
    contents,
    todo        \* the calls each caller has still to make

Init ==
    /\ contents = Defaults
    /\ todo = [c \in Callers |-> <<>>]

Ask(c) ==
    /\ todo[c] = <<>>
    /\ todo'[c] \in Seq(Op)
    /\ todo' = [todo EXCEPT ![c] = todo'[c]]
    /\ UNCHANGED contents

Apply(c) ==
    LET op == Head(todo[c]) IN
    /\ todo[c] # <<>>
    /\ ~Raises(op, contents)
    /\ contents' = IF Finds(op, contents) THEN After(op, contents) ELSE contents
    /\ todo' = [todo EXCEPT ![c] = Tail(@)]

\* Requests may end early; what they have not applied leaves no trace.
Abandon(C) ==
    /\ todo' = [c \in Callers |-> IF c \in C THEN <<>> ELSE todo[c]]
    /\ UNCHANGED contents

Next ==
    \/ \E c \in Callers : Ask(c) \/ Apply(c)
    \/ \E C \in SUBSET Callers : Abandon(C)

Spec == Init /\ [][Next]_<<contents, todo>>

=============================================================================
