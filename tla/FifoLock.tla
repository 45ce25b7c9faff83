------------------------------ MODULE FifoLock ------------------------------
(***************************************************************************)
(* What a caller of withKeyedLock relies on, for one key: callers line up, *)
(* only the first of the line is ever inside, and it leaves from there.    *)
(***************************************************************************)
EXTENDS Sequences

CONSTANT Calls

VARIABLES
  line,     \* calls that have not left, in order of arrival
  inside    \* calls inside the critical section

vars == <<line, inside>>

Init == line = <<>> /\ inside = {}

Join(c) ==
  /\ line' = Append(line, c)
  /\ UNCHANGED inside

Enter ==
  /\ line # <<>>
  /\ inside = {}
  /\ inside' = {Head(line)}
  /\ UNCHANGED line

Leave ==
  /\ line # <<>>
  /\ inside = {Head(line)}
  /\ inside' = {}
  /\ line' = Tail(line)

Next == (\E c \in Calls : Join(c)) \/ Enter \/ Leave

Spec == Init /\ [][Next]_vars

=============================================================================
