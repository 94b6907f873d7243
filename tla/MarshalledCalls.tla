--------------------------- MODULE MarshalledCalls ---------------------------
(***************************************************************************)
(* What MainThreadQueue promises its callers: tasks take effect one at a   *)
(* time, in the order they were handed in, at most once; only a task that  *)
(* has taken effect is answered with its outcome; a caller may give up at  *)
(* any time before that, which does not withdraw the task; a clear drops   *)
(* the newest tasks, never one from the middle.                            *)
(***************************************************************************)
EXTENDS Sequences, Naturals

CONSTANT Calls

VARIABLES
  todo,      \* tasks handed in that have not taken effect, oldest first
  done,      \* tasks that took effect, in that order
  phase      \* phase[c]: "new", "waiting", "answered" or "gone"

CallsInit ==
  /\ todo = <<>>
  /\ done = <<>>
  /\ phase = [c \in Calls |-> "new"]

\* Hand in a task; a fire-and-forget caller is gone at once.
HandIn(c) ==
  /\ phase[c] = "new"
  /\ todo' = Append(todo, c)
  /\ \E p \in {"waiting", "gone"} : phase' = [phase EXCEPT ![c] = p]
  /\ UNCHANGED done

TakeEffect ==
  /\ todo # <<>>
  /\ done' = Append(done, Head(todo))
  /\ todo' = Tail(todo)
  /\ UNCHANGED phase

AnswerCall(c) ==
  /\ phase[c] = "waiting"
  /\ \E i \in 1..Len(done) : done[i] = c
  /\ phase' = [phase EXCEPT ![c] = "answered"]
  /\ UNCHANGED <<todo, done>>

GiveUp(c) ==
  /\ phase[c] = "waiting"
  /\ \A i \in 1..Len(done) : done[i] # c
  /\ phase' = [phase EXCEPT ![c] = "gone"]
  /\ UNCHANGED <<todo, done>>

Drop ==
  /\ \E n \in 0..Len(todo) : todo' = SubSeq(todo, 1, n)
  /\ UNCHANGED <<done, phase>>

CallsNext ==
  \/ \E c \in Calls : HandIn(c) \/ AnswerCall(c) \/ GiveUp(c)
  \/ TakeEffect
  \/ Drop

CallsSpec == CallsInit /\ [][CallsNext]_<<todo, done, phase>>

=============================================================================
