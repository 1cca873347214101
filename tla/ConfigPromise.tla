---------------------------- MODULE ConfigPromise ----------------------------
(***************************************************************************)
(* What the configuration store promises, one file at a time: the program  *)
(* works with a value that only gets newer while it runs, a restart takes   *)
(* up the value that was kept last, what is kept is never older than what   *)
(* was kept before, and a file may be lost, but not replaced by an old one. *)
(***************************************************************************)
EXTENDS Integers

CONSTANT Files

VARIABLES value,   \* what the program works with
          kept,    \* the last value that was written completely
          lost     \* whether the file is unreadable

Change(f)  == value'[f] > value[f] /\ UNCHANGED <<kept[f], lost[f]>>
Keep(f)    == kept'[f] \in kept[f]..value[f] /\ ~lost'[f] /\ UNCHANGED value[f]
Lose(f)    == lost'[f] /\ UNCHANGED <<value[f], kept[f]>>
Restart(f) == ~lost[f] /\ value'[f] = kept[f] /\ UNCHANGED <<kept[f], lost[f]>>

Step(f) == \/ Change(f) \/ Keep(f) \/ Lose(f) \/ Restart(f)
           \/ UNCHANGED <<value[f], kept[f], lost[f]>>

Init == \A f \in Files : value[f] = 0 /\ kept[f] \in Nat /\ ~lost[f]
Next == \A f \in Files : Step(f)
Spec == Init /\ [][Next]_<<value, kept, lost>>

=============================================================================
