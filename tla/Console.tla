------------------------------ MODULE Console -------------------------------
(***************************************************************************)
(* What pgd and pguru promise together a user who waits for each answer: a *)
(* command is a call.  pgd serves one client in its life; the client's     *)
(* commands are answered one at a time, each once, in the order they were  *)
(* typed, and no result is shown before its command was answered.  There   *)
(* are no streams, buffers or reads here: Session has them, and implements *)
(* this.                                                                   *)
(***************************************************************************)
EXTENDS Integers, Sequences

CONSTANTS
    Clients,   \* the runs of pguru
    None,      \* no client
    Lines      \* bound on the commands of one run

VARIABLES
    served,   \* the client whose connection pgd accepted
    asked,    \* client -> commands typed
    answers,  \* the numbers of the commands pgd has answered, in order
    shown     \* client -> results shown

vars == <<served, asked, answers, shown>>

Init ==
    /\ served = None
    /\ asked = [c \in Clients |-> 0]
    /\ answers = <<>>
    /\ shown = [c \in Clients |-> 0]

Open(c) ==
    /\ served = None
    /\ served' = c
    /\ UNCHANGED <<asked, answers, shown>>

\* The user types the next command when the last result is there.
Ask(c) ==
    /\ served = c
    /\ asked[c] < Lines
    /\ Len(answers) = asked[c] /\ shown[c] = asked[c]
    /\ asked' = [asked EXCEPT ![c] = @ + 1]
    /\ UNCHANGED <<served, answers, shown>>

\* The command is executed, and by no other answer preceded or followed.
Answer(c) ==
    /\ served = c
    /\ Len(answers) < asked[c]
    /\ answers' = Append(answers, asked[c])
    /\ UNCHANGED <<served, asked, shown>>

Show(c) ==
    /\ served = c
    /\ shown[c] < Len(answers)
    /\ shown' = [shown EXCEPT ![c] = @ + 1]
    /\ UNCHANGED <<served, asked, answers>>

Next == \E c \in Clients : Open(c) \/ Ask(c) \/ Answer(c) \/ Show(c)

Spec == Init /\ [][Next]_vars
=============================================================================
