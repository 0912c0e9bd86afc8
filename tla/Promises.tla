------------------------------ MODULE Promises ------------------------------
(***************************************************************************)
(* What `confirm()` promises to whoever calls it, and nothing of how a     *)
(* question is shown: a call is answered once, with yes or no, and a       *)
(* second call answers the first with no.  Dialogs implements this.        *)
(***************************************************************************)
CONSTANTS Nobody,        \* no answer yet
          Askers         \* who calls confirm()

VARIABLE answers         \* what each asker was answered last

Waiting == {a \in Askers : answers[a] = Nobody}

PromisesInit == answers = [a \in Askers |-> "never asked"]

Asks(a) ==
    answers' = [b \in Askers |-> IF b = a THEN Nobody ELSE IF b \in Waiting THEN "no" ELSE answers[b]]

Settles(answer) ==
    /\ Waiting # {}
    /\ answers' = [a \in Askers |-> IF a \in Waiting THEN answer ELSE answers[a]]

PromisesNext == (\E a \in Askers : Asks(a)) \/ (\E answer \in {"yes", "no"} : Settles(answer))

PromisesSpec == PromisesInit /\ [][PromisesNext]_answers
=============================================================================
