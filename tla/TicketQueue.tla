----------------------------- MODULE TicketQueue -----------------------------
(***************************************************************************)
(* What the distribution of tickets promises to those who start it         *)
(* (docs/Architectural-Overview.md: "a test will be executed only once by  *)
(* any of the test runners"): a ticket waits until it is handed to one     *)
(* corbot, which executes it once, and each fault costs at most one        *)
(* ticket.  Distribution implements it as long as no corbot is killed.     *)
(***************************************************************************)
EXTENDS Naturals

CONSTANTS Ticket, EmptyTicket, Corbot

VARIABLES
    waiting, \* tickets that were handed to nobody
    held,    \* what each corbot has been handed, as a set
    runs,    \* how often each ticket was executed
    faults   \* how many records were refused or not delivered, and how many loops raised

vars == <<waiting, held, runs, faults>>

Init ==
    /\ waiting \subseteq Ticket
    /\ held = [c \in Corbot |-> {}]
    /\ runs = [t \in Ticket |-> 0]
    /\ faults = 0

\* A corbot that has nothing is handed a ticket with tests.
HandOut(c, t) ==
    /\ held[c] = {}
    /\ t \in waiting \ EmptyTicket
    /\ waiting' = waiting \ {t}
    /\ held' = [held EXCEPT ![c] = {t}]
    /\ UNCHANGED <<runs, faults>>

\* A ticket without tests is passed over.
PassOver(t) ==
    /\ t \in waiting \cap EmptyTicket
    /\ waiting' = waiting \ {t}
    /\ UNCHANGED <<held, runs, faults>>

Execute(c, t) ==
    /\ t \in held[c]
    /\ runs[t] = 0
    /\ runs' = [runs EXCEPT ![t] = 1]
    /\ UNCHANGED <<waiting, held, faults>>

\* A corbot is through with a ticket only after its execution.
Finish(c, t) ==
    /\ t \in held[c]
    /\ runs[t] = 1
    /\ held' = [held EXCEPT ![c] = {}]
    /\ UNCHANGED <<waiting, runs, faults>>

\* A fault takes at most one ticket away: one that waits, or what a corbot holds.
Fault ==
    /\ faults' = faults + 1
    /\ \/ /\ \E t \in Ticket : waiting' \in {waiting, waiting \ {t}}
          /\ UNCHANGED held
       \/ /\ \E c \in Corbot : held' = [held EXCEPT ![c] = {}]
          /\ UNCHANGED waiting
    /\ UNCHANGED runs

Next ==
    \/ \E c \in Corbot, t \in Ticket : HandOut(c, t) \/ Execute(c, t) \/ Finish(c, t)
    \/ \E t \in Ticket : PassOver(t)
    \/ Fault

Spec == Init /\ [][Next]_vars

=============================================================================
