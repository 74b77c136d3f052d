------------------------------ MODULE SendOnce ------------------------------
(***************************************************************************)
(* What a delivery outbox promises for every message, however many         *)
(* senders, retries, crashes and lost answers there are: the provider      *)
(* accepts at most one copy, the verdict that is recorded is final, and    *)
(* "sent" is recorded only for a message the provider did accept.  A       *)
(* message that was given up may have been accepted all the same, even     *)
(* after it was given up: the outbox prefers a lost message to a second    *)
(* copy.                                                                   *)
(***************************************************************************)
EXTENDS Naturals

CONSTANT Messages

VARIABLES
    verdict,    \* what is recorded of each message
    copies      \* how many copies of it the provider has accepted

Verdicts == {"open", "sent", "given_up"}

Init ==
    /\ verdict = [m \in Messages |-> "open"]
    /\ copies = [m \in Messages |-> 0]

\* The provider accepts the one copy of a message.
Accept(m) ==
    /\ copies[m] = 0
    /\ copies' = [copies EXCEPT ![m] = 1]
    /\ UNCHANGED verdict

\* A verdict is recorded, for several messages at once where one statement does so.
Close(group, v) ==
    /\ \A m \in group : verdict[m] = "open" /\ (v = "sent" => copies[m] = 1)
    /\ verdict' = [m \in Messages |-> IF m \in group THEN v ELSE verdict[m]]
    /\ UNCHANGED copies

\* Both at once, of an outbox in which the call of the provider and the statement that
\* records its answer are one step.
Settle(m, v) ==
    /\ verdict[m] = "open" /\ copies[m] = 0
    /\ verdict' = [verdict EXCEPT ![m] = v]
    /\ copies' = [copies EXCEPT ![m] = 1]

Next ==
    \/ \E m \in Messages : Accept(m)
    \/ \E m \in Messages, v \in {"sent", "given_up"} : Settle(m, v)
    \/ \E group \in SUBSET Messages, v \in {"sent", "given_up"} : Close(group, v)

Spec == Init /\ [][Next]_<<verdict, copies>>
=============================================================================
