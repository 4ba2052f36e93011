--------------------------- MODULE ApprovalTicket ---------------------------
(***************************************************************************)
(* What an approval promises to the agent that waits for it and to the     *)
(* operator who answers it, without reviews, queues or tables: a ticket    *)
(* that can be granted once and used once, within its time, and never out  *)
(* of the hands of somebody who holds it back.                             *)
(***************************************************************************)
CONSTANT Tickets

VARIABLES ticket,   \* the state of each ticket
          overdue   \* the tickets whose time is over

ticketVars == <<ticket, overdue>>

TicketState == {"none", "issued", "held", "granted", "used", "closed"}

TicketInit ==
  /\ ticket = [t \in Tickets |-> "none"]
  /\ overdue = {}

(* The moves of one ticket.  A held ticket has to be released before it    *)
(* can be granted, and a used or closed one stays so.                      *)
Move(t) ==
  \/ ticket[t] = "none" /\ ticket'[t] \in {"issued", "held"}
  \/ ticket[t] = "issued" /\ ticket'[t] \in {"held", "closed"}
  \/ ticket[t] = "held" /\ ticket'[t] \in {"issued", "closed"}
  \/ ticket[t] = "issued" /\ ticket'[t] = "granted" /\ t \notin overdue
  \/ ticket[t] = "granted" /\ ticket'[t] = "used" /\ t \notin overdue

(* One step may move several tickets: a sweep, a review that ends, a       *)
(* restart.                                                                *)
TicketNext ==
  /\ ticket' \in [Tickets -> TicketState]
  /\ \A t \in Tickets : ticket'[t] = ticket[t] \/ Move(t)
  /\ overdue \subseteq overdue'
  /\ overdue' \subseteq Tickets

TicketSpec == TicketInit /\ [][TicketNext]_ticketVars
=============================================================================
