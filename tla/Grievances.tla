---------------------------- MODULE Grievances ----------------------------
(***************************************************************************)
(* GrievanceService: one complaint, its customer, the officers and the     *)
(* daily sweep that escalates what is past its deadline.                   *)
(* A request reads the complaint, decides, and writes in a transaction     *)
(* whose update is guarded by the statuses it may come from.               *)
(*                                                                         *)
(* Messages and contents are left out, and so are the e-mails (Outbox) and *)
(* the monthly report, which reads resolvedAt.  Time is counted in steps   *)
(* of which Sla gives each priority a number.                              *)
(***************************************************************************)
EXTENDS Integers

CONSTANTS
  Officers,    \* requests and sweeps handled at the same time
  Priorities,  \* GrievancePriority
  Sla,         \* GRIEVANCE_SLA_HOURS
  First,       \* defaultPriorityForCategory of this complaint
  MaxAge,      \* bound: steps of time
  MaxReopens   \* bound: times a resolved complaint is reopened

ASSUME GrievanceConstantsOK == /\ First \in Priorities /\ Sla \in [Priorities -> Nat]
                               /\ MaxAge \in Nat /\ MaxReopens \in Nat

OpenStatuses == {"OPEN", "IN_PROGRESS"}
AllStatuses  == OpenStatuses \union {"ESCALATED", "RESOLVED", "CLOSED"}

VARIABLES
  ticket,      \* the Grievance row
  waited,         \* time since it was filed
  oreq,        \* what each request is about to do, and the row it read
  escalations, \* history: times it was escalated
  reopens      \* history: times it was reopened

grievanceVars == <<ticket, waited, oreq, escalations, reopens>>

\* fileGrievance.
Filed  == [status |-> "OPEN", priority |-> First, due |-> Sla[First], assigned |-> FALSE,
           responded |-> FALSE, resolved |-> FALSE]
NoOreq == [do |-> "idle", read |-> Filed]

GrievanceInit ==
  /\ ticket = Filed /\ waited = 0
  /\ oreq = [o \in Officers |-> NoOreq]
  /\ escalations = 0 /\ reopens = 0

\* requireGrievance, and the check of what was read.
TicketOpens(o, what, allowed) ==
  /\ oreq[o].do = "idle" /\ ticket.status \in allowed
  /\ oreq' = [oreq EXCEPT ![o] = [do |-> what, read |-> ticket]]
  /\ UNCHANGED <<ticket, waited, escalations, reopens>>

ReplyRead(o)    == TicketOpens(o, "reply", AllStatuses \ {"CLOSED"})
AssignRead(o)   == TicketOpens(o, "assign", AllStatuses \ {"CLOSED"})
RespondRead(o)  == TicketOpens(o, "respond", AllStatuses \ {"CLOSED"})
ResolveRead(o)  == TicketOpens(o, "resolve", OpenStatuses \union {"ESCALATED"})
EscalateRead(o) == TicketOpens(o, "escalate", OpenStatuses)
CloseRead(o)    == TicketOpens(o, "close", {"RESOLVED"})

\* runSlaEscalation lists what is overdue, of the open statuses, and escalates one by one.
SweepRead(o)    == ticket.due < waited /\ TicketOpens(o, "escalate", OpenStatuses)

Commits(o, what) == oreq[o].do = what /\ oreq' = [oreq EXCEPT ![o] = NoOreq] /\ UNCHANGED waited

\* updateMany: changes the row if its status is still one of those.
Guarded(from, row) == ticket' = IF ticket.status \in from THEN row ELSE ticket

\* Slip: the time of the resolution stays.
ReopenedKeeping(g) == [g EXCEPT !.status = "IN_PROGRESS"]

Reopened(g) == [g EXCEPT !.status = "IN_PROGRESS", !.resolved = FALSE]

\* replyToGrievance: the message is written in any case; a resolved complaint opens again.
ReplyWrite(o) ==
  /\ Commits(o, "reply")
  /\ IF oreq[o].read.status = "RESOLVED" /\ ticket.status = "RESOLVED"
     THEN reopens < MaxReopens /\ reopens' = reopens + 1 /\ ticket' = Reopened(ticket)
     ELSE UNCHANGED <<ticket, reopens>>
  /\ UNCHANGED escalations

\* assignGrievance: with another priority the deadline is counted again from the filing.
AssignWrite(o, p) ==
  LET g == oreq[o].read  opens == g.status = "OPEN" IN
  /\ Commits(o, "assign")
  /\ Guarded(IF opens THEN {"OPEN"} ELSE {"IN_PROGRESS", "ESCALATED"},
             [ticket EXCEPT !.assigned = TRUE, !.priority = p,
                            !.due = IF p # g.priority THEN Sla[p] ELSE g.due,
                            !.status = IF opens THEN "IN_PROGRESS" ELSE @,
                            !.responded = opens \/ @])
  /\ UNCHANGED <<escalations, reopens>>

\* respondToGrievance, in public; an internal note changes nothing.
RespondWrite(o) ==
  LET g == oreq[o].read IN
  /\ Commits(o, "respond")
  /\ IF g.status = "OPEN"
     THEN Guarded({"OPEN"}, [ticket EXCEPT !.status = "IN_PROGRESS", !.responded = TRUE])
     ELSE IF ~g.responded THEN Guarded({"IN_PROGRESS", "ESCALATED"}, [ticket EXCEPT !.responded = TRUE])
     ELSE UNCHANGED ticket
  /\ UNCHANGED <<escalations, reopens>>

ResolveWrite(o) ==
  /\ Commits(o, "resolve")
  /\ Guarded(OpenStatuses \union {"ESCALATED"},
             [ticket EXCEPT !.status = "RESOLVED", !.resolved = TRUE, !.responded = TRUE])
  /\ UNCHANGED <<escalations, reopens>>

\* applyEscalation.
EscalateWrite(o) ==
  /\ Commits(o, "escalate")
  /\ Guarded(OpenStatuses, [ticket EXCEPT !.status = "ESCALATED"])
  /\ escalations' = escalations + IF ticket.status \in OpenStatuses THEN 1 ELSE 0
  /\ UNCHANGED <<reopens>>

CloseWrite(o) ==
  /\ Commits(o, "close")
  /\ Guarded({"RESOLVED"}, [ticket EXCEPT !.status = "CLOSED"])
  /\ UNCHANGED <<escalations, reopens>>

DeadlineNears ==
  /\ waited < MaxAge /\ waited' = waited + 1
  /\ UNCHANGED <<ticket, oreq, escalations, reopens>>

-----------------------------------------------------------------------------
GrievanceNext ==
  \/ DeadlineNears
  \/ \E o \in Officers :
       \/ ReplyRead(o) \/ AssignRead(o) \/ RespondRead(o) \/ ResolveRead(o) \/ EscalateRead(o)
       \/ CloseRead(o) \/ SweepRead(o)
       \/ ReplyWrite(o) \/ RespondWrite(o) \/ ResolveWrite(o) \/ EscalateWrite(o) \/ CloseWrite(o)
       \/ \E p \in Priorities : AssignWrite(o, p)

GrievanceSpec == GrievanceInit /\ [][GrievanceNext]_grievanceVars

-----------------------------------------------------------------------------
Tickets == [status : AllStatuses, priority : Priorities, due : Nat, assigned : BOOLEAN,
            responded : BOOLEAN, resolved : BOOLEAN]

\* Every variable has its type.
GrievanceTypeOK ==
  /\ ticket \in Tickets /\ waited \in 0 .. MaxAge
  /\ oreq \in [Officers -> [do : {"idle", "reply", "assign", "respond", "resolve", "escalate",
                                  "close"}, read : Tickets]]
  /\ escalations \in Nat /\ reopens \in 0 .. MaxReopens

\* Whatever requests overlap: a complaint counts as resolved exactly while it is resolved or
\* closed, its deadline is that of its priority, it was answered before it went on, and it is
\* escalated once at most, and once more each time the customer reopened it.
ComplaintsInOrder ==
  /\ ticket.resolved <=> ticket.status \in {"RESOLVED", "CLOSED"}
  /\ ticket.due = Sla[ticket.priority]
  /\ ticket.status \in {"IN_PROGRESS", "RESOLVED", "CLOSED"} => ticket.responded
  /\ escalations =< 1 + reopens
=============================================================================
