------------------------------ MODULE Reviews ------------------------------
(***************************************************************************)
(* ReviewService: the one review a customer may write of a product, which  *)
(* is shown once a moderator approved it and goes back to the queue when   *)
(* its author changes it.  Every operation reads the row, decides, and     *)
(* writes it without asking what has become of it.                         *)
(*                                                                         *)
(* What the review says (rating, text and media together) is a version     *)
(* number.  E-mails to the author and the administrators are left out.     *)
(***************************************************************************)
EXTENDS Integers

CONSTANTS
  Critics,       \* requests of the author and of moderators handled at the same time
  MaxVersions    \* bound: versions written

ASSUME ReviewConstantsOK == MaxVersions \in Nat

VARIABLES
  review,     \* the row: status ("none" without one), version, and deletedAt
  delivered,  \* an order of the product was delivered to the customer
  critic,     \* what each request is about to do, and what it read
  endorsed,   \* history: the version that was approved last, as the moderator saw it
  ruling,     \* history: "hide" from a rejection until the next approval
  blind,      \* history: a write overtook a change its request had not read, or an approval
              \* published a version its moderator had not seen
  versions

reviewVars == <<review, delivered, critic, endorsed, ruling, blind, versions>>

NoReview   == [is |-> "none", version |-> 0, gone |-> FALSE]
Unoccupied == [do |-> "idle", saw |-> NoReview]
CriticAt(c, what) == critic[c].do = what
CriticEnds(c)     == critic' = [critic EXCEPT ![c] = Unoccupied]
Reading(c, what) == CriticAt(c, "idle") /\ critic' = [critic EXCEPT ![c] = [do |-> what, saw |-> review]]
Standing   == review.is # "none" /\ ~review.gone
\* publicList
ReviewShown == review.is = "PUBLISHED" /\ ~review.gone
Overtaken(c) == review # critic[c].saw
NewVersion == versions < MaxVersions /\ versions' = versions + 1

ReviewInit ==
  /\ review = NoReview /\ delivered = FALSE
  /\ critic = [c \in Critics |-> Unoccupied]
  /\ endorsed = 0 /\ ruling = "none" /\ blind = FALSE /\ versions = 0

\* An order of the customer with this product is delivered.
ReceiveProduct ==
  /\ ~delivered /\ delivered' = TRUE
  /\ UNCHANGED <<review, critic, endorsed, ruling, blind, versions>>

(***************************************************************************)
(* The author: create, update and delete.                                  *)
(***************************************************************************)
\* create asks for a delivered order and for no row, not even a deleted one,
AskReview(c) ==
  /\ delivered /\ review.is = "none"
  /\ Reading(c, "create")
  /\ UNCHANGED <<review, delivered, endorsed, ruling, blind, versions>>

\* and a second row is refused by the unique pair of product and customer.
CreateReview(c) ==
  /\ CriticAt(c, "create")
  /\ IF review.is # "none" THEN UNCHANGED <<review, versions>>
     ELSE NewVersion /\ review' = [is |-> "PENDING", version |-> versions', gone |-> FALSE]
  /\ CriticEnds(c)
  /\ UNCHANGED <<delivered, endorsed, ruling, blind>>

AskEdit(c) ==
  /\ Standing /\ review.is # "HIDDEN"
  /\ Reading(c, "edit")
  /\ UNCHANGED <<review, delivered, endorsed, ruling, blind, versions>>

BackToQueue(c) == critic[c].saw.is = "PUBLISHED"

\* Media are replaced and the row is written in one transaction; its status is written only
\* if the row was published when it was read.
EditReview(c) ==
  /\ CriticAt(c, "edit") /\ NewVersion
  /\ review' = [review EXCEPT !.version = versions', !.is = IF BackToQueue(c) THEN "PENDING" ELSE @]
  /\ blind' = (blind \/ Overtaken(c))
  /\ CriticEnds(c)
  /\ UNCHANGED <<delivered, endorsed, ruling>>

AskDeletion(c) ==
  /\ Standing
  /\ Reading(c, "delete")
  /\ UNCHANGED <<review, delivered, endorsed, ruling, blind, versions>>

DeleteReview(c) ==
  /\ CriticAt(c, "delete")
  /\ review' = [review EXCEPT !.gone = TRUE]
  /\ CriticEnds(c)
  /\ UNCHANGED <<delivered, endorsed, ruling, blind, versions>>

(***************************************************************************)
(* Moderators: adminList shows a review; approve and reject come later,    *)
(* and ask only whether it still stands.                                   *)
(***************************************************************************)
Moderate(c) ==
  /\ Standing
  /\ Reading(c, "judge")
  /\ UNCHANGED <<review, delivered, endorsed, ruling, blind, versions>>

ApproveReview(c) ==
  /\ CriticAt(c, "judge") /\ Standing
  /\ review' = [review EXCEPT !.is = "PUBLISHED"]
  /\ endorsed' = critic[c].saw.version /\ ruling' = "none"
  /\ blind' = (blind \/ review.version # critic[c].saw.version)
  /\ CriticEnds(c)
  /\ UNCHANGED <<delivered, versions>>

RejectReview(c) ==
  /\ CriticAt(c, "judge") /\ Standing
  /\ review' = [review EXCEPT !.is = "HIDDEN"]
  /\ ruling' = "hide"
  /\ CriticEnds(c)
  /\ UNCHANGED <<delivered, endorsed, blind, versions>>

\* A request dies, its client leaves, or the row is gone by then (NotFoundException).
LeaveReview(c) ==
  /\ ~CriticAt(c, "idle")
  /\ CriticEnds(c)
  /\ UNCHANGED <<review, delivered, endorsed, ruling, blind, versions>>

-----------------------------------------------------------------------------
ReviewNext ==
  \/ ReceiveProduct
  \/ \E c \in Critics :
       \/ AskReview(c) \/ CreateReview(c) \/ AskEdit(c) \/ EditReview(c) \/ AskDeletion(c)
       \/ DeleteReview(c) \/ Moderate(c) \/ ApproveReview(c) \/ RejectReview(c) \/ LeaveReview(c)

ReviewSpec == ReviewInit /\ [][ReviewNext]_reviewVars

-----------------------------------------------------------------------------
\* Every variable has its type.
ReviewTypeOK ==
  LET Rows == [is : {"none", "PENDING", "PUBLISHED", "HIDDEN"}, version : 0 .. MaxVersions, gone : BOOLEAN]
  IN  /\ review \in Rows /\ delivered \in BOOLEAN
      /\ critic \in [Critics -> [do : {"idle", "create", "edit", "delete", "judge"}, saw : Rows]]
      /\ endorsed \in 0 .. MaxVersions /\ ruling \in {"none", "hide"} /\ blind \in BOOLEAN
      /\ versions \in 0 .. MaxVersions

\* Unless a request wrote over a change it had not read, what the public sees is the version
\* a moderator approved, a review hidden by a moderator stays hidden until one approves it,
\* and nobody reviews what was not delivered.
PublishedAsApproved ==
  /\ review.is # "none" => delivered
  /\ ~blind => /\ ReviewShown => review.version = endorsed
               /\ ruling = "hide" => review.is = "HIDDEN"
=============================================================================
