------------------------------ MODULE Sellers ------------------------------
(***************************************************************************)
(* SellerService: the onboarding of one seller.  The seller edits and      *)
(* submits a profile, administrators stamp its sections one by one, and    *)
(* the last stamp verifies it; an administrator can also set any status.   *)
(* Every operation reads the row and writes it later by its id, whatever   *)
(* it has become meanwhile, even deleted.                                  *)
(*                                                                         *)
(* The profile's fields are left out: a profile is complete, and the GSTIN *)
(* section is among Sections when the seller has a GSTIN.                  *)
(***************************************************************************)
EXTENDS Integers

CONSTANTS
  Sections,    \* the sections that must be verified
  Desks,       \* requests handled at the same time
  MaxRulings   \* bound: statuses set by an administrator

ASSUME SellerConstantsOK == MaxRulings \in Nat

KycStatuses == {"DRAFT", "PENDING", "UNDER_REVIEW", "VERIFIED", "REJECTED", "SUSPENDED"}
Barred   == {"REJECTED", "SUSPENDED"}

VARIABLES
  kyc,       \* Seller.overallStatus; "none" before the profile exists
  removed,   \* Seller.deletedAt is set
  stamped,   \* the sections with a verification time
  kreq,      \* what each request is about to do, the status it read, and if that is stale
  letters,   \* kinds of KYC notification; its dedupe key admits one of each kind
  rulings,   \* statuses set so far
  ruled,     \* history: the last ruling, "none" once the seller reopened the profile
  overtaken  \* history: what a request had read before a ruling overwrote it

sellerVars == <<kyc, removed, stamped, kreq, letters, rulings, ruled, overtaken>>

NoDesk == [do |-> "idle", saw |-> "none", late |-> FALSE, of |-> "none"]
DeskDoes(d, what) == kreq[d].do = what
DeskThen(d, what)  == kreq' = [kreq EXCEPT ![d].do = what]
DeskDone(d)        == kreq' = [kreq EXCEPT ![d] = NoDesk]
Reads(d, what, of) ==
  /\ DeskDoes(d, "idle") /\ kyc # "none" /\ ~removed
  /\ kreq' = [kreq EXCEPT ![d] = [do |-> what, saw |-> kyc, late |-> FALSE, of |-> of]]
  /\ UNCHANGED <<kyc, removed, stamped, letters, rulings, ruled, overtaken>>

SellerInit ==
  /\ kyc = "none" /\ removed = FALSE /\ stamped = {}
  /\ kreq = [d \in Desks |-> NoDesk]
  /\ letters = {}
  /\ rulings = 0 /\ ruled = "none" /\ overtaken = FALSE

\* createSelf; adminCreate makes a verified one and sends nothing.
CreateSeller ==
  /\ kyc = "none"
  /\ \/ kyc' = "DRAFT" /\ UNCHANGED stamped
     \/ kyc' = "VERIFIED" /\ stamped' = Sections
  /\ UNCHANGED <<removed, kreq, letters, rulings, ruled, overtaken>>

\* The status of the profile becomes st, by a request that may have been overtaken.
Becomes(d, st) ==
  /\ kyc' = st
  /\ overtaken' = (overtaken \/ kreq[d].late)

\* update: the seller may in DRAFT and REJECTED, an administrator always; no stamp goes.
EditRead(d, admin) ==
  /\ admin \/ kyc \in {"DRAFT", "REJECTED"}
  /\ Reads(d, "edit", "none")

EditWrite(d) ==
  /\ DeskDoes(d, "edit")
  /\ IF kreq[d].saw = "REJECTED"
     THEN Becomes(d, "DRAFT") /\ ruled' = "none"
     ELSE UNCHANGED <<kyc, overtaken, ruled>>
  /\ DeskDone(d)
  /\ UNCHANGED <<removed, stamped, letters, rulings>>

\* submitForReview.
SubmitRead(d) == kyc = "DRAFT" /\ Reads(d, "submit", "none")

SubmitWrite(d) ==
  /\ DeskDoes(d, "submit")
  /\ Becomes(d, "PENDING")
  /\ DeskDone(d)
  /\ UNCHANGED <<removed, stamped, letters, rulings, ruled>>

\* verifySection reads the seller,
SectionRead(d, s) == Reads(d, "stamp", s)

\* Slip: the last stamp decides in every status.
DecidesAlways(saw) == TRUE

Decides(saw) == saw \in {"PENDING", "UNDER_REVIEW"}

\* stamps the section, or clears it, and decides from the stamps now and the status read,
SectionStamp(d) ==
  /\ DeskDoes(d, "stamp")
  /\ \E now \in {stamped \union {kreq[d].of}, stamped \ {kreq[d].of}} :
       /\ stamped' = now
       /\ IF Decides(kreq[d].saw) /\ Sections \subseteq now THEN DeskThen(d, "approve")
          ELSE IF kreq[d].saw = "PENDING" /\ now # {} THEN DeskThen(d, "review")
          ELSE DeskDone(d)
  /\ UNCHANGED <<kyc, removed, letters, rulings, ruled, overtaken>>

\* and verifies the seller in a transaction with its event,
Approve(d) ==
  /\ DeskDoes(d, "approve")
  /\ Becomes(d, "VERIFIED")
  /\ letters' = letters \union {"VERIFIED"}
  /\ DeskDone(d)
  /\ UNCHANGED <<removed, stamped, rulings, ruled>>

\* or records that the review has begun.
Review(d) ==
  /\ DeskDoes(d, "review")
  /\ Becomes(d, "UNDER_REVIEW")
  /\ DeskDone(d)
  /\ UNCHANGED <<removed, stamped, letters, rulings, ruled>>

\* setStatus reads the previous status, and writes any other.
RuleRead(d, st) == rulings < MaxRulings /\ Reads(d, "rule", st)

RuleWrite(d) ==
  LET st == kreq[d].of IN
  /\ DeskDoes(d, "rule") /\ rulings < MaxRulings
  /\ kyc' = st
  /\ rulings' = rulings + 1
  /\ ruled' = st
  /\ letters' = letters \union (({st} \ {kreq[d].saw}) \cap {"VERIFIED", "REJECTED"})
  /\ kreq' = [e \in Desks |-> IF e = d THEN NoDesk ELSE [kreq[e] EXCEPT !.late = kreq[e] # NoDesk]]
  /\ overtaken' = FALSE
  /\ UNCHANGED <<removed, stamped>>

RemoveSeller ==
  /\ kyc # "none" /\ ~removed /\ removed' = TRUE
  /\ UNCHANGED <<kyc, stamped, kreq, letters, rulings, ruled, overtaken>>

-----------------------------------------------------------------------------
SellerNext ==
  \/ CreateSeller \/ RemoveSeller
  \/ \E d \in Desks :
       \/ \E admin \in BOOLEAN : EditRead(d, admin)
       \/ \E s \in Sections : SectionRead(d, s)
       \/ \E st \in KycStatuses : RuleRead(d, st)
       \/ SubmitRead(d) \/ EditWrite(d) \/ SubmitWrite(d) \/ SectionStamp(d) \/ Approve(d)
       \/ Review(d) \/ RuleWrite(d)

SellerSpec == SellerInit /\ [][SellerNext]_sellerVars

-----------------------------------------------------------------------------
\* Every variable has its type.
SellerTypeOK ==
  /\ kyc \in KycStatuses \union {"none"} /\ removed \in BOOLEAN /\ stamped \subseteq Sections
  /\ kreq \in [Desks -> [do : {"idle", "edit", "submit", "stamp", "approve", "review", "rule"},
                         saw : KycStatuses \union {"none"}, late : BOOLEAN,
                         of : Sections \union KycStatuses \union {"none"}]]
  /\ letters \subseteq {"VERIFIED", "REJECTED"}
  /\ rulings \in 0 .. MaxRulings /\ ruled \in KycStatuses \union {"none"} /\ overtaken \in BOOLEAN

\* A seller whom an administrator suspended or rejected stays barred until an administrator
\* rules again or, once rejected, the profile is edited: no stamp, edit or submission brings
\* the seller back, except one that had read the profile before that ruling.
RulingsStand == ruled \in Barred => kyc = ruled \/ overtaken
=============================================================================
