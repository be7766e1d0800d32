---------------------------- MODULE PeopleProofs ----------------------------
(***************************************************************************)
(* Proofs about the parts of People that concern one account or one office *)
(* each: for any requests, rows, priorities and bounds.  Only the part at  *)
(* work takes a step, so each part has an invariant of its own:            *)
(*                                                                         *)
(*   GrievanceInv  who acts on a complaint knows its deadline              *)
(*   PrivacyInv    an erasure that is due was asked for, and not undone    *)
(*   AddressInv    requests that overlap are the only way to two defaults  *)
(*   SellerInv     who has read the seller since it was barred respects it *)
(*   SessionInv    a live token goes under the password, or is late        *)
(*   RoleInv       what is about to be granted, somebody holds             *)
(*   SiteInv       who marks a row is about to clear the others            *)
(*   TermInv       who writes the terms has read the last                  *)
(*   CartInv       each line is covered by a credit, and all credits       *)
(*                 together by what was asked for                          *)
(*   ViewInv       what was looked at is as it was, or is known to differ  *)
(*   CouponInv     the order validated alone finds room for its redemption *)
(*   PricingInv    a quote is what the remembered rates come to, and the   *)
(*                 figures of an order agree within their roundings        *)
(*   InvoiceInv    a job that renders or links has a number of its own     *)
(*   DepositInv    what was read of a closed month is what the ledger says *)
(***************************************************************************)
EXTENDS People, SumTheorems, SequenceTheorems, TLAPS

\* Only the part at work takes a step.
LEMMA OneAtWork ==
  ASSUME [PeopleNext]_peopleVars
  PROVE  /\ [CartNext]_cartVars /\ [ViewNext]_viewVars /\ [CouponNext]_couponVars
         /\ [PricingNext]_pricingVars /\ [InvoiceNext]_invoiceVars
         /\ [SessionNext]_sessionVars /\ [RoleNext]_roleVars /\ [AddressNext]_addressVars
         /\ [SellerNext]_sellerVars /\ [SiteNext]_siteVars /\ [TermNext]_termVars
         /\ [GrievanceNext]_grievanceVars /\ [PrivacyNext]_privacyVars
         /\ [DepositNext]_depositVars /\ UNCHANGED focus
<1>1. CASE UNCHANGED peopleVars
  BY <1>1 DEF peopleVars, storeVars
<1>2. CASE PeopleNext
  BY <1>2 DEF PeopleNext, Apart
<1> QED BY <1>1, <1>2

-----------------------------------------------------------------------------
(***************************************************************************)
(* Grievances.                                                             *)
(***************************************************************************)
\* A complaint still open was escalated no more often than reopened, and the deadline a
\* request has read is that of the priority it has read.
GrievanceInv ==
  /\ GrievanceTypeOK /\ ComplaintsInOrder
  /\ ticket.status \in OpenStatuses => escalations =< reopens
  /\ \A o \in Officers : oreq[o].read.due = Sla[oreq[o].read.priority]

\* A complaint starts with its clock right.
LEMMA GrievancesStart == GrievanceInit => GrievanceInv
BY GrievanceConstantsOK
DEF GrievanceInit, GrievanceInv, GrievanceTypeOK, ComplaintsInOrder, Filed, NoOreq, Tickets,
    AllStatuses, OpenStatuses

\* Every step on a complaint keeps its clock right.
LEMMA GrievancesGoOn ==
  ASSUME GrievanceInv, [GrievanceNext]_grievanceVars
  PROVE  GrievanceInv'
<1> USE GrievanceConstantsOK
    DEF GrievanceInv, GrievanceTypeOK, ComplaintsInOrder, Tickets, AllStatuses, OpenStatuses
<1>1. CASE UNCHANGED grievanceVars
  BY <1>1 DEF grievanceVars
<1>2. CASE DeadlineNears
  BY <1>2 DEF DeadlineNears
<1>3. ASSUME NEW o \in Officers, NEW what \in {"reply", "assign", "respond", "resolve", "escalate", "close"},
             NEW allowed, TicketOpens(o, what, allowed)
      PROVE  GrievanceInv'
  BY <1>3 DEF TicketOpens
<1>4. ASSUME NEW o \in Officers, ReplyWrite(o) PROVE GrievanceInv'
  <2>1. CASE oreq[o].read.status = "RESOLVED" /\ ticket.status = "RESOLVED"
    <3>1. ticket' = [ticket EXCEPT !.status = "IN_PROGRESS", !.resolved = FALSE]
      BY <1>4, <2>1 DEF ReplyWrite, Reopened
    <3>2. reopens < MaxReopens /\ reopens' = reopens + 1 /\ UNCHANGED <<escalations, waited>>
      BY <1>4, <2>1 DEF ReplyWrite, Commits
    <3>3. oreq' = [oreq EXCEPT ![o] = NoOreq]
      BY <1>4 DEF ReplyWrite, Commits
    <3>4. (ticket \in Tickets)'
      BY <3>1
    <3>5. (GrievanceTypeOK)'
      BY <3>2, <3>3, <3>4 DEF NoOreq, Filed
    <3>6. (\A b \in Officers : oreq[b].read.due = Sla[oreq[b].read.priority])'
      BY <3>3 DEF NoOreq, Filed
    <3>7. ComplaintsInOrder' /\ (ticket.status \in OpenStatuses => escalations =< reopens)'
      BY <2>1, <3>1, <3>2
    <3> QED BY <3>5, <3>6, <3>7
  <2>2. CASE ~ (oreq[o].read.status = "RESOLVED" /\ ticket.status = "RESOLVED")
    BY <1>4, <2>2 DEF ReplyWrite, Commits, NoOreq, Filed
  <2> QED BY <2>1, <2>2
<1>5. ASSUME NEW o \in Officers, RespondWrite(o) PROVE GrievanceInv'
  BY <1>5, ZenonT(60) DEF RespondWrite, Commits, Guarded, NoOreq, Filed
<1>6. ASSUME NEW o \in Officers, ResolveWrite(o) PROVE GrievanceInv'
  BY <1>6 DEF ResolveWrite, Commits, Guarded, NoOreq, Filed
<1>7. ASSUME NEW o \in Officers, EscalateWrite(o) PROVE GrievanceInv'
  BY <1>7 DEF EscalateWrite, Commits, Guarded, NoOreq, Filed
<1>8. ASSUME NEW o \in Officers, CloseWrite(o) PROVE GrievanceInv'
  BY <1>8 DEF CloseWrite, Commits, Guarded, NoOreq, Filed
<1>9. ASSUME NEW o \in Officers, NEW p \in Priorities, AssignWrite(o, p) PROVE GrievanceInv'
  BY <1>9, ZenonT(60) DEF AssignWrite, Commits, Guarded, NoOreq, Filed
<1> QED
  BY <1>1, <1>2, <1>3, <1>4, <1>5, <1>6, <1>7, <1>8, <1>9
  DEF GrievanceNext, ReplyRead, AssignRead, RespondRead, ResolveRead, EscalateRead, CloseRead, SweepRead

-----------------------------------------------------------------------------
(***************************************************************************)
(* Erasure.                                                                *)
(***************************************************************************)
\* Unless two asked at once, at most one request is in grace, none while another is asked for,
\* and the user wants it; and unless one was made during a sweep, all that are in grace are due
\* while a sweep is under way.
GraceInv ==
  /\ erasedAs = "keep" => "doubled" \in excuses
  /\ "doubled" \in excuses
     \/ /\ InGrace # {} => wish = "delete"
        /\ \A i, j \in InGrace : i = j
        /\ \A h \in Hands : hand[h].do = "ask" => InGrace = {}
        /\ \A h, o \in Hands : hand[h].do = "ask" /\ hand[o].do = "ask" => h = o
SweepInv ==
  excuses = {} =>
    /\ \A i \in RequestIds : erasure[i].is = "ANONYMIZED" => erasure[i].due
    /\ \A h \in Hands : hand[h].do = "erase" => \A i \in InGrace : erasure[i].due
PrivacyInv == PrivacyTypeOK /\ GraceInv /\ SweepInv

\* An account starts with no erasure asked for.
LEMMA PrivacyStarts == PrivacyInit => PrivacyInv
<1> SUFFICES ASSUME PrivacyInit PROVE PrivacyInv
  OBVIOUS
<1> USE PrivacyConstantsOK DEF PrivacyInit, NoHand, InGrace
<1>1. PrivacyTypeOK
  <2>1. erasure \in [RequestIds -> [is : {"none", "GRACE", "CANCELLED", "ANONYMIZED"}, due : BOOLEAN]]
    OBVIOUS
  <2>2. hand \in [Hands -> [do : {"idle", "ask", "cancel", "profile", "erase", "bundle"},
                           id : RequestIds \union {0}]]
    OBVIOUS
  <2>3. (acct \in {"active", "inactive", "anonymized"}) /\ wish \in {"delete", "keep"} /\ excuses = {}
    OBVIOUS
  <2>4. /\ export \in {"none", "PENDING", "PROCESSING", "READY", "EXPIRED", "FAILED"}
        /\ erasedAs \in {"none", "delete", "keep"} /\ restores \in 0 .. MaxRestores
    OBVIOUS
  <2>5. personal \in BOOLEAN /\ archived \in BOOLEAN /\ signedIn \in BOOLEAN
    OBVIOUS
  <2> HIDE DEF PrivacyInit
  <2> QED BY <2>1, <2>2, <2>3, <2>4, <2>5 DEF PrivacyTypeOK
<1>2. GraceInv
  BY DEF GraceInv
<1>3. SweepInv
  BY DEF SweepInv
<1> QED BY <1>1, <1>2, <1>3 DEF PrivacyInv

\* The request looked up last is one of those it was looked up among.
LEMMA LatestIn ==
  ASSUME NEW S \in SUBSET RequestIds, S # {}
  PROVE  Latest(S) \in S
<1> DEFINE B == {MaxRequests - i : i \in S}
<1>1. B \in SUBSET Nat /\ B # {}
  BY PrivacyConstantsOK DEF RequestIds
<1>2. PICK n \in B : \A k \in B : n =< k
  <2> HIDE DEF B
  <2> QED BY <1>1, LeastNat
<1>3. PICK i \in S : n = MaxRequests - i
  OBVIOUS
<1>4. \A j \in S : j =< i
  <2> TAKE j \in S
  <2>1. MaxRequests - j \in B
    OBVIOUS
  <2>2. n =< MaxRequests - j
    BY <1>2, <2>1
  <2>3. i \in Int /\ j \in Int /\ MaxRequests \in Int
    BY PrivacyConstantsOK DEF RequestIds
  <2> QED BY <2>2, <2>3, <1>3
<1> QED BY <1>4 DEF Latest

\* Every step on an account keeps its types.
LEMMA PrivacyTyped ==
  ASSUME PrivacyTypeOK, [PrivacyNext]_privacyVars
  PROVE  PrivacyTypeOK'
<1> USE PrivacyConstantsOK DEF PrivacyTypeOK, HandsBusy, InGrace, subjectVars
<1>1. CASE UNCHANGED privacyVars
  BY <1>1 DEF privacyVars
<1>2. CASE TokenExpires
  BY <1>2 DEF TokenExpires
<1>3. CASE RequestExport
  BY <1>3 DEF RequestExport
<1>4. CASE SweepExports
  BY <1>4 DEF SweepExports
<1>5. CASE AdminArchive
  BY <1>5 DEF AdminArchive
<1>6. CASE AdminRestore
  <2>1. (personal \in BOOLEAN /\ archived \in BOOLEAN /\ signedIn \in BOOLEAN)'
    BY <1>6 DEF AdminRestore
  <2>2. (acct \in {"active", "inactive", "anonymized"})'
    BY <1>6 DEF AdminRestore
  <2>3. (erasure \in [RequestIds -> [is : {"none", "GRACE", "CANCELLED", "ANONYMIZED"}, due : BOOLEAN]])'
    BY <1>6 DEF AdminRestore
  <2>4. (export \in {"none", "PENDING", "PROCESSING", "READY", "EXPIRED", "FAILED"})'
    BY <1>6 DEF AdminRestore
  <2>5. (hand \in [Hands -> [do : {"idle", "ask", "cancel", "profile", "erase", "bundle"}, id : RequestIds \union {0}]])'
    BY <1>6 DEF AdminRestore
  <2>6. (wish \in {"delete", "keep"} /\ excuses \subseteq {"doubled", "hasty"})'
    BY <1>6 DEF AdminRestore
  <2>7. (erasedAs \in {"none", "delete", "keep"} /\ restores \in 0 .. MaxRestores)'
    BY <1>6 DEF AdminRestore
  <2> QED BY <2>1, <2>2, <2>3, <2>4, <2>5, <2>6, <2>7 DEF PrivacyTypeOK
<1>7. ASSUME NEW i \in RequestIds, GraceEnds(i) PROVE PrivacyTypeOK'
  BY <1>7, ZenonT(60) DEF GraceEnds
<1>8. ASSUME NEW h \in Hands, AskErasure(h) PROVE PrivacyTypeOK'
  BY <1>8 DEF AskErasure, Takes
<1>9. ASSUME NEW h \in Hands, CreateErasure(h) PROVE PrivacyTypeOK'
  BY <1>9 DEF CreateErasure, HandRests, NoHand
<1>10. ASSUME NEW h \in Hands, AskCancel(h) PROVE PrivacyTypeOK'
  <2>1. Latest(InGrace) \in RequestIds
    <3>1. InGrace # {} /\ InGrace \in SUBSET RequestIds
      BY <1>10 DEF AskCancel
    <3> HIDE DEF InGrace
    <3> QED BY <3>1, LatestIn
  <2> HIDE DEF InGrace
  <2>2. (hand \in [Hands -> [do : {"idle", "ask", "cancel", "profile", "erase", "bundle"}, id : RequestIds \union {0}]])'
    BY <1>10, <2>1 DEF AskCancel, Takes
  <2> QED BY <1>10, <2>2 DEF AskCancel, Takes
<1>11. ASSUME NEW h \in Hands, CancelErasure(h) PROVE PrivacyTypeOK'
  <2>1. (personal \in BOOLEAN /\ archived \in BOOLEAN /\ signedIn \in BOOLEAN)'
    BY <1>11 DEF CancelErasure, HandRests, NoHand, StillInGrace
  <2>2. (acct \in {"active", "inactive", "anonymized"})'
    BY <1>11 DEF CancelErasure, HandRests, NoHand, StillInGrace
  <2>3. (erasure \in [RequestIds -> [is : {"none", "GRACE", "CANCELLED", "ANONYMIZED"}, due : BOOLEAN]])'
    BY <1>11 DEF CancelErasure, HandRests, NoHand, StillInGrace
  <2>4. (export \in {"none", "PENDING", "PROCESSING", "READY", "EXPIRED", "FAILED"})'
    BY <1>11 DEF CancelErasure, HandRests, NoHand, StillInGrace
  <2>5. (hand \in [Hands -> [do : {"idle", "ask", "cancel", "profile", "erase", "bundle"}, id : RequestIds \union {0}]])'
    BY <1>11 DEF CancelErasure, HandRests, NoHand, StillInGrace
  <2>6. (wish \in {"delete", "keep"} /\ excuses \subseteq {"doubled", "hasty"})'
    BY <1>11 DEF CancelErasure, HandRests, NoHand, StillInGrace
  <2>7. (erasedAs \in {"none", "delete", "keep"} /\ restores \in 0 .. MaxRestores)'
    BY <1>11 DEF CancelErasure, HandRests, NoHand, StillInGrace
  <2> QED BY <2>1, <2>2, <2>3, <2>4, <2>5, <2>6, <2>7 DEF PrivacyTypeOK
<1>12. ASSUME NEW h \in Hands, EditProfile(h) PROVE PrivacyTypeOK'
  BY <1>12 DEF EditProfile, Takes
<1>13. ASSUME NEW h \in Hands, WriteProfile(h) PROVE PrivacyTypeOK'
  BY <1>13 DEF WriteProfile, HandRests, NoHand
<1>14. ASSUME NEW h \in Hands, Anonymize(h) PROVE PrivacyTypeOK'
  <2>1. (personal \in BOOLEAN /\ archived \in BOOLEAN /\ signedIn \in BOOLEAN)'
    BY <1>14 DEF Anonymize, HandRests, NoHand
  <2>2. (acct \in {"active", "inactive", "anonymized"})'
    BY <1>14 DEF Anonymize, HandRests, NoHand
  <2>3. (erasure \in [RequestIds -> [is : {"none", "GRACE", "CANCELLED", "ANONYMIZED"}, due : BOOLEAN]])'
    BY <1>14 DEF Anonymize, HandRests, NoHand
  <2>4. (export \in {"none", "PENDING", "PROCESSING", "READY", "EXPIRED", "FAILED"})'
    BY <1>14 DEF Anonymize, HandRests, NoHand
  <2>5. (hand \in [Hands -> [do : {"idle", "ask", "cancel", "profile", "erase", "bundle"}, id : RequestIds \union {0}]])'
    BY <1>14 DEF Anonymize, HandRests, NoHand
  <2>6. (wish \in {"delete", "keep"} /\ excuses \subseteq {"doubled", "hasty"})'
    BY <1>14 DEF Anonymize, HandRests, NoHand
  <2>7. (erasedAs \in {"none", "delete", "keep"} /\ restores \in 0 .. MaxRestores)'
    BY <1>14 DEF Anonymize, HandRests, NoHand
  <2> QED BY <2>1, <2>2, <2>3, <2>4, <2>5, <2>6, <2>7 DEF PrivacyTypeOK
<1>15. ASSUME NEW h \in Hands, BuildExport(h) PROVE PrivacyTypeOK'
  <2>1. (personal \in BOOLEAN /\ archived \in BOOLEAN /\ signedIn \in BOOLEAN)'
    BY <1>15 DEF BuildExport, Takes
  <2>2. (acct \in {"active", "inactive", "anonymized"})'
    BY <1>15 DEF BuildExport, Takes
  <2>3. (erasure \in [RequestIds -> [is : {"none", "GRACE", "CANCELLED", "ANONYMIZED"}, due : BOOLEAN]])'
    BY <1>15 DEF BuildExport, Takes
  <2>4. (export \in {"none", "PENDING", "PROCESSING", "READY", "EXPIRED", "FAILED"})'
    BY <1>15 DEF BuildExport, Takes
  <2>5. (hand \in [Hands -> [do : {"idle", "ask", "cancel", "profile", "erase", "bundle"}, id : RequestIds \union {0}]])'
    BY <1>15 DEF BuildExport, Takes
  <2>6. (wish \in {"delete", "keep"} /\ excuses \subseteq {"doubled", "hasty"})'
    BY <1>15 DEF BuildExport, Takes
  <2>7. (erasedAs \in {"none", "delete", "keep"} /\ restores \in 0 .. MaxRestores)'
    BY <1>15 DEF BuildExport, Takes
  <2> QED BY <2>1, <2>2, <2>3, <2>4, <2>5, <2>6, <2>7 DEF PrivacyTypeOK
<1>16. ASSUME NEW h \in Hands, StoreExport(h) PROVE PrivacyTypeOK'
  BY <1>16 DEF StoreExport, HandRests, NoHand
<1>17. ASSUME NEW h \in Hands, NEW i \in RequestIds, SweepErasures(h, i) PROVE PrivacyTypeOK'
  BY <1>17 DEF SweepErasures, Takes
<1> QED
  BY <1>1, <1>2, <1>3, <1>4, <1>5, <1>6, <1>7, <1>8, <1>9, <1>10, <1>11, <1>12, <1>13, <1>14, <1>15, <1>16, <1>17
  DEF PrivacyNext

\* Every step on an account keeps erasure as it was asked.
LEMMA PrivacyGoesOn ==
  ASSUME PrivacyInv, [PrivacyNext]_privacyVars
  PROVE  PrivacyInv'
<1>0. PrivacyTypeOK'
  BY PrivacyTyped DEF PrivacyInv
<1> USE DEF PrivacyTypeOK, HandsBusy, InGrace, subjectVars, Takes, HandRests, NoHand
<1>1. GraceInv'
  <2> USE DEF PrivacyInv, GraceInv
  <2>1. CASE UNCHANGED <<erasure, wish, excuses, erasedAs, hand>>
    BY <2>1
  <2>2. ASSUME NEW i \in RequestIds, GraceEnds(i) PROVE GraceInv'
    BY <2>2 DEF GraceEnds
  <2>3. ASSUME NEW h \in Hands, AskErasure(h) PROVE GraceInv'
    BY <2>3 DEF AskErasure
  <2>4. ASSUME NEW h \in Hands, CreateErasure(h) PROVE GraceInv'
    <3> DEFINE i == 1 + Cardinality(Made)
    <3>1. /\ hand[h].do = "ask" /\ i \in RequestIds /\ wish' = "delete"
          /\ erasure' = [erasure EXCEPT ![i].is = "GRACE"] /\ hand' = [hand EXCEPT ![h] = NoHand]
          /\ ("doubled" \in excuses => "doubled" \in excuses') /\ erasedAs' = erasedAs
      BY <2>4 DEF CreateErasure
    <3> HIDE DEF i
    <3>2. "doubled" \in excuses \/ InGrace' = {i}
      BY <3>1
    <3>3. "doubled" \in excuses \/ \A o \in Hands : hand'[o].do # "ask"
      BY <3>1
    <3> QED BY <3>1, <3>2, <3>3
  <2>5. ASSUME NEW h \in Hands, AskCancel(h) PROVE GraceInv'
    <3>1. /\ UNCHANGED <<erasure, wish, excuses, erasedAs>>
          /\ \E x : hand' = [hand EXCEPT ![h] = [do |-> "cancel", id |-> x]]
      BY <2>5 DEF AskCancel
    <3> QED BY <3>1
  <2>6. ASSUME NEW h \in Hands, CancelErasure(h) PROVE GraceInv'
    BY <2>6, SMTT(30) DEF CancelErasure, StillInGrace
  <2>7. ASSUME NEW h \in Hands, EditProfile(h) \/ WriteProfile(h) PROVE GraceInv'
    BY <2>7 DEF EditProfile, WriteProfile
  <2>8. ASSUME NEW h \in Hands, Anonymize(h) PROVE GraceInv'
    BY <2>8 DEF Anonymize
  <2>9. ASSUME NEW h \in Hands, BuildExport(h) \/ StoreExport(h) PROVE GraceInv'
    BY <2>9 DEF BuildExport, StoreExport
  <2>10. ASSUME NEW h \in Hands, NEW i \in RequestIds, SweepErasures(h, i) PROVE GraceInv'
    BY <2>10 DEF SweepErasures
  <2> QED
    BY <2>1, <2>2, <2>3, <2>4, <2>5, <2>6, <2>7, <2>8, <2>9, <2>10
    DEF PrivacyNext, privacyVars, TokenExpires, RequestExport, SweepExports, AdminArchive, AdminRestore
<1>2. SweepInv'
  <2> USE DEF PrivacyInv, SweepInv
  <2>1. CASE UNCHANGED <<erasure, excuses, hand>>
    BY <2>1
  <2>2. ASSUME NEW i \in RequestIds, GraceEnds(i) PROVE SweepInv'
    BY <2>2 DEF GraceEnds
  <2>3. ASSUME NEW h \in Hands, AskErasure(h) PROVE SweepInv'
    BY <2>3 DEF AskErasure
  <2>4. ASSUME NEW h \in Hands, CreateErasure(h) PROVE SweepInv'
    <3> DEFINE i == 1 + Cardinality(Made)
    <3>1. /\ hand[h].do = "ask" /\ i \in RequestIds
          /\ erasure' = [erasure EXCEPT ![i].is = "GRACE"] /\ hand' = [hand EXCEPT ![h] = NoHand]
          /\ excuses' = {} => excuses = {} /\ \A o \in Hands : hand[o].do # "erase"
      BY <2>4 DEF CreateErasure
    <3> HIDE DEF i
    <3> QED BY <3>1
  <2>5. ASSUME NEW h \in Hands, AskCancel(h) PROVE SweepInv'
    <3>1. /\ UNCHANGED <<erasure, excuses>>
          /\ \E x : hand' = [hand EXCEPT ![h] = [do |-> "cancel", id |-> x]]
      BY <2>5 DEF AskCancel
    <3> QED BY <3>1
  <2>6. ASSUME NEW h \in Hands, CancelErasure(h) PROVE SweepInv'
    <3>1. /\ excuses' = excuses /\ hand' = [hand EXCEPT ![h] = NoHand]
          /\ \/ erasure' = erasure
             \/ erasure' = [erasure EXCEPT ![hand[h].id].is = "CANCELLED"]
      BY <2>6 DEF CancelErasure, StillInGrace
    <3>2. \A i \in RequestIds : /\ erasure'[i].due = erasure[i].due
                               /\ erasure'[i].is \in {erasure[i].is, "CANCELLED"}
      BY <3>1
    <3>3. \A o \in Hands : hand'[o].do \in {hand[o].do, "idle"}
      BY <3>1
    <3> QED BY <3>1, <3>2, <3>3
  <2>7. ASSUME NEW h \in Hands, EditProfile(h) \/ WriteProfile(h) PROVE SweepInv'
    BY <2>7 DEF EditProfile, WriteProfile
  <2>8. ASSUME NEW h \in Hands, Anonymize(h) PROVE SweepInv'
    BY <2>8 DEF Anonymize
  <2>9. ASSUME NEW h \in Hands, BuildExport(h) \/ StoreExport(h) PROVE SweepInv'
    BY <2>9 DEF BuildExport, StoreExport
  <2>10. ASSUME NEW h \in Hands, NEW i \in RequestIds, SweepErasures(h, i) PROVE SweepInv'
    BY <2>10 DEF SweepErasures, GraceInv
  <2> QED
    BY <2>1, <2>2, <2>3, <2>4, <2>5, <2>6, <2>7, <2>8, <2>9, <2>10
    DEF PrivacyNext, privacyVars, TokenExpires, RequestExport, SweepExports, AdminArchive, AdminRestore
<1> QED BY <1>0, <1>1, <1>2 DEF PrivacyInv

\* What is kept about erasure is what is claimed of it.
LEMMA ErasureKept == PrivacyInv => ErasureAsAsked
BY DEF PrivacyInv, GraceInv, SweepInv, ErasureAsAsked

-----------------------------------------------------------------------------
(*****************************************************************************)
(* Addresses.                                                                *)
(*****************************************************************************)
\* While nothing is muddled, one request is at work at most, and the default is what its step
\* will need: there is one, unless the user unset it; nothing is the default while a successor is
\* looked for; and an address about to be promoted is there.
HasDefault == (LiveAds # {} /\ ~waived) => defaults # {}
TaskFits(b) ==
  LET t == breq[b] IN
  /\ t.do = "create"  => (t.first <=> LiveAds = {}) /\ HasDefault
  /\ t.do = "promote" => t.id \in LiveAds
  /\ t.do = "demote"  => t.id \in LiveAds
  /\ t.do = "remove"  => t.id \in LiveAds /\ (t.first <=> t.id \in defaults) /\ HasDefault
  /\ t.do = "succeed" => defaults = {}
  /\ t.do = "crown"   => defaults = {} /\ t.id \in LiveAds
DefaultsInv ==
  ~muddled => /\ (\A b \in Browsers : breq[b].do # "promote") => \A x, y \in defaults : x = y
              /\ defaults \subseteq LiveAds
              /\ (\A b \in Browsers : breq[b].do = "idle") => HasDefault
              /\ \A b \in Browsers : TaskFits(b)
              /\ \A b, o \in Browsers : breq[b].do # "idle" /\ breq[o].do # "idle" => b = o
AddressInv == AddressTypeOK /\ DefaultsInv

BrowserTasks == [do : {"idle", "create", "promote", "demote", "remove", "succeed", "crown"},
                 id : AddressIds, first : BOOLEAN]

\* There is a first address.
LEMMA FirstId == 1 \in AddressIds
BY AddressConstantsOK DEF AddressIds

\* The address book starts empty, with no default.
LEMMA AddressesStart == AddressInit => AddressInv
<1> SUFFICES ASSUME AddressInit PROVE AddressInv
  OBVIOUS
<1> USE AddressConstantsOK, FirstId DEF AddressInit, NoWork
<1>1. AddressTypeOK
  <2>1. breq \in [Browsers -> BrowserTasks]
    BY DEF BrowserTasks
  <2>2. address \in [AddressIds -> {"none", "live", "gone"}] /\ defaults \subseteq AddressIds
    OBVIOUS
  <2>3. waived \in BOOLEAN /\ muddled \in BOOLEAN
    OBVIOUS
  <2>4. faults \in 0 .. MaxFaults
    OBVIOUS
  <2> HIDE DEF AddressInit
  <2> QED BY <2>1, <2>2, <2>3, <2>4 DEF AddressTypeOK, BrowserTasks
<1>2. LiveAds = {} /\ defaults = {} /\ ~waived
  BY DEF LiveAds
<1>3. \A b \in Browsers : breq[b].do = "idle"
  OBVIOUS
<1>4. DefaultsInv
  BY <1>2, <1>3 DEF DefaultsInv, TaskFits, HasDefault
<1> QED BY <1>1, <1>4 DEF AddressInv

\* Every step on the address book keeps its types.
LEMMA AddressesTyped ==
  ASSUME AddressTypeOK, [AddressNext]_addressVars
  PROVE  AddressTypeOK'
<1> USE AddressConstantsOK, FirstId DEF AddressTypeOK, BrowserTasks, NoWork, NoAddressWork
<1>1. CASE UNCHANGED addressVars
  BY <1>1 DEF addressVars
<1>2. ASSUME NEW b \in Browsers, CountAddresses(b) PROVE AddressTypeOK'
  BY <1>2 DEF CountAddresses, Plans, LiveAds
<1>3. ASSUME NEW b \in Browsers, NEW chosen \in BOOLEAN, CreateAddress(b, chosen) PROVE AddressTypeOK'
  <2> DEFINE i == 1 + Cardinality({j \in AddressIds : address[j] # "none"})
              t == [NoWork EXCEPT !.do = "promote", !.id = i]
  <2>1. /\ i \in AddressIds /\ address' = [address EXCEPT ![i] = "live"] /\ UNCHANGED <<muddled, faults>>
        /\ (defaults' = defaults \/ defaults' = defaults \union {i}) /\ waived' = (waived /\ ~breq[b].first)
        /\ (breq' = [breq EXCEPT ![b] = t] \/ breq' = [breq EXCEPT ![b] = NoWork])
    BY <1>3 DEF CreateAddress
  <2> HIDE DEF i
  <2>2. t \in BrowserTasks
    BY <2>1
  <2>3. NoWork \in BrowserTasks
    OBVIOUS
  <2>4. (breq \in [Browsers -> BrowserTasks])'
    <3>1. breq \in [Browsers -> BrowserTasks]
      OBVIOUS
    <3> HIDE DEF t, NoWork, BrowserTasks, AddressTypeOK
    <3> QED BY <2>1, <2>2, <2>3, <3>1
  <2>5. waived' \in BOOLEAN
    BY <2>1
  <2> HIDE DEF t, NoWork
  <2> QED BY <2>1, <2>4, <2>5
<1>4. ASSUME NEW b \in Browsers, NEW i \in AddressIds, AskDefault(b, i) PROVE AddressTypeOK'
  BY <1>4 DEF AskDefault, Plans
<1>5. ASSUME NEW b \in Browsers, Promote(b) PROVE AddressTypeOK'
  BY <1>5 DEF Promote, Promoted, Ends, LiveAds
<1>6. ASSUME NEW b \in Browsers, NEW i \in AddressIds, AskNoDefault(b, i) PROVE AddressTypeOK'
  BY <1>6 DEF AskNoDefault, Plans
<1>7. ASSUME NEW b \in Browsers, Demote(b) PROVE AddressTypeOK'
  BY <1>7 DEF Demote, Ends, LiveAds
<1>8. ASSUME NEW b \in Browsers, NEW i \in AddressIds, AskRemoval(b, i) PROVE AddressTypeOK'
  BY <1>8 DEF AskRemoval, Plans
<1>9. ASSUME NEW b \in Browsers, RemoveAddress(b) PROVE AddressTypeOK'
  BY <1>9 DEF RemoveAddress, LiveAds
<1>10. ASSUME NEW b \in Browsers, FindSuccessor(b) PROVE AddressTypeOK'
  <2>1. CASE breq' = [breq EXCEPT ![b] = NoWork]
    BY <1>10, <2>1 DEF FindSuccessor
  <2>2. ASSUME NEW i \in AddressIds, breq' = [breq EXCEPT ![b].do = "crown", ![b].id = i] PROVE AddressTypeOK'
    BY <1>10, <2>2, ZenonT(60) DEF FindSuccessor
  <2> QED BY <1>10, <2>1, <2>2 DEF FindSuccessor, Ends, LiveAds
<1>11. ASSUME NEW b \in Browsers, Crown(b) PROVE AddressTypeOK'
  BY <1>11 DEF Crown, Ends, LiveAds
<1>12. ASSUME NEW b \in Browsers, AddressCrash(b) PROVE AddressTypeOK'
  BY <1>12 DEF AddressCrash, Ends
<1> HIDE DEF AddressTypeOK, BrowserTasks, NoWork, NoAddressWork
<1> QED
  BY <1>1, <1>2, <1>3, <1>4, <1>5, <1>6, <1>7, <1>8, <1>9, <1>10, <1>11, <1>12
  DEF AddressNext, AddressTypeOK

\* Every step keeps the defaults right.
LEMMA DefaultsGoOn ==
  ASSUME AddressTypeOK, DefaultsInv, [AddressNext]_addressVars
  PROVE  DefaultsInv'
<1> USE DEF AddressTypeOK, DefaultsInv, TaskFits, HasDefault, LiveAds, NoAddressWork
<1>1. CASE UNCHANGED addressVars
  BY <1>1 DEF addressVars
<1>2. ASSUME NEW b \in Browsers, CountAddresses(b) PROVE DefaultsInv'
  <2> SUFFICES ASSUME ~muddled' PROVE DefaultsInv'
    OBVIOUS
  <2>1. /\ ~muddled /\ UNCHANGED <<address, defaults, waived>>
        /\ \A o \in Browsers : breq[o].do = "idle"
        /\ breq'[b].do = "create" /\ (breq'[b].first <=> LiveAds = {})
        /\ \A o \in Browsers : o # b => breq'[o].do = "idle"
    BY <1>2 DEF CountAddresses, Plans, Lone
  <2>2. HasDefault /\ (\A x, y \in defaults : x = y) /\ defaults \subseteq LiveAds
    BY <2>1
  <2>3. LiveAds' = LiveAds /\ HasDefault'
    BY <2>1, <2>2
  <2>4. \A o \in Browsers : TaskFits(o)'
    <3> HIDE DEF HasDefault, LiveAds
    <3> QED BY <2>1, <2>3
  <2> QED BY <2>1, <2>2, <2>3, <2>4
<1>3. ASSUME NEW b \in Browsers, NEW chosen \in BOOLEAN, CreateAddress(b, chosen) PROVE DefaultsInv'
  <2> DEFINE i == 1 + Cardinality({j \in AddressIds : address[j] # "none"})
              t == [NoWork EXCEPT !.do = "promote", !.id = i]
  <2>1. /\ i \in AddressIds /\ address' = [address EXCEPT ![i] = "live"] /\ UNCHANGED muddled
        /\ breq[b].do = "create" /\ (waived' <=> waived /\ ~breq[b].first)
    BY <1>3 DEF CreateAddress
  <2>2. \/ /\ chosen /\ ~breq[b].first
           /\ defaults' = defaults \union {i} /\ breq' = [breq EXCEPT ![b] = t]
        \/ /\ breq[b].first
           /\ defaults' = defaults \union {i} /\ breq' = [breq EXCEPT ![b] = NoWork]
        \/ /\ ~chosen /\ ~breq[b].first
           /\ defaults' = defaults /\ breq' = [breq EXCEPT ![b] = NoWork]
    BY <1>3 DEF CreateAddress
  <2>3. t.do = "promote" /\ t.id = i /\ NoWork.do = "idle"
    BY DEF NoWork
  <2> HIDE DEF i, t
  <2>4. LiveAds' = LiveAds \union {i}
    BY <2>1
  <2> SUFFICES ASSUME ~muddled PROVE DefaultsInv'
    BY <2>1
  <2>5. /\ \A o \in Browsers : o # b => breq[o].do = "idle" /\ breq'[o].do = "idle"
        /\ breq[b].first <=> LiveAds = {}
        /\ (LiveAds # {} /\ ~waived) => defaults # {}
    BY <2>1, <2>2
  <2>6. (LiveAds # {} /\ ~waived) => defaults # {}
    BY <2>1
  <2> HIDE DEF LiveAds
  <2>7. CASE chosen /\ ~breq[b].first
    <3>1. defaults' = defaults \union {i} /\ breq'[b].do = "promote" /\ breq'[b].id = i
      BY <2>1, <2>2, <2>3, <2>7
    <3>2. (~muddled => \A o \in Browsers : TaskFits(o))'
      BY <2>1, <2>4, <2>5, <3>1
    <3>3. (~muddled => \A o, p \in Browsers : breq[o].do # "idle" /\ breq[p].do # "idle" => o = p)'
      BY <2>5
    <3>4. defaults' \subseteq LiveAds'
      BY <2>1, <2>4, <3>1
    <3> QED BY <3>1, <3>2, <3>3, <3>4
  <2>8. CASE breq[b].first
    <3>1. defaults' = defaults \union {i} /\ breq'[b].do = "idle"
      BY <2>1, <2>2, <2>3, <2>8
    <3>2. defaults = {} /\ defaults' = {i} /\ i \in LiveAds'
      BY <2>1, <2>4, <2>5, <2>8, <3>1
    <3>3. \A o \in Browsers : breq'[o].do = "idle"
      BY <2>5, <3>1
    <3>4. HasDefault'
      BY <3>2
    <3> QED BY <3>2, <3>3, <3>4
  <2>9. CASE ~chosen /\ ~breq[b].first
    <3>1. defaults' = defaults /\ breq'[b].do = "idle"
      BY <2>1, <2>2, <2>3, <2>9
    <3>2. \A o \in Browsers : breq'[o].do = "idle"
      BY <2>5, <3>1
    <3>3. HasDefault'
      BY <2>1, <2>4, <2>5, <2>6, <2>9, <3>1
    <3>4. /\ \A x, y \in defaults : x = y
          /\ defaults \subseteq LiveAds
      BY <2>1, <2>5
    <3>5. /\ \A x, y \in defaults' : x = y
          /\ defaults' \subseteq LiveAds'
      BY <3>1, <3>4, <2>4
    <3> QED BY <3>2, <3>3, <3>5
  <2> QED BY <2>7, <2>8, <2>9
<1>4. ASSUME NEW b \in Browsers, NEW i \in AddressIds, AskDefault(b, i) PROVE DefaultsInv'
  BY <1>4 DEF AskDefault, Plans, Lone
<1>5. ASSUME NEW b \in Browsers, Promote(b) PROVE DefaultsInv'
  <2>1. (~muddled => ((\A o \in Browsers : breq[o].do # "promote") => \A x, y \in defaults : x = y))'
    BY <1>5 DEF Promote, Promoted, Ends, Lone, NoWork
  <2>2. (~muddled => defaults \subseteq LiveAds)'
    BY <1>5 DEF Promote, Promoted, Ends, Lone, NoWork
  <2>3. (~muddled => ((\A o \in Browsers : breq[o].do = "idle") => HasDefault))'
    BY <1>5 DEF Promote, Promoted, Ends, Lone, NoWork
  <2>4. (~muddled => \A o \in Browsers : TaskFits(o))'
    BY <1>5 DEF Promote, Promoted, Ends, Lone, NoWork
  <2>5. (~muddled => \A o, p \in Browsers : breq[o].do # "idle" /\ breq[p].do # "idle" => o = p)'
    BY <1>5 DEF Promote, Promoted, Ends, Lone, NoWork
  <2> QED BY <2>1, <2>2, <2>3, <2>4, <2>5 DEF DefaultsInv
<1>6. ASSUME NEW b \in Browsers, NEW i \in AddressIds, AskNoDefault(b, i) PROVE DefaultsInv'
  BY <1>6 DEF AskNoDefault, Plans, Lone
<1>7. ASSUME NEW b \in Browsers, Demote(b) PROVE DefaultsInv'
  BY <1>7 DEF Demote, Ends, NoWork
<1>8. ASSUME NEW b \in Browsers, NEW i \in AddressIds, AskRemoval(b, i) PROVE DefaultsInv'
  BY <1>8 DEF AskRemoval, Plans, Lone
<1>9. ASSUME NEW b \in Browsers, RemoveAddress(b) PROVE DefaultsInv'
  BY <1>9 DEF RemoveAddress, NoWork
<1>10. ASSUME NEW b \in Browsers, FindSuccessor(b) PROVE DefaultsInv'
  BY <1>10 DEF FindSuccessor, Ends, NoWork
<1>11. ASSUME NEW b \in Browsers, Crown(b) PROVE DefaultsInv'
  BY <1>11 DEF Crown, Ends, NoWork
<1>12. ASSUME NEW b \in Browsers, AddressCrash(b) PROVE DefaultsInv'
  BY <1>12 DEF AddressCrash, Ends, NoWork
<1> HIDE DEF AddressTypeOK, DefaultsInv, TaskFits, HasDefault, LiveAds, NoAddressWork
<1> QED
  BY <1>1, <1>2, <1>3, <1>4, <1>5, <1>6, <1>7, <1>8, <1>9, <1>10, <1>11, <1>12
  DEF AddressNext

\* Every step keeps the address book right.
LEMMA AddressesGoOn ==
  ASSUME AddressInv, [AddressNext]_addressVars
  PROVE  AddressInv'
BY AddressesTyped, DefaultsGoOn DEF AddressInv

\* Who are all the same are one at most.
LEMMA AtMostOne ==
  ASSUME NEW S, \A x, y \in S : x = y
  PROVE  IsFiniteSet(S) /\ Cardinality(S) =< 1
<1>1. CASE S = {}
  BY <1>1, FS_EmptySet
<1>2. CASE S # {}
  <2>1. PICK x : x \in S
    BY <1>2
  <2>2. S = {x}
    BY <2>1
  <2>3. IsFiniteSet({x}) /\ Cardinality({x}) = 1
    BY FS_Singleton
  <2> QED BY <2>2, <2>3
<1> QED BY <1>1, <1>2

\* What is kept about the defaults is what is claimed of them.
LEMMA DefaultKept == AddressInv => OneDefaultAddress
<1> SUFFICES ASSUME AddressInv, \A b \in Browsers : NoAddressWork(b), ~muddled
             PROVE  /\ defaults \subseteq LiveAds /\ Cardinality(defaults) =< 1
                    /\ LiveAds # {} /\ ~waived => defaults # {}
  BY DEF OneDefaultAddress
<1>1. /\ \A x, y \in defaults : x = y
      /\ defaults \subseteq LiveAds
      /\ LiveAds # {} /\ ~waived => defaults # {}
  BY DEF AddressInv, DefaultsInv, HasDefault, NoAddressWork
<1> QED BY <1>1, AtMostOne

-----------------------------------------------------------------------------
(*****************************************************************************)
(* Rulings about a seller.                                                   *)
(*****************************************************************************)
\* A request that read the seller after the last ruling, and read no barred status, was late for
\* no bar: there is none, or it was overtaken; and only who read no bar is about to lift one.
RulingsInv ==
  /\ RulingsStand
  /\ kyc = "none" => ruled = "none"
  /\ \A d \in Desks :
       /\ kreq[d].do = "submit" => kreq[d].saw = "DRAFT"
       /\ kreq[d].do \in {"approve", "review"} => kreq[d].saw \in {"PENDING", "UNDER_REVIEW"}
       /\ kreq[d].do # "idle" /\ ~kreq[d].late /\ kreq[d].saw \notin Barred
            => ruled \notin Barred \/ overtaken
DeskTasks == [do : {"idle", "edit", "submit", "stamp", "approve", "review", "rule"},
              saw : KycStatuses \union {"none"}, late : BOOLEAN,
              of : Sections \union KycStatuses \union {"none"}]
DeskFits(d) == /\ kreq[d].do = "stamp" => kreq[d].of \in Sections
               /\ kreq[d].do = "rule" => kreq[d].of \in KycStatuses
SellerTyped == SellerTypeOK /\ \A d \in Desks : DeskFits(d)
SellerInv == SellerTyped /\ RulingsInv

\* A seller starts undecided.
LEMMA SellersStart == SellerInit => SellerInv
<1> SUFFICES ASSUME SellerInit PROVE SellerInv
  OBVIOUS
<1> USE SellerConstantsOK DEF SellerInit, NoDesk
<1>1. SellerTyped
  <2>1. kreq \in [Desks -> DeskTasks]
    BY DEF DeskTasks
  <2>2. kyc \in KycStatuses \union {"none"} /\ removed \in BOOLEAN /\ overtaken \in BOOLEAN
    OBVIOUS
  <2>3. rulings \in 0 .. MaxRulings /\ ruled \in KycStatuses \union {"none"}
    OBVIOUS
  <2>4. letters \subseteq {"VERIFIED", "REJECTED"} /\ stamped \subseteq Sections
    OBVIOUS
  <2>5. \A d \in Desks : kreq[d].do = "idle"
    OBVIOUS
  <2> HIDE DEF SellerInit
  <2> QED BY <2>1, <2>2, <2>3, <2>4, <2>5 DEF SellerTyped, DeskFits, SellerTypeOK, DeskTasks
<1>2. RulingsInv
  BY DEF RulingsInv, RulingsStand, Barred
<1> QED BY <1>1, <1>2 DEF SellerInv

\* Every step at the desks keeps the types, and tasks in shape.
LEMMA SellersTyped ==
  ASSUME SellerTyped, [SellerNext]_sellerVars
  PROVE  SellerTyped'
<1> USE SellerConstantsOK DEF SellerTyped, DeskFits, SellerTypeOK, DeskDoes, DeskTasks
<1>1. CASE UNCHANGED sellerVars
  BY <1>1 DEF sellerVars
<1>2. CASE CreateSeller
  BY <1>2 DEF CreateSeller, KycStatuses
<1>3. CASE RemoveSeller
  BY <1>3 DEF RemoveSeller
<1>4. ASSUME NEW d \in Desks, NEW admin \in BOOLEAN, EditRead(d, admin) PROVE SellerTyped'
  BY <1>4 DEF EditRead, Reads
<1>5. ASSUME NEW d \in Desks, NEW s \in Sections, SectionRead(d, s) PROVE SellerTyped'
  BY <1>5 DEF SectionRead, Reads
<1>6. ASSUME NEW d \in Desks, NEW st \in KycStatuses, RuleRead(d, st) PROVE SellerTyped'
  BY <1>6 DEF RuleRead, Reads
<1>7. ASSUME NEW d \in Desks, SubmitRead(d) PROVE SellerTyped'
  BY <1>7 DEF SubmitRead, Reads
<1>8. ASSUME NEW d \in Desks, EditWrite(d) PROVE SellerTyped'
  BY <1>8 DEF EditWrite, Becomes, DeskDone, NoDesk, KycStatuses
<1>9. ASSUME NEW d \in Desks, SubmitWrite(d) PROVE SellerTyped'
  BY <1>9 DEF SubmitWrite, Becomes, DeskDone, NoDesk, KycStatuses
<1>10. ASSUME NEW d \in Desks, SectionStamp(d) PROVE SellerTyped'
  <2>1. /\ UNCHANGED <<kyc, removed, letters, rulings, ruled, overtaken>>
        /\ \/ kreq' = [kreq EXCEPT ![d].do = "approve"] \/ kreq' = [kreq EXCEPT ![d].do = "review"]
           \/ kreq' = [kreq EXCEPT ![d] = NoDesk]
    BY <1>10 DEF SectionStamp, DeskThen, DeskDone
  <2>2. stamped' \subseteq Sections
    BY <1>10 DEF SectionStamp
  <2>3. (kreq \in [Desks -> DeskTasks])'
    <3>1. CASE kreq' = [kreq EXCEPT ![d].do = "approve"]
      BY <3>1
    <3>2. CASE kreq' = [kreq EXCEPT ![d].do = "review"]
      BY <3>2
    <3>3. CASE kreq' = [kreq EXCEPT ![d] = NoDesk]
      BY <3>3 DEF NoDesk
    <3> QED BY <2>1, <3>1, <3>2, <3>3
  <2>4. \A e \in Desks : kreq'[e].do \in {"stamp", "rule"} => kreq'[e] = kreq[e]
    BY <2>1 DEF NoDesk
  <2> QED BY <2>1, <2>2, <2>3, <2>4
<1>11. ASSUME NEW d \in Desks, Approve(d) PROVE SellerTyped'
  BY <1>11 DEF Approve, Becomes, DeskDone, NoDesk, KycStatuses
<1>12. ASSUME NEW d \in Desks, Review(d) PROVE SellerTyped'
  BY <1>12 DEF Review, Becomes, DeskDone, NoDesk, KycStatuses
<1>13. ASSUME NEW d \in Desks, RuleWrite(d) PROVE SellerTyped'
  <2>1. /\ kyc' = kreq[d].of /\ ruled' = kreq[d].of /\ kreq[d].of \in KycStatuses
        /\ UNCHANGED <<removed, stamped>> /\ overtaken' = FALSE /\ rulings' = rulings + 1 /\ rulings < MaxRulings
    BY <1>13 DEF RuleWrite
  <2>2. letters' \subseteq {"VERIFIED", "REJECTED"}
    BY <1>13 DEF RuleWrite
  <2>3. kreq' = [e \in Desks |-> IF e = d THEN NoDesk ELSE [kreq[e] EXCEPT !.late = kreq[e] # NoDesk]]
    BY <1>13 DEF RuleWrite
  <2>4. (kreq \in [Desks -> DeskTasks])'
    <3>1. NoDesk \in DeskTasks
      BY DEF NoDesk
    <3>2. ASSUME NEW e \in Desks PROVE kreq'[e] \in DeskTasks
      <4>1. kreq[e] \in DeskTasks /\ kreq[e].late \in BOOLEAN
        OBVIOUS
      <4>2. [kreq[e] EXCEPT !.late = kreq[e] # NoDesk] \in DeskTasks
        BY <4>1
      <4> HIDE DEF DeskTasks, NoDesk
      <4> QED BY <2>3, <3>1, <4>2
    <3> HIDE DEF DeskTasks, NoDesk
    <3> QED BY <2>3, <3>2
  <2>5. \A e \in Desks : kreq'[e].do \in {"stamp", "rule"} => kreq'[e].do = kreq[e].do /\ kreq'[e].of = kreq[e].of
    BY <2>3 DEF NoDesk
  <2>6. (kyc \in KycStatuses \union {"none"} /\ ruled \in KycStatuses \union {"none"} /\ rulings \in 0 .. MaxRulings)'
    BY <2>1
  <2>7. (\A e \in Desks : DeskFits(e))'
    BY <2>5
  <2>8. removed' \in BOOLEAN /\ overtaken' \in BOOLEAN /\ stamped' \subseteq Sections
    BY <2>1
  <2> HIDE DEF DeskTasks
  <2>9. SellerTypeOK'
    BY <2>2, <2>4, <2>6, <2>8 DEF DeskTasks
  <2> HIDE DEF SellerTypeOK
  <2> HIDE DEF DeskFits
  <2> QED BY <2>7, <2>9
<1> HIDE DEF SellerTyped, DeskFits, SellerTypeOK, DeskDoes, DeskTasks
<1> QED
  BY <1>1, <1>2, <1>3, <1>4, <1>5, <1>6, <1>7, <1>8, <1>9, <1>10, <1>11, <1>12, <1>13
  DEF SellerNext

\* Every step keeps what is known about the rulings.
LEMMA RulingsGoOn ==
  ASSUME SellerTyped, RulingsInv, [SellerNext]_sellerVars
  PROVE  RulingsInv'
<1> USE DEF SellerTyped, DeskFits, SellerTypeOK, RulingsInv, RulingsStand, DeskDoes, Barred
<1>1. CASE UNCHANGED sellerVars
  BY <1>1 DEF sellerVars
<1>2. CASE CreateSeller
  BY <1>2 DEF CreateSeller, KycStatuses
<1>3. CASE RemoveSeller
  BY <1>3 DEF RemoveSeller
<1>4. ASSUME NEW d \in Desks, NEW admin \in BOOLEAN, EditRead(d, admin) PROVE RulingsInv'
  BY <1>4 DEF EditRead, Reads
<1>5. ASSUME NEW d \in Desks, NEW s \in Sections, SectionRead(d, s) PROVE RulingsInv'
  BY <1>5 DEF SectionRead, Reads
<1>6. ASSUME NEW d \in Desks, NEW st \in KycStatuses, RuleRead(d, st) PROVE RulingsInv'
  BY <1>6 DEF RuleRead, Reads
<1>7. ASSUME NEW d \in Desks, SubmitRead(d) PROVE RulingsInv'
  BY <1>7 DEF SubmitRead, Reads
<1>8. ASSUME NEW d \in Desks, EditWrite(d) PROVE RulingsInv'
  BY <1>8 DEF EditWrite, Becomes, DeskDone, NoDesk, KycStatuses
<1>9. ASSUME NEW d \in Desks, SubmitWrite(d) PROVE RulingsInv'
  BY <1>9 DEF SubmitWrite, Becomes, DeskDone, NoDesk, KycStatuses
<1>10. ASSUME NEW d \in Desks, SectionStamp(d) PROVE RulingsInv'
  BY <1>10 DEF SectionStamp, Decides, DeskThen, DeskDone, NoDesk
<1>11. ASSUME NEW d \in Desks, Approve(d) PROVE RulingsInv'
  BY <1>11 DEF Approve, Becomes, DeskDone, NoDesk, KycStatuses
<1>12. ASSUME NEW d \in Desks, Review(d) PROVE RulingsInv'
  BY <1>12 DEF Review, Becomes, DeskDone, NoDesk, KycStatuses
<1>13. ASSUME NEW d \in Desks, RuleWrite(d) PROVE RulingsInv'
  <2>1. kyc' = kreq[d].of /\ ruled' = kreq[d].of /\ kreq[d].of # "none"
    BY <1>13 DEF RuleWrite, KycStatuses
  <2>2. kreq' = [e \in Desks |-> IF e = d THEN NoDesk ELSE [kreq[e] EXCEPT !.late = kreq[e] # NoDesk]]
    BY <1>13 DEF RuleWrite
  <2>3. ASSUME NEW e \in Desks, kreq'[e].do # "idle"
        PROVE  kreq'[e].do = kreq[e].do /\ kreq'[e].saw = kreq[e].saw /\ kreq'[e].late
    <3>1. e # d
      BY <2>2, <2>3 DEF NoDesk
    <3>2. kreq'[e] = [kreq[e] EXCEPT !.late = kreq[e] # NoDesk]
      BY <2>2, <3>1
    <3>3. kreq'[e].do = kreq[e].do /\ kreq'[e].saw = kreq[e].saw
      BY <3>2
    <3>4. kreq[e] # NoDesk
      BY <2>3, <3>3 DEF NoDesk
    <3> QED BY <3>2, <3>3, <3>4
  <2> QED BY <2>1, <2>3
<1> HIDE DEF SellerTyped, DeskFits, SellerTypeOK, RulingsInv, RulingsStand, DeskDoes, Barred
<1> QED
  BY <1>1, <1>2, <1>3, <1>4, <1>5, <1>6, <1>7, <1>8, <1>9, <1>10, <1>11, <1>12, <1>13
  DEF SellerNext

\* Every step keeps the rulings about a seller.
LEMMA SellersGoOn ==
  ASSUME SellerInv, [SellerNext]_sellerVars
  PROVE  SellerInv'
BY SellersTyped, RulingsGoOn DEF SellerInv

-----------------------------------------------------------------------------
(*****************************************************************************)
(* Sessions.                                                                 *)
(*****************************************************************************)
\* A token was traded once at most, and not while it is live; what is about to be signed in
\* goes under a password there was.
TokenRows == [is : {"none", "live", "gone"}, under : Passwords, late : BOOLEAN, traded : Nat]
AuthTasks == [do : {"idle", "enrol", "hit", "miss", "grant", "rotate", "wipe", "change", "revoke", "reset"},
              saw : Nat, tok : 0 .. MaxTokens]
ClientFits(d) == auth[d].do \in {"hit", "grant", "revoke"} => auth[d].saw \in Passwords
TokenFits(t) == /\ tokens[t].is # "gone" => tokens[t].traded = 0
                /\ tokens[t].traded =< 1
Upheld(t) == tokens[t].is = "live" => tokens[t].under = passcode \/ tokens[t].late \/ unrevoked
                                       \/ \E d \in Clients : AtStep(d, "revoke")
SessionInv == /\ SessionTypeOK /\ (\A e \in Clients : ClientFits(e))
              /\ (\A t \in Tokens : TokenFits(t)) /\ (\A t \in Tokens : Upheld(t))

\* An account starts with no session.
LEMMA SessionsStart == SessionInit => SessionInv
<1> SUFFICES ASSUME SessionInit PROVE SessionInv
  OBVIOUS
<1> USE SessionConstantsOK DEF SessionInit, Asleep, NoToken
<1>1. auth \in [Clients -> AuthTasks]
  BY DEF AuthTasks
<1>2. passcode \in Passwords /\ failed \in 0 .. MaxFailures
  BY DEF Passwords
<1>3. tokens \in [Tokens -> TokenRows]
  BY <1>2 DEF TokenRows
<1>4. enrolled \in BOOLEAN /\ locked \in BOOLEAN /\ verified \in BOOLEAN
  OBVIOUS
<1>5. resetLink \in {"none", "live", "used"} /\ unrevoked \in BOOLEAN /\ outages \in Nat
  OBVIOUS
<1>6. \A e \in Clients : ClientFits(e)
  BY DEF ClientFits
<1>7. \A k \in Tokens : TokenFits(k) /\ Upheld(k)
  BY DEF TokenFits, Upheld
<1> HIDE DEF SessionInit
<1> QED BY <1>1, <1>2, <1>3, <1>4, <1>5, <1>6, <1>7 DEF SessionInv, SessionTypeOK, TokenRows, AuthTasks

\* A client that is given a task has it, and no other is disturbed.
LEMMA ClientActs ==
  ASSUME auth \in [Clients -> AuthTasks], \A e \in Clients : ClientFits(e), NEW d \in Clients,
         NEW what \in {"idle", "enrol", "hit", "miss", "grant", "rotate", "wipe", "change", "revoke", "reset"},
         NEW n \in Nat, NEW t \in 0 .. MaxTokens, DeviceDoes(d, what, n, t),
         what \in {"hit", "grant", "revoke"} => n \in Passwords
  PROVE  auth' \in [Clients -> AuthTasks] /\ \A e \in Clients : ClientFits(e)'
<1>1. [do |-> what, saw |-> n, tok |-> t] \in AuthTasks
  BY DEF AuthTasks
<1>2. auth' = [auth EXCEPT ![d] = [do |-> what, saw |-> n, tok |-> t]]
  BY DEF DeviceDoes
<1>3. auth' \in [Clients -> AuthTasks]
  <2> DEFINE r == [do |-> what, saw |-> n, tok |-> t]
  <2> HIDE DEF r, AuthTasks
  <2> QED BY <1>1, <1>2 DEF r
<1>4. ASSUME NEW e \in Clients PROVE ClientFits(e)'
  <2>1. CASE e = d
    BY <1>2, <2>1 DEF ClientFits, AuthTasks
  <2>2. CASE e # d
    <3>1. auth'[e] = auth[e] /\ ClientFits(e)
      BY <1>2, <2>2
    <3> QED BY <3>1 DEF ClientFits
  <2> QED BY <2>1, <2>2
<1> QED BY <1>3, <1>4

\* A client at rest has a task of the right kind.
LEMMA ClientRests ==
  ASSUME SessionConstantsOK, auth \in [Clients -> AuthTasks], \A e \in Clients : ClientFits(e), NEW d \in Clients, Finish(d)
  PROVE  auth' \in [Clients -> AuthTasks] /\ \A e \in Clients : ClientFits(e)'
<1>1. DeviceDoes(d, "idle", 0, 0)
  BY DEF Finish, DeviceDoes, Asleep
<1>2. 0 \in 0 .. MaxTokens
  BY DEF SessionConstantsOK
<1> QED BY <1>1, <1>2, ClientActs

\* A token that is traded is a row like others.
LEMMA TradedRow ==
  ASSUME NEW r \in TokenRows
  PROVE  [r EXCEPT !.traded = r.traded + 1] \in TokenRows
BY DEF TokenRows

\* Tokens that go are rows like others, and the rest stay.
LEMMA GoneRows ==
  ASSUME tokens \in [Tokens -> TokenRows], NEW S
  PROVE  /\ Gone(S) \in [Tokens -> TokenRows]
         /\ \A t \in Tokens : t \notin S => Gone(S)[t] = tokens[t]
         /\ \A t \in Tokens : /\ Gone(S)[t].under = tokens[t].under
                              /\ Gone(S)[t].late = tokens[t].late
                              /\ Gone(S)[t].traded = tokens[t].traded
                              /\ t \in S => Gone(S)[t].is = "gone"
<1>1. ASSUME NEW t \in Tokens, t \in S
      PROVE  /\ Gone(S)[t] \in TokenRows /\ Gone(S)[t].under = tokens[t].under
             /\ Gone(S)[t].late = tokens[t].late /\ Gone(S)[t].traded = tokens[t].traded
             /\ Gone(S)[t].is = "gone"
  <2>1. Gone(S)[t] = [tokens[t] EXCEPT !.is = "gone"] /\ tokens[t] \in TokenRows
    BY <1>1 DEF Gone
  <2> QED BY <2>1 DEF TokenRows
<1>2. ASSUME NEW t \in Tokens, t \notin S PROVE Gone(S)[t] = tokens[t] /\ tokens[t] \in TokenRows
  BY <1>2 DEF Gone
<1>3. Gone(S) = [t \in Tokens |-> Gone(S)[t]]
  BY DEF Gone
<1>4. \A t \in Tokens : Gone(S)[t] \in TokenRows
  BY <1>1, <1>2
<1>5. Gone(S) \in [Tokens -> TokenRows]
  BY <1>3, <1>4
<1> QED BY <1>1, <1>2, <1>5

\* Every step on sessions keeps their types, and tasks in shape.
LEMMA SessionsTyped ==
  ASSUME SessionTypeOK, \A e \in Clients : ClientFits(e), [SessionNext]_sessionVars
  PROVE  (SessionTypeOK /\ \A e \in Clients : ClientFits(e))'
<1> USE SessionConstantsOK DEF SessionTypeOK, TokenRows, AuthTasks, AtStep, ClientFits, Passwords, Tokens
<1>1. CASE UNCHANGED sessionVars
  BY <1>1 DEF sessionVars
<1>2. CASE LockExpires
  <2>1. (enrolled \in BOOLEAN /\ locked \in BOOLEAN /\ verified \in BOOLEAN)'
    BY <1>2 DEF LockExpires, otherVars
  <2>2. (passcode \in Passwords)' 
    BY <1>2 DEF LockExpires, otherVars
  <2>3. (failed \in 0 .. MaxFailures)' 
    BY <1>2 DEF LockExpires, otherVars
  <2>4. (resetLink \in {"none", "live", "used"} /\ unrevoked \in BOOLEAN /\ outages \in Nat)' 
    BY <1>2 DEF LockExpires, otherVars
  <2>5. (tokens \in [Tokens -> TokenRows])'
    BY <1>2 DEF LockExpires, otherVars
  <2>6. (auth \in [Clients -> AuthTasks])'
    BY <1>2 DEF LockExpires, otherVars
  <2>7. (\A e \in Clients : ClientFits(e))'
    BY <1>2 DEF LockExpires, otherVars
  <2> QED BY <2>1, <2>2, <2>3, <2>4, <2>5, <2>6, <2>7 DEF SessionTypeOK, TokenRows, AuthTasks, ClientFits
<1>3. CASE ForgotPassword
  <2>1. (enrolled \in BOOLEAN /\ locked \in BOOLEAN /\ verified \in BOOLEAN)'
    BY <1>3 DEF ForgotPassword, otherVars
  <2>2. (passcode \in Passwords)' 
    BY <1>3 DEF ForgotPassword, otherVars
  <2>3. (failed \in 0 .. MaxFailures)' 
    BY <1>3 DEF ForgotPassword, otherVars
  <2>4. (resetLink \in {"none", "live", "used"} /\ unrevoked \in BOOLEAN /\ outages \in Nat)' 
    BY <1>3 DEF ForgotPassword, otherVars
  <2>5. (tokens \in [Tokens -> TokenRows])'
    BY <1>3 DEF ForgotPassword, otherVars
  <2>6. (auth \in [Clients -> AuthTasks])'
    BY <1>3 DEF ForgotPassword, otherVars
  <2>7. (\A e \in Clients : ClientFits(e))'
    BY <1>3 DEF ForgotPassword, otherVars
  <2> QED BY <2>1, <2>2, <2>3, <2>4, <2>5, <2>6, <2>7 DEF SessionTypeOK, TokenRows, AuthTasks, ClientFits
<1>4. CASE VerifyEmail
  <2>1. (enrolled \in BOOLEAN /\ locked \in BOOLEAN /\ verified \in BOOLEAN)'
    BY <1>4 DEF VerifyEmail, otherVars
  <2>2. (passcode \in Passwords)' 
    BY <1>4 DEF VerifyEmail, otherVars
  <2>3. (failed \in 0 .. MaxFailures)' 
    BY <1>4 DEF VerifyEmail, otherVars
  <2>4. (resetLink \in {"none", "live", "used"} /\ unrevoked \in BOOLEAN /\ outages \in Nat)' 
    BY <1>4 DEF VerifyEmail, otherVars
  <2>5. (tokens \in [Tokens -> TokenRows])'
    BY <1>4 DEF VerifyEmail, otherVars
  <2>6. (auth \in [Clients -> AuthTasks])'
    BY <1>4 DEF VerifyEmail, otherVars
  <2>7. (\A e \in Clients : ClientFits(e))'
    BY <1>4 DEF VerifyEmail, otherVars
  <2> QED BY <2>1, <2>2, <2>3, <2>4, <2>5, <2>6, <2>7 DEF SessionTypeOK, TokenRows, AuthTasks, ClientFits
<1>5. ASSUME NEW d \in Clients, SignUpRead(d) PROVE (SessionTypeOK /\ \A e \in Clients : ClientFits(e))'
  BY <1>5 DEF SignUpRead, DeviceDoes, userVars, otherVars
<1>6. ASSUME NEW d \in Clients, SignUpWrite(d) PROVE (SessionTypeOK /\ \A e \in Clients : ClientFits(e))'
  BY <1>6 DEF SignUpWrite, Finish, Asleep, otherVars
<1>7. ASSUME NEW d \in Clients, LoginRead(d) PROVE (SessionTypeOK /\ \A e \in Clients : ClientFits(e))'
  <2>1. passcode \in Nat /\ failed + 1 \in Nat /\ 0 \in 0 .. MaxTokens
    OBVIOUS
  <2>2. DeviceDoes(d, "hit", passcode, 0) \/ DeviceDoes(d, "miss", failed + 1, 0)
    BY <1>7 DEF LoginRead
  <2>3. auth' \in [Clients -> AuthTasks] /\ \A e \in Clients : ClientFits(e)'
    <3>1. passcode \in Passwords /\ auth \in [Clients -> AuthTasks]
      OBVIOUS
    <3> HIDE DEF AuthTasks, ClientFits, Passwords, SessionTypeOK
    <3> QED BY <2>1, <2>2, <3>1, ClientActs
  <2> QED BY <1>7, <2>3 DEF LoginRead, userVars, otherVars
<1>8. ASSUME NEW d \in Clients, LoginMiss(d) PROVE (SessionTypeOK /\ \A e \in Clients : ClientFits(e))'
  <2>1. (enrolled \in BOOLEAN /\ locked \in BOOLEAN /\ verified \in BOOLEAN)'
    BY <1>8 DEF LoginMiss, Finish, Asleep, otherVars
  <2>2. (passcode \in Passwords)' 
    BY <1>8 DEF LoginMiss, Finish, Asleep, otherVars
  <2>3. (failed \in 0 .. MaxFailures)' 
    BY <1>8 DEF LoginMiss, Finish, Asleep, otherVars
  <2>4. (resetLink \in {"none", "live", "used"} /\ unrevoked \in BOOLEAN /\ outages \in Nat)' 
    BY <1>8 DEF LoginMiss, Finish, Asleep, otherVars
  <2>5. (tokens \in [Tokens -> TokenRows])'
    BY <1>8 DEF LoginMiss, Finish, Asleep, otherVars
  <2>6. (auth \in [Clients -> AuthTasks])'
    BY <1>8 DEF LoginMiss, Finish, Asleep, otherVars
  <2>7. (\A e \in Clients : ClientFits(e))'
    BY <1>8 DEF LoginMiss, Finish, Asleep, otherVars
  <2> QED BY <2>1, <2>2, <2>3, <2>4, <2>5, <2>6, <2>7 DEF SessionTypeOK, TokenRows, AuthTasks, ClientFits
<1>9. ASSUME NEW d \in Clients, LoginHit(d) PROVE (SessionTypeOK /\ \A e \in Clients : ClientFits(e))'
  <2>1. auth' \in [Clients -> AuthTasks] /\ \A e \in Clients : ClientFits(e)'
    <3>1. 0 \in 0 .. MaxTokens /\ auth \in [Clients -> AuthTasks]
      OBVIOUS
    <3>5. AtStep(d, "hit")
      <4> HIDE DEF SessionTypeOK, ClientFits, AtStep
      <4> QED BY <1>9 DEF LoginHit
    <3>6. ClientFits(d)
      <4> HIDE DEF SessionTypeOK, ClientFits
      <4> QED OBVIOUS
    <3>3. auth[d].saw \in Passwords
      BY <3>5, <3>6
    <3>4. auth[d].saw \in Nat
      BY <3>3
    <3>2. DeviceDoes(d, "grant", auth[d].saw, 0) \/ Finish(d)
      BY <1>9 DEF LoginHit
    <3> HIDE DEF AuthTasks, ClientFits, Passwords, SessionTypeOK
    <3> QED BY <3>1, <3>2, <3>3, <3>4, ClientActs, ClientRests
  <2>4. failed' = 0 /\ locked' = FALSE
    <3> HIDE DEF SessionTypeOK, ClientFits, AtStep
    <3> QED BY <1>9 DEF LoginHit
  <2>2. failed' \in 0 .. MaxFailures
    BY <2>4
  <2>3. locked' \in BOOLEAN
    BY <2>4
  <2> QED BY <1>9, <2>1, <2>2, <2>3 DEF LoginHit, otherVars
<1>10. ASSUME NEW d \in Clients, Grant(d) PROVE (SessionTypeOK /\ \A e \in Clients : ClientFits(e))'
  <2>1. PICK t \in Tokens : tokens' = [tokens EXCEPT ![t] = [NoToken EXCEPT !.is = "live", !.under = auth[d].saw,
                                                        !.late = auth[d].saw # passcode]]
    BY <1>10 DEF Grant
  <2> DEFINE n == [NoToken EXCEPT !.is = "live", !.under = auth[d].saw, !.late = auth[d].saw # passcode]
  <2>2. n \in TokenRows
    BY <1>10 DEF Grant, NoToken
  <2>3. tokens' \in [Tokens -> TokenRows]
    <3>1. tokens \in [Tokens -> TokenRows]
      OBVIOUS
    <3>2. tokens' = [tokens EXCEPT ![t] = n]
      BY <2>1
    <3> HIDE DEF TokenRows, SessionTypeOK, n
    <3> QED BY <2>2, <3>1, <3>2
  <2>4. auth' \in [Clients -> AuthTasks] /\ \A e \in Clients : ClientFits(e)'
    <3>1. auth \in [Clients -> AuthTasks] /\ Finish(d)
      BY <1>10 DEF Grant
    <3> HIDE DEF AuthTasks, ClientFits, SessionTypeOK
    <3> QED BY <3>1, ClientRests
  <2> HIDE DEF n
  <2> QED BY <1>10, <2>3, <2>4 DEF Grant, userVars, otherVars
<1>11. ASSUME NEW d \in Clients, Rotate(d) PROVE (SessionTypeOK /\ \A e \in Clients : ClientFits(e))'
  <2>1. tokens \in [Tokens -> TokenRows] /\ auth \in [Clients -> AuthTasks] /\ 0 \in 0 .. MaxTokens
    OBVIOUS
  <2> DEFINE t == auth[d].tok
             g == Gone({t})
  <2>2. CASE t \in Live
    <3>0. tokens' = [g EXCEPT ![t].traded = g[t].traded + 1] /\ DeviceDoes(d, "grant", tokens[t].under, 0)
      <4> HIDE DEF SessionTypeOK, ClientFits
      <4> QED BY <1>11, <2>2 DEF Rotate, StillThere
    <3>1. t \in Tokens /\ tokens' = [g EXCEPT ![t].traded = g[t].traded + 1] /\ DeviceDoes(d, "grant", tokens[t].under, 0)
      BY <2>2, <3>0 DEF Live
    <3>2. g \in [Tokens -> TokenRows] /\ tokens[t].under \in Passwords
      BY <2>1, <3>1, GoneRows
    <3>3. tokens' \in [Tokens -> TokenRows]
      <4> HIDE DEF g, t
      <4>0. g[t] \in TokenRows
        BY <3>1, <3>2
      <4>1. [g[t] EXCEPT !.traded = g[t].traded + 1] \in TokenRows
        BY <4>0, TradedRow
      <4>2. tokens' = [g EXCEPT ![t] = [g[t] EXCEPT !.traded = g[t].traded + 1]]
        BY <3>1, <3>2
      <4> DEFINE r == [g[t] EXCEPT !.traded = g[t].traded + 1]
      <4> HIDE DEF r, TokenRows
      <4> QED BY <3>2, <4>1, <4>2 DEF r
    <3>4. auth' \in [Clients -> AuthTasks] /\ \A e \in Clients : ClientFits(e)'
      <4>1. tokens[t].under \in Nat
        BY <3>2
      <4> HIDE DEF AuthTasks, ClientFits, Passwords, SessionTypeOK, t
      <4> QED BY <2>1, <3>1, <3>2, <4>1, ClientActs
    <3> QED BY <1>11, <3>3, <3>4 DEF Rotate, userVars, otherVars
  <2>3. CASE t \notin Live
    <3>1. UNCHANGED tokens /\ Finish(d)
      BY <1>11, <2>3 DEF Rotate, StillThere
    <3>2. auth' \in [Clients -> AuthTasks] /\ \A e \in Clients : ClientFits(e)'
      <4> HIDE DEF AuthTasks, ClientFits, SessionTypeOK
      <4> QED BY <2>1, <3>1, ClientRests
    <3> QED BY <1>11, <3>1, <3>2 DEF Rotate, userVars, otherVars
  <2> QED BY <2>2, <2>3
<1>12. ASSUME NEW d \in Clients, Wipe(d) PROVE (SessionTypeOK /\ \A e \in Clients : ClientFits(e))'
  <2>1. tokens' = Gone(Live) /\ tokens \in [Tokens -> TokenRows]
    BY <1>12 DEF Wipe
  <2>2. tokens' \in [Tokens -> TokenRows]
    <3> HIDE DEF TokenRows, SessionTypeOK
    <3> QED BY <2>1, GoneRows
  <2>3. auth' \in [Clients -> AuthTasks] /\ \A e \in Clients : ClientFits(e)'
    <3>1. auth \in [Clients -> AuthTasks] /\ Finish(d)
      BY <1>12 DEF Wipe
    <3> HIDE DEF AuthTasks, ClientFits, SessionTypeOK
    <3> QED BY <3>1, ClientRests
  <2> QED BY <1>12, <2>2, <2>3 DEF Wipe, userVars, otherVars
<1>13. ASSUME NEW d \in Clients, NEW t \in Tokens, RefreshRead(d, t) PROVE (SessionTypeOK /\ \A e \in Clients : ClientFits(e))'
  BY <1>13 DEF RefreshRead, Live, DeviceDoes, userVars, otherVars
<1>14. ASSUME NEW d \in Clients, NEW t \in Tokens, Logout(d, t) PROVE (SessionTypeOK /\ \A e \in Clients : ClientFits(e))'
  BY <1>14, ZenonT(60) DEF Logout, Live, Gone, userVars, otherVars
<1>15. ASSUME NEW d \in Clients, ChangeRead(d) PROVE (SessionTypeOK /\ \A e \in Clients : ClientFits(e))'
  BY <1>15 DEF ChangeRead, DeviceDoes, userVars, otherVars
<1>16. ASSUME NEW d \in Clients, ChangeWrite(d) PROVE (SessionTypeOK /\ \A e \in Clients : ClientFits(e))'
  BY <1>16 DEF ChangeWrite, NewPassword, DeviceDoes, otherVars
<1>17. ASSUME NEW d \in Clients, RevokeAll(d) PROVE (SessionTypeOK /\ \A e \in Clients : ClientFits(e))'
  <2>1. tokens' = Gone(Revoked) /\ tokens \in [Tokens -> TokenRows]
    BY <1>17 DEF RevokeAll
  <2>2. tokens' \in [Tokens -> TokenRows]
    <3> HIDE DEF TokenRows, SessionTypeOK
    <3> QED BY <2>1, GoneRows
  <2>3. auth' \in [Clients -> AuthTasks] /\ \A e \in Clients : ClientFits(e)'
    <3>1. auth \in [Clients -> AuthTasks] /\ DeviceDoes(d, "grant", auth[d].saw, 0) /\ auth[d].saw \in Passwords
          /\ auth[d].saw \in Nat /\ 0 \in 0 .. MaxTokens
      BY <1>17 DEF RevokeAll
    <3> HIDE DEF AuthTasks, ClientFits, SessionTypeOK, Passwords
    <3> QED BY <3>1, ClientActs
  <2> QED BY <1>17, <2>2, <2>3 DEF RevokeAll, userVars
<1>18. ASSUME NEW d \in Clients, ResetRead(d) PROVE (SessionTypeOK /\ \A e \in Clients : ClientFits(e))'
  BY <1>18 DEF ResetRead, DeviceDoes, userVars, otherVars
<1>19. ASSUME NEW d \in Clients, ResetWrite(d) PROVE (SessionTypeOK /\ \A e \in Clients : ClientFits(e))'
  <2>1. tokens' = Gone(Live) /\ tokens \in [Tokens -> TokenRows]
    BY <1>19 DEF ResetWrite
  <2>2. tokens' \in [Tokens -> TokenRows]
    <3> HIDE DEF TokenRows, SessionTypeOK
    <3> QED BY <2>1, GoneRows
  <2>3. auth' \in [Clients -> AuthTasks] /\ \A e \in Clients : ClientFits(e)'
    <3>1. auth \in [Clients -> AuthTasks] /\ Finish(d)
      BY <1>19 DEF ResetWrite
    <3> HIDE DEF AuthTasks, ClientFits, SessionTypeOK
    <3> QED BY <3>1, ClientRests
  <2>4. passcode' \in Passwords
    BY <1>19 DEF ResetWrite, NewPassword
  <2> QED BY <1>19, <2>2, <2>3, <2>4 DEF ResetWrite
<1>20. ASSUME NEW d \in Clients, SessionCrash(d) PROVE (SessionTypeOK /\ \A e \in Clients : ClientFits(e))'
  BY <1>20 DEF SessionCrash, Finish, Asleep, userVars
<1> HIDE DEF SessionTypeOK, TokenRows, AuthTasks, AtStep, ClientFits, Passwords, Tokens
<1> QED
  BY <1>1, <1>2, <1>3, <1>4, <1>5, <1>6, <1>7, <1>8, <1>9, <1>10, <1>11, <1>12, <1>13, <1>14, <1>15, <1>16, <1>17, <1>18, <1>19, <1>20
  DEF SessionNext

\* Every step keeps live tokens under the password.
LEMMA SessionsGoOn ==
  ASSUME SessionTypeOK, \A t \in Tokens : TokenFits(t), \A t \in Tokens : Upheld(t), [SessionNext]_sessionVars
  PROVE  (\A k \in Tokens : TokenFits(k) /\ Upheld(k))'
<1> USE DEF SessionTypeOK, AtStep, TokenFits, Upheld
<1>1. CASE UNCHANGED sessionVars
  BY <1>1 DEF sessionVars
<1>2. CASE LockExpires
  <2>1. (\A x \in Tokens : TokenFits(x))'
    BY <1>2 DEF LockExpires, otherVars
  <2>2. (\A x \in Tokens : Upheld(x))'
    BY <1>2 DEF LockExpires, otherVars
  <2> QED BY <2>1, <2>2 DEF TokenFits, Upheld
<1>3. CASE ForgotPassword
  <2>1. (\A x \in Tokens : TokenFits(x))'
    BY <1>3 DEF ForgotPassword, otherVars
  <2>2. (\A x \in Tokens : Upheld(x))'
    BY <1>3 DEF ForgotPassword, otherVars
  <2> QED BY <2>1, <2>2 DEF TokenFits, Upheld
<1>4. CASE VerifyEmail
  <2>1. (\A x \in Tokens : TokenFits(x))'
    BY <1>4 DEF VerifyEmail, otherVars
  <2>2. (\A x \in Tokens : Upheld(x))'
    BY <1>4 DEF VerifyEmail, otherVars
  <2> QED BY <2>1, <2>2 DEF TokenFits, Upheld
<1>5. ASSUME NEW d \in Clients, SignUpRead(d) PROVE (\A k \in Tokens : TokenFits(k) /\ Upheld(k))'
  BY <1>5 DEF SignUpRead, DeviceDoes, userVars, otherVars
<1>6. ASSUME NEW d \in Clients, SignUpWrite(d) PROVE (\A k \in Tokens : TokenFits(k) /\ Upheld(k))'
  BY <1>6 DEF SignUpWrite, Finish, Asleep, otherVars
<1>7. ASSUME NEW d \in Clients, LoginRead(d) PROVE (\A k \in Tokens : TokenFits(k) /\ Upheld(k))'
  BY <1>7 DEF LoginRead, DeviceDoes, userVars, otherVars
<1>8. ASSUME NEW d \in Clients, LoginMiss(d) PROVE (\A k \in Tokens : TokenFits(k) /\ Upheld(k))'
  BY <1>8 DEF LoginMiss, Finish, Asleep, otherVars
<1>9. ASSUME NEW d \in Clients, LoginHit(d) PROVE (\A k \in Tokens : TokenFits(k) /\ Upheld(k))'
  BY <1>9 DEF LoginHit, Finish, Asleep, DeviceDoes, otherVars
<1>10. ASSUME NEW d \in Clients, Grant(d) PROVE (\A k \in Tokens : TokenFits(k) /\ Upheld(k))'
  <2>1. PICK t \in Tokens : tokens' = [tokens EXCEPT ![t] = [NoToken EXCEPT !.is = "live", !.under = auth[d].saw,
                                                        !.late = auth[d].saw # passcode]]
    BY <1>10 DEF Grant
  <2>2. /\ tokens'[t].is = "live" /\ tokens'[t].under = auth[d].saw /\ tokens'[t].traded = 0
        /\ (tokens'[t].late <=> auth[d].saw # passcode)
    BY <2>1 DEF NoToken
  <2>3. \A x \in Tokens : x # t => tokens'[x] = tokens[x]
    BY <2>1
  <2>4. UNCHANGED <<passcode, unrevoked>> /\ \A e \in Clients : AtStep(e, "revoke") => AtStep(e, "revoke")'
    BY <1>10 DEF Grant, Finish, Asleep, userVars, otherVars
  <2> QED BY <2>2, <2>3, <2>4
<1>11. ASSUME NEW d \in Clients, Rotate(d) PROVE (\A k \in Tokens : TokenFits(k) /\ Upheld(k))'
  <2> DEFINE t == auth[d].tok
  <2>1. CASE t \in Live
    <3>0. tokens' = [Gone({t}) EXCEPT ![t].traded = Gone({t})[t].traded + 1] /\ DeviceDoes(d, "grant", tokens[t].under, 0)
          /\ UNCHANGED <<passcode, unrevoked>>
      <4> HIDE DEF SessionTypeOK
      <4> QED BY <1>11, <2>1 DEF Rotate, StillThere, userVars, otherVars
    <3>1. t \in Tokens /\ tokens[t].is = "live" /\ tokens[t].traded = 0 /\ auth[d].do = "rotate"
      BY <1>11, <2>1 DEF Live, Rotate
    <3> DEFINE g == Gone({t})
    <3>2. /\ g \in [Tokens -> TokenRows] /\ g[t].traded = 0 /\ g[t].is = "gone"
          /\ \A x \in Tokens : x # t => g[x] = tokens[x]
      <4>1. tokens \in [Tokens -> TokenRows]
        BY DEF TokenRows
      <4> QED BY <3>1, <4>1, GoneRows
    <3> HIDE DEF g
    <3>3. \A x \in Tokens : x # t => tokens'[x] = tokens[x]
      <4> HIDE DEF SessionTypeOK, t
      <4> QED BY <3>0, <3>1, <3>2 DEF g
    <3>4. tokens'[t].is = "gone" /\ tokens'[t].traded = 1
      <4>1. tokens'[t] = [g[t] EXCEPT !.traded = g[t].traded + 1]
        <5> HIDE DEF SessionTypeOK, t
        <5> QED BY <3>0, <3>1, <3>2 DEF g
      <4>2. g[t] \in TokenRows
        BY <3>1, <3>2
      <4> QED BY <4>1, <4>2, <3>2 DEF TokenRows
    <3>5. \A e \in Clients : AtStep(e, "revoke") => AtStep(e, "revoke")'
      BY <3>0, <3>1 DEF DeviceDoes
    <3> HIDE DEF t
    <3>6. \A x \in Tokens : TokenFits(x)'
      BY <3>1, <3>3, <3>4
    <3>7. \A x \in Tokens : Upheld(x)'
      <4> HIDE DEF AtStep
      <4> QED BY <3>0, <3>1, <3>3, <3>4, <3>5
    <3> QED BY <3>6, <3>7
  <2>2. CASE t \notin Live
    BY <1>11, <2>2 DEF Rotate, StillThere, Finish, Asleep, userVars, otherVars
  <2> QED BY <2>1, <2>2
<1>12. ASSUME NEW d \in Clients, Wipe(d) PROVE (\A k \in Tokens : TokenFits(k) /\ Upheld(k))'
  BY <1>12 DEF Wipe, Live, Gone, Finish, Asleep, userVars, otherVars
<1>13. ASSUME NEW d \in Clients, NEW t \in Tokens, RefreshRead(d, t) PROVE (\A k \in Tokens : TokenFits(k) /\ Upheld(k))'
  BY <1>13 DEF RefreshRead, Live, DeviceDoes, userVars, otherVars
<1>14. ASSUME NEW d \in Clients, NEW t \in Tokens, Logout(d, t) PROVE (\A k \in Tokens : TokenFits(k) /\ Upheld(k))'
  BY <1>14 DEF Logout, Live, Gone, userVars, otherVars
<1>15. ASSUME NEW d \in Clients, ChangeRead(d) PROVE (\A k \in Tokens : TokenFits(k) /\ Upheld(k))'
  BY <1>15 DEF ChangeRead, DeviceDoes, userVars, otherVars
<1>16. ASSUME NEW d \in Clients, ChangeWrite(d) PROVE (\A k \in Tokens : TokenFits(k) /\ Upheld(k))'
  BY <1>16 DEF ChangeWrite, NewPassword, DeviceDoes, otherVars
<1>17. ASSUME NEW d \in Clients, RevokeAll(d) PROVE (\A k \in Tokens : TokenFits(k) /\ Upheld(k))'
  BY <1>17 DEF RevokeAll, Revoked, Live, Gone, DeviceDoes, userVars
<1>18. ASSUME NEW d \in Clients, ResetRead(d) PROVE (\A k \in Tokens : TokenFits(k) /\ Upheld(k))'
  BY <1>18 DEF ResetRead, DeviceDoes, userVars, otherVars
<1>19. ASSUME NEW d \in Clients, ResetWrite(d) PROVE (\A k \in Tokens : TokenFits(k) /\ Upheld(k))'
  BY <1>19 DEF ResetWrite, NewPassword, Live, Gone, Finish, Asleep
<1>20. ASSUME NEW d \in Clients, SessionCrash(d) PROVE (\A k \in Tokens : TokenFits(k) /\ Upheld(k))'
  BY <1>20 DEF SessionCrash, Finish, Asleep, userVars
<1> HIDE DEF SessionTypeOK, AtStep, TokenFits, Upheld
<1> QED
  BY <1>1, <1>2, <1>3, <1>4, <1>5, <1>6, <1>7, <1>8, <1>9, <1>10, <1>11, <1>12, <1>13, <1>14, <1>15, <1>16, <1>17, <1>18, <1>19, <1>20
  DEF SessionNext

\* Every step keeps sessions under the password.
LEMMA SessionInvGoesOn ==
  ASSUME SessionInv, [SessionNext]_sessionVars
  PROVE  SessionInv'
BY SessionsTyped, SessionsGoOn DEF SessionInv

\* What is kept about sessions is what is claimed of them.
LEMMA PasswordsFollowed == SessionInv => SessionsFollowPassword
BY DEF SessionInv, TokenFits, Upheld, SessionsFollowPassword, Live

-----------------------------------------------------------------------------
(*****************************************************************************)
(* Roles.                                                                    *)
(*****************************************************************************)
\* Who is about to grant or revoke names a role and a permission, who judges a user; and what is
\* about to be granted is held by some role, unless it was revoked meanwhile.
RoleTasks == [do : {"idle", "grant", "revoke", "judge"}, role : Roles,
              permit : Permits \union {"none"}, whom : Admins \union {"none"}]
AdminFits(a) == /\ adesk[a].do \in {"grant", "revoke"} => adesk[a].permit \in Permits
                /\ adesk[a].do = "judge" => adesk[a].whom \in Admins
Authority == crossing \/ /\ \A g \in grants : g[2] \notin extinct
                         /\ \A a \in Admins : adesk[a].do = "grant" => adesk[a].permit \notin extinct
RoleInv == RoleTypeOK /\ (\A b \in Admins : AdminFits(b)) /\ Authority

\* At the start nothing was revoked.
LEMMA RolesStart == RoleInit => RoleInv
<1> SUFFICES ASSUME RoleInit PROVE RoleInv
  OBVIOUS
<1> USE RoleConstantsOK DEF RoleInit, NoTask
<1>1. adesk \in [Admins -> RoleTasks]
  BY DEF RoleTasks
<1>2. grants \subseteq Roles \X Permits
  OBVIOUS
<1>3. roleOf \in [Admins -> Roles] /\ standing \in [Admins -> {"active", "suspended"}]
  OBVIOUS
<1>4. acted = {} /\ extinct = {} /\ crossing \in BOOLEAN
  OBVIOUS
<1>9. moves \in 0 .. MaxMoves
  OBVIOUS
<1>5. \A a \in Admins : adesk[a].do = "idle"
  OBVIOUS
<1> HIDE DEF RoleInit
<1>6. RoleTypeOK
  BY <1>1, <1>2, <1>3, <1>4, <1>9 DEF RoleTypeOK, RoleTasks
<1>7. \A b \in Admins : AdminFits(b)
  BY <1>5 DEF AdminFits
<1>8. Authority
  BY <1>4, <1>5 DEF Authority
<1> QED BY <1>6, <1>7, <1>8 DEF RoleInv

\* Every step on roles keeps their types, and tasks in shape.
LEMMA RolesTyped ==
  ASSUME RoleTypeOK, \A b \in Admins : AdminFits(b), [RoleNext]_roleVars
  PROVE  (RoleTypeOK /\ \A b \in Admins : AdminFits(b))'
<1> USE RoleConstantsOK DEF RoleTypeOK, RoleTasks, AdminFits
<1>1. CASE UNCHANGED roleVars
  BY <1>1 DEF roleVars
<1>2. ASSUME NEW a \in Admins, NEW r \in Roles, NEW p \in Permits, Delegate(a, "grant", r, p) PROVE (RoleTypeOK /\ \A b \in Admins : AdminFits(b))'
  BY <1>2 DEF Delegate, Admits, MayDelegate, HasPermit, NoTask
<1>3. ASSUME NEW a \in Admins, NEW r \in Roles, NEW p \in Permits, Delegate(a, "revoke", r, p) PROVE (RoleTypeOK /\ \A b \in Admins : AdminFits(b))'
  BY <1>3 DEF Delegate, Admits, MayDelegate, HasPermit, NoTask
<1>4. ASSUME NEW a \in Admins, GrantPermission(a) PROVE (RoleTypeOK /\ \A b \in Admins : AdminFits(b))'
  BY <1>4 DEF GrantPermission, NoTask
<1>5. ASSUME NEW a \in Admins, RevokePermission(a) PROVE (RoleTypeOK /\ \A b \in Admins : AdminFits(b))'
  BY <1>5 DEF RevokePermission, InFlight, NoTask
<1>6. ASSUME NEW a \in Admins, NEW u \in Admins, JudgeUser(a, u) PROVE (RoleTypeOK /\ \A b \in Admins : AdminFits(b))'
  BY <1>6 DEF JudgeUser, Admits, NoTask
<1>7. ASSUME NEW a \in Admins, NEW st \in {"active", "suspended"}, SetUserStatus(a, st) PROVE (RoleTypeOK /\ \A b \in Admins : AdminFits(b))'
  BY <1>7 DEF SetUserStatus, NoTask
<1>8. ASSUME NEW a \in Admins, NEW r \in Roles, UpdateUser(a, r) PROVE (RoleTypeOK /\ \A b \in Admins : AdminFits(b))'
  BY <1>8 DEF UpdateUser
<1> HIDE DEF RoleTypeOK, RoleTasks, AdminFits
<1> QED
  BY <1>1, <1>2, <1>3, <1>4, <1>5, <1>6, <1>7, <1>8
  DEF RoleNext

\* Every step keeps what nobody holds from being granted.
LEMMA AuthorityGoesOn ==
  ASSUME RoleTypeOK, \A b \in Admins : AdminFits(b), Authority, [RoleNext]_roleVars
  PROVE  Authority'
<1> USE DEF RoleTypeOK, AdminFits, Authority
<1>1. CASE UNCHANGED roleVars
  BY <1>1 DEF roleVars
<1>2. ASSUME NEW a \in Admins, NEW r \in Roles, NEW p \in Permits, Delegate(a, "grant", r, p) PROVE Authority'
  BY <1>2 DEF Delegate, Admits, MayDelegate, HasPermit, NoTask
<1>3. ASSUME NEW a \in Admins, NEW r \in Roles, NEW p \in Permits, Delegate(a, "revoke", r, p) PROVE Authority'
  BY <1>3 DEF Delegate, Admits, MayDelegate, HasPermit, NoTask
<1>4. ASSUME NEW a \in Admins, GrantPermission(a) PROVE Authority'
  BY <1>4 DEF GrantPermission, NoTask
<1>5. ASSUME NEW a \in Admins, RevokePermission(a) PROVE Authority'
  <2>1. (crossing \/ \A g \in grants : g[2] \notin extinct)'
    BY <1>5 DEF RevokePermission, InFlight, NoTask
  <2>2. (crossing \/ \A b \in Admins : adesk[b].do = "grant" => adesk[b].permit \notin extinct)' 
    BY <1>5 DEF RevokePermission, InFlight, NoTask
  <2> QED BY <2>1, <2>2 DEF Authority
<1>6. ASSUME NEW a \in Admins, NEW u \in Admins, JudgeUser(a, u) PROVE Authority'
  BY <1>6 DEF JudgeUser, Admits, NoTask
<1>7. ASSUME NEW a \in Admins, NEW st \in {"active", "suspended"}, SetUserStatus(a, st) PROVE Authority'
  BY <1>7 DEF SetUserStatus, NoTask
<1>8. ASSUME NEW a \in Admins, NEW r \in Roles, UpdateUser(a, r) PROVE Authority'
  BY <1>8 DEF UpdateUser
<1> HIDE DEF RoleTypeOK, AdminFits, Authority
<1> QED
  BY <1>1, <1>2, <1>3, <1>4, <1>5, <1>6, <1>7, <1>8
  DEF RoleNext

\* Every step keeps grants within what somebody holds.
LEMMA RolesGoOn ==
  ASSUME RoleInv, [RoleNext]_roleVars
  PROVE  RoleInv'
BY RolesTyped, AuthorityGoesOn DEF RoleInv

-----------------------------------------------------------------------------
(*****************************************************************************)
(* The sites of a store.                                                     *)
(*****************************************************************************)
\* What StoreTypeOK says of the rows, and of the terms.
SiteTasks == [do : {"idle", "add", "edit", "remove", "open"}, row : SiteRows, mark : BOOLEAN,
              clears : SUBSET SiteRows]
SiteTyped ==
  /\ kind \in {"warehouse", "account"} /\ verifiedS \in BOOLEAN
  /\ store \in {"none", "gone", "DRAFT", "ACTIVE", "SUSPENDED"}
  /\ site \in [SiteRows -> {"none", "live", "gone"}]
  /\ marked \subseteq SiteRows /\ idleRow \subseteq SiteRows /\ stock \subseteq SiteRows
  /\ mreq \in [Managers -> SiteTasks]
  /\ verdicts \in 0 .. MaxVerdicts /\ raced \subseteq {"mark", "stock"}

\* Before the store exists nothing is marked or under way.  Unless two requests marked rows at
\* once, one row is marked at most and one request marks at most, which clears every mark but
\* the row's that it sets; and no row with stock is deleted or about to be, unless it raced.
Marking(m) == mreq[m].do \in {"add", "edit"} /\ mreq[m].mark
Sees(m)    == IF mreq[m].do = "edit" THEN mreq[m].clears \union {mreq[m].row} ELSE mreq[m].clears
Founded   == store = "none" => marked = {} /\ \A m \in Managers : mreq[m].do = "idle"
MarksInv  == "mark" \notin raced =>
               /\ \A x, y \in marked : x = y
               /\ \A m \in Managers : Marking(m) => marked \subseteq Sees(m)
               /\ \A m, o \in Managers : Marking(m) /\ Marking(o) => m = o
StockInv  == "stock" \notin raced =>
               /\ \A r \in stock : site[r] = "live"
               /\ \A m \in Managers : mreq[m].do = "remove" => mreq[m].row \notin stock
SiteInv == SiteTyped /\ Founded /\ MarksInv /\ StockInv

\* There is a first row.
LEMMA FirstRow == 1 \in SiteRows
BY StoreConstantsOK DEF SiteRows

\* A manager at rest has a task of the right kind.
LEMMA NoReqTask == NoReq \in SiteTasks
BY FirstRow DEF NoReq, SiteTasks

\* A site starts without rows.
LEMMA SiteStart == StoreInit => SiteInv
<1> SUFFICES ASSUME StoreInit PROVE SiteInv
  OBVIOUS
<1> USE StoreConstantsOK DEF StoreInit
<1>1. mreq \in [Managers -> SiteTasks]
  <2> HIDE DEF SiteTasks, NoReq
  <2> QED BY NoReqTask
<1>2. kind \in {"warehouse", "account"} /\ verifiedS \in BOOLEAN
  OBVIOUS
<1>3. site \in [SiteRows -> {"none", "live", "gone"}]
  OBVIOUS
<1>4. marked = {} /\ idleRow = {} /\ stock = {} /\ raced = {} /\ store = "none"
  OBVIOUS
<1>5. verdicts \in 0 .. MaxVerdicts
  OBVIOUS
<1>6. \A m \in Managers : mreq[m].do = "idle"
  BY DEF NoReq
<1> HIDE DEF StoreInit
<1>7. SiteTyped
  BY <1>1, <1>2, <1>3, <1>4, <1>5 DEF SiteTyped
<1>8. Founded /\ MarksInv /\ StockInv
  BY <1>4, <1>6 DEF Founded, MarksInv, StockInv, Marking
<1> QED BY <1>7, <1>8 DEF SiteInv

\* A request that comes to rest leaves the others as they are.
LEMMA ManagerLeaves ==
  ASSUME mreq \in [Managers -> SiteTasks], NEW m \in Managers, Leaves(m)
  PROVE  /\ mreq' \in [Managers -> SiteTasks] /\ mreq'[m] = NoReq
         /\ \A o \in Managers : o # m => mreq'[o] = mreq[o]
<1> HIDE DEF SiteTasks, NoReq
<1> QED BY NoReqTask DEF Leaves

\* A manager that is given a task has it, and no other is disturbed.
LEMMA ManagerTakes ==
  ASSUME mreq \in [Managers -> SiteTasks], NEW m \in Managers, NEW t \in SiteTasks,
         mreq' = [mreq EXCEPT ![m] = t]
  PROVE  /\ mreq' \in [Managers -> SiteTasks] /\ mreq'[m] = t
         /\ \A o \in Managers : o # m => mreq'[o] = mreq[o]
<1> HIDE DEF SiteTasks
<1> QED OBVIOUS

\* Every step on the rows keeps their types.
LEMMA SiteStaysTyped ==
  ASSUME SiteTyped, [SiteNext]_siteVars
  PROVE  SiteTyped'
<1> USE StoreConstantsOK, FirstRow DEF SiteTyped, SiteTasks, Waits
<1>1. CASE UNCHANGED siteVars
  BY <1>1 DEF siteVars
<1>2. CASE CreateStore
  BY <1>2 DEF CreateStore
<1>3. CASE SellerRuled
  BY <1>3 DEF SellerRuled, rowVars
<1>4. ASSUME NEW st \in {"DRAFT", "ACTIVE", "SUSPENDED"}, SetStoreStatus(st) PROVE SiteTyped'
  BY <1>4 DEF SetStoreStatus, rowVars
<1>5. ASSUME NEW admin \in BOOLEAN, RemoveStore(admin) PROVE SiteTyped'
  BY <1>5 DEF RemoveStore, rowVars
<1>6. ASSUME NEW r \in SiteRows, StockDefault(r) PROVE SiteTyped'
  BY <1>6 DEF StockDefault, LiveRows, headVars
<1>7. ASSUME NEW m \in Managers, AddCommit(m) PROVE SiteTyped'
  BY <1>7 DEF AddCommit, Leaves, NoReq, headVars
<1>8. ASSUME NEW m \in Managers, EditCommit(m) PROVE SiteTyped'
  BY <1>8 DEF EditCommit, Leaves, NoReq, headVars
<1>9. ASSUME NEW m \in Managers, RemoveCommit(m) PROVE SiteTyped'
  BY <1>9 DEF RemoveCommit, Leaves, NoReq, headVars
<1>10. ASSUME NEW m \in Managers, SubmitStore(m) PROVE SiteTyped'
  BY <1>10 DEF SubmitStore, May, NoReq, headVars, rowVars
<1>11. ASSUME NEW m \in Managers, OpenStore(m) PROVE SiteTyped'
  BY <1>11 DEF OpenStore, Leaves, NoReq, rowVars
<1>12. ASSUME NEW m \in Managers, NEW mark \in BOOLEAN, AddRow(m, mark) PROVE SiteTyped'
  BY <1>12 DEF AddRow, May, Notes, Busy, headVars, rowVars
<1>13. ASSUME NEW m \in Managers, NEW r \in SiteRows, NEW mark \in BOOLEAN, EditRow(m, r, mark) PROVE SiteTyped'
  BY <1>13 DEF EditRow, May, Clears, Notes, Busy, headVars, rowVars
<1>14. ASSUME NEW m \in Managers, NEW r \in SiteRows, RemoveRow(m, r) PROVE SiteTyped'
  BY <1>14 DEF RemoveRow, May, NoReq, headVars, rowVars
<1> HIDE DEF SiteTyped, SiteTasks, Waits
<1> QED
  BY <1>1, <1>2, <1>3, <1>4, <1>5, <1>6, <1>7, <1>8, <1>9, <1>10, <1>11, <1>12, <1>13, <1>14
  DEF SiteNext, AddMyWarehouse, AddPayoutAccount, UpdateMyWarehouse, UpdatePayoutAccount, RemoveMyWarehouse, RemovePayoutAccount

\* Rows are marked and managed only once there is a store.
LEMMA FoundedStays ==
  ASSUME SiteTyped, Founded, [SiteNext]_siteVars
  PROVE  Founded'
<1> USE DEF SiteTyped, SiteTasks, Founded, Waits
<1>1. CASE UNCHANGED siteVars
  BY <1>1 DEF siteVars
<1>2. CASE CreateStore
  BY <1>2 DEF CreateStore
<1>3. CASE SellerRuled
  BY <1>3 DEF SellerRuled, rowVars
<1>4. ASSUME NEW st \in {"DRAFT", "ACTIVE", "SUSPENDED"}, SetStoreStatus(st) PROVE Founded'
  BY <1>4 DEF SetStoreStatus, rowVars
<1>5. ASSUME NEW admin \in BOOLEAN, RemoveStore(admin) PROVE Founded'
  BY <1>5 DEF RemoveStore, rowVars
<1>6. ASSUME NEW r \in SiteRows, StockDefault(r) PROVE Founded'
  BY <1>6 DEF StockDefault, LiveRows, headVars
<1>7. ASSUME NEW m \in Managers, AddCommit(m) PROVE Founded'
  BY <1>7 DEF AddCommit, Leaves, NoReq, headVars
<1>8. ASSUME NEW m \in Managers, EditCommit(m) PROVE Founded'
  BY <1>8 DEF EditCommit, Leaves, NoReq, headVars
<1>9. ASSUME NEW m \in Managers, RemoveCommit(m) PROVE Founded'
  BY <1>9 DEF RemoveCommit, Leaves, NoReq, headVars
<1>10. ASSUME NEW m \in Managers, SubmitStore(m) PROVE Founded'
  BY <1>10 DEF SubmitStore, May, NoReq, headVars, rowVars
<1>11. ASSUME NEW m \in Managers, OpenStore(m) PROVE Founded'
  BY <1>11 DEF OpenStore, Leaves, NoReq, rowVars
<1>12. ASSUME NEW m \in Managers, NEW mark \in BOOLEAN, AddRow(m, mark) PROVE Founded'
  BY <1>12 DEF AddRow, May, Notes, Busy, headVars, rowVars
<1>13. ASSUME NEW m \in Managers, NEW r \in SiteRows, NEW mark \in BOOLEAN, EditRow(m, r, mark) PROVE Founded'
  BY <1>13 DEF EditRow, May, Clears, Notes, Busy, headVars, rowVars
<1>14. ASSUME NEW m \in Managers, NEW r \in SiteRows, RemoveRow(m, r) PROVE Founded'
  BY <1>14 DEF RemoveRow, May, NoReq, headVars, rowVars
<1> HIDE DEF SiteTyped, SiteTasks, Founded, Waits
<1> QED
  BY <1>1, <1>2, <1>3, <1>4, <1>5, <1>6, <1>7, <1>8, <1>9, <1>10, <1>11, <1>12, <1>13, <1>14
  DEF SiteNext, AddMyWarehouse, AddPayoutAccount, UpdateMyWarehouse, UpdatePayoutAccount, RemoveMyWarehouse, RemovePayoutAccount

\* Every step keeps one mark, unless two requests mark rows at once.
LEMMA MarksStay ==
  ASSUME SiteTyped, Founded, MarksInv, [SiteNext]_siteVars
  PROVE  MarksInv'
<1> USE DEF SiteTyped, SiteTasks, Founded, MarksInv, Marking, Sees, Waits
<1>1. CASE UNCHANGED siteVars
  BY <1>1 DEF siteVars
<1>2. CASE CreateStore
  BY <1>2 DEF CreateStore
<1>3. CASE SellerRuled
  BY <1>3 DEF SellerRuled, rowVars
<1>4. ASSUME NEW st \in {"DRAFT", "ACTIVE", "SUSPENDED"}, SetStoreStatus(st) PROVE MarksInv'
  BY <1>4 DEF SetStoreStatus, rowVars
<1>5. ASSUME NEW admin \in BOOLEAN, RemoveStore(admin) PROVE MarksInv'
  BY <1>5 DEF RemoveStore, rowVars
<1>6. ASSUME NEW r \in SiteRows, StockDefault(r) PROVE MarksInv'
  BY <1>6 DEF StockDefault, LiveRows, headVars
<1>7. ASSUME NEW m \in Managers, AddCommit(m) PROVE MarksInv'
  BY <1>7 DEF AddCommit, Leaves, NoReq, headVars
<1>8. ASSUME NEW m \in Managers, EditCommit(m) PROVE MarksInv'
  BY <1>8 DEF EditCommit, Leaves, NoReq, headVars
<1>9. ASSUME NEW m \in Managers, RemoveCommit(m) PROVE MarksInv'
  BY <1>9 DEF RemoveCommit, Leaves, NoReq, headVars
<1>10. ASSUME NEW m \in Managers, SubmitStore(m) PROVE MarksInv'
  BY <1>10 DEF SubmitStore, May, NoReq, headVars, rowVars
<1>11. ASSUME NEW m \in Managers, OpenStore(m) PROVE MarksInv'
  BY <1>11 DEF OpenStore, Leaves, NoReq, rowVars
<1>12. ASSUME NEW m \in Managers, NEW mark \in BOOLEAN, AddRow(m, mark) PROVE MarksInv'
  BY <1>12 DEF AddRow, May, Notes, Busy, headVars, rowVars
<1>13. ASSUME NEW m \in Managers, NEW r \in SiteRows, NEW mark \in BOOLEAN, EditRow(m, r, mark) PROVE MarksInv'
  BY <1>13 DEF EditRow, May, Clears, Notes, Busy, headVars, rowVars
<1>14. ASSUME NEW m \in Managers, NEW r \in SiteRows, RemoveRow(m, r) PROVE MarksInv'
  BY <1>14 DEF RemoveRow, May, NoReq, headVars, rowVars
<1> HIDE DEF SiteTyped, SiteTasks, Founded, MarksInv, Marking, Sees, Waits
<1> QED
  BY <1>1, <1>2, <1>3, <1>4, <1>5, <1>6, <1>7, <1>8, <1>9, <1>10, <1>11, <1>12, <1>13, <1>14
  DEF SiteNext, AddMyWarehouse, AddPayoutAccount, UpdateMyWarehouse, UpdatePayoutAccount, RemoveMyWarehouse, RemovePayoutAccount

\* Every step keeps the stock on rows that are there, unless it races their removal.
LEMMA StockStays ==
  ASSUME SiteTyped, Founded, StockInv, [SiteNext]_siteVars
  PROVE  StockInv'
<1> USE DEF SiteTyped, SiteTasks, StockInv, Waits
<1>1. CASE UNCHANGED siteVars
  BY <1>1 DEF siteVars
<1>2. CASE CreateStore
  BY <1>2 DEF CreateStore
<1>3. CASE SellerRuled
  BY <1>3 DEF SellerRuled, rowVars
<1>4. ASSUME NEW st \in {"DRAFT", "ACTIVE", "SUSPENDED"}, SetStoreStatus(st) PROVE StockInv'
  BY <1>4 DEF SetStoreStatus, rowVars
<1>5. ASSUME NEW admin \in BOOLEAN, RemoveStore(admin) PROVE StockInv'
  BY <1>5 DEF RemoveStore, rowVars
<1>6. ASSUME NEW r \in SiteRows, StockDefault(r) PROVE StockInv'
  BY <1>6 DEF StockDefault, LiveRows, headVars
<1>7. ASSUME NEW m \in Managers, AddCommit(m) PROVE StockInv'
  BY <1>7 DEF AddCommit, Leaves, NoReq, headVars
<1>8. ASSUME NEW m \in Managers, EditCommit(m) PROVE StockInv'
  BY <1>8 DEF EditCommit, Leaves, NoReq, headVars
<1>9. ASSUME NEW m \in Managers, RemoveCommit(m) PROVE StockInv'
  BY <1>9 DEF RemoveCommit, Leaves, NoReq, headVars
<1>10. ASSUME NEW m \in Managers, SubmitStore(m) PROVE StockInv'
  BY <1>10 DEF SubmitStore, May, NoReq, headVars, rowVars
<1>11. ASSUME NEW m \in Managers, OpenStore(m) PROVE StockInv'
  BY <1>11 DEF OpenStore, Leaves, NoReq, rowVars
<1>12. ASSUME NEW m \in Managers, NEW mark \in BOOLEAN, AddRow(m, mark) PROVE StockInv'
  BY <1>12 DEF AddRow, May, Notes, Busy, headVars, rowVars
<1>13. ASSUME NEW m \in Managers, NEW r \in SiteRows, NEW mark \in BOOLEAN, EditRow(m, r, mark) PROVE StockInv'
  BY <1>13 DEF EditRow, May, Clears, Notes, Busy, headVars, rowVars
<1>14. ASSUME NEW m \in Managers, NEW r \in SiteRows, RemoveRow(m, r) PROVE StockInv'
  BY <1>14 DEF RemoveRow, May, NoReq, headVars, rowVars
<1> HIDE DEF SiteTyped, SiteTasks, StockInv, Waits
<1> QED
  BY <1>1, <1>2, <1>3, <1>4, <1>5, <1>6, <1>7, <1>8, <1>9, <1>10, <1>11, <1>12, <1>13, <1>14
  DEF SiteNext, AddMyWarehouse, AddPayoutAccount, UpdateMyWarehouse, UpdatePayoutAccount, RemoveMyWarehouse, RemovePayoutAccount

\* Every step keeps the rows of a site right.
LEMMA SiteGoesOn ==
  ASSUME SiteInv, [SiteNext]_siteVars
  PROVE  SiteInv'
BY SiteStaysTyped, FoundedStays, MarksStay, StockStays DEF SiteInv

-----------------------------------------------------------------------------
(*****************************************************************************)
(* The terms of a store.                                                     *)
(*****************************************************************************)
\* Unless it was blurred: all products are priced in the store's currency, nobody changes it once
\* there are products, and a product about to be written has it; the configuration is what was
\* promised, and is what those who are about to patch it have read.
TermTasks == [do : {"idle", "currency", "product", "terms"}, currency : Currencies \union {"none"},
              terms : [TermKeys -> 0 .. MaxPatches], key : TermKeys]
TermTyped ==
  /\ currency \in Currencies /\ pricedIn \subseteq Currencies
  /\ shipTerms \in [TermKeys -> 0 .. MaxPatches] /\ promised \in [TermKeys -> 0 .. MaxPatches]
  /\ patches \in 0 .. MaxPatches
  /\ treq \in [Managers -> TermTasks]
  /\ blurred \subseteq {"currency", "terms"}
TermFits(m) == treq[m].do \in {"currency", "product"} => treq[m].currency \in Currencies
PricesInv ==
  "currency" \notin blurred =>
    /\ pricedIn \subseteq {currency}
    /\ \A m \in Managers : /\ treq[m].do = "currency" => pricedIn = {}
                           /\ treq[m].do = "product" => treq[m].currency = currency
PromiseInv ==
  "terms" \notin blurred =>
    /\ shipTerms = promised
    /\ \A m \in Managers : treq[m].do = "terms" => treq[m].terms = shipTerms
TermInv == TermTyped /\ (\A o \in Managers : TermFits(o)) /\ PricesInv /\ PromiseInv

\* Terms nobody has written are terms.
LEMMA NoTermsTyped == NoTerms \in [TermKeys -> 0 .. MaxPatches]
BY StoreConstantsOK DEF NoTerms

\* A manager of terms at rest has a task of the right kind.
LEMMA NoTermTaskTyped == NoTermTask \in TermTasks
BY NoTermsTyped DEF NoTermTask, TermTasks, TermKeys

\* A store starts without prices and promises.
LEMMA TermsStart == TermInit => TermInv
<1> SUFFICES ASSUME TermInit PROVE TermInv
  OBVIOUS
<1> USE StoreConstantsOK DEF TermInit
<1>1. treq \in [Managers -> TermTasks]
  BY NoTermTaskTyped
<1>2. currency \in Currencies /\ pricedIn = {} /\ blurred = {} /\ shipTerms = promised
  OBVIOUS
<1>3. shipTerms \in [TermKeys -> 0 .. MaxPatches] /\ promised \in [TermKeys -> 0 .. MaxPatches]
  BY NoTermsTyped
<1>4. patches \in 0 .. MaxPatches
  OBVIOUS
<1>5. \A m \in Managers : treq[m].do = "idle"
  BY DEF NoTermTask
<1> HIDE DEF TermInit
<1>6. TermTyped
  BY <1>1, <1>2, <1>3, <1>4 DEF TermTyped
<1>7. (\A o \in Managers : TermFits(o)) /\ PricesInv /\ PromiseInv
  BY <1>2, <1>5 DEF TermFits, PricesInv, PromiseInv
<1> QED BY <1>6, <1>7 DEF TermInv

\* Every step on the terms keeps their types, and tasks in shape.
LEMMA TermsTyped ==
  ASSUME TermTyped, \A o \in Managers : TermFits(o), [TermNext]_termVars
  PROVE  (TermTyped /\ \A o \in Managers : TermFits(o))'
<1> USE StoreConstantsOK DEF TermTyped, TermTasks, TermFits, TermKeys
<1>1. CASE UNCHANGED termVars
  BY <1>1 DEF termVars
<1>2. ASSUME NEW m \in Managers, NEW c \in Currencies, AskCurrency(m, c) PROVE (TermTyped /\ \A o \in Managers : TermFits(o))'
  BY <1>2 DEF AskCurrency, ReadsTerms
<1>3. ASSUME NEW m \in Managers, NEW f \in TermKeys, AskShipping(m, f) PROVE (TermTyped /\ \A o \in Managers : TermFits(o))'
  BY <1>3 DEF AskShipping, ReadsTerms
<1>4. ASSUME NEW m \in Managers, AskProduct(m) PROVE (TermTyped /\ \A o \in Managers : TermFits(o))'
  BY <1>4 DEF AskProduct, ReadsTerms
<1>5. ASSUME NEW m \in Managers, WriteCurrency(m) PROVE (TermTyped /\ \A o \in Managers : TermFits(o))'
  <2>1. (currency \in Currencies)'
    BY <1>5 DEF WriteCurrency, Blurs, OtherTermWork, TermsDone, NoTermTask
  <2>2. (pricedIn \subseteq Currencies)'
    BY <1>5 DEF WriteCurrency, Blurs, OtherTermWork, TermsDone, NoTermTask
  <2>3. (shipTerms \in [TermKeys -> 0 .. MaxPatches])'
    BY <1>5 DEF WriteCurrency, Blurs, OtherTermWork, TermsDone, NoTermTask
  <2>4. (promised \in [TermKeys -> 0 .. MaxPatches])'
    BY <1>5 DEF WriteCurrency, Blurs, OtherTermWork, TermsDone, NoTermTask
  <2>5. (patches \in 0 .. MaxPatches)'
    BY <1>5 DEF WriteCurrency, Blurs, OtherTermWork, TermsDone, NoTermTask
  <2>6. (treq \in [Managers -> TermTasks])'
    <3>1. treq' = [treq EXCEPT ![m] = NoTermTask] /\ treq \in [Managers -> TermTasks]
      BY <1>5 DEF WriteCurrency, TermsDone
    <3> HIDE DEF TermTasks, TermTyped
    <3> QED BY <3>1, NoTermTaskTyped
  <2>7. (blurred \subseteq {"currency", "terms"})' 
    BY <1>5 DEF WriteCurrency, Blurs, OtherTermWork, TermsDone, NoTermTask
  <2>8. (\A n \in Managers : TermFits(n))'
    BY <1>5 DEF WriteCurrency, Blurs, OtherTermWork, TermsDone, NoTermTask
  <2> QED BY <2>1, <2>2, <2>3, <2>4, <2>5, <2>6, <2>7, <2>8 DEF TermTyped, TermTasks, TermFits
<1>6. ASSUME NEW m \in Managers, WriteProduct(m) PROVE (TermTyped /\ \A o \in Managers : TermFits(o))'
  <2>1. (currency \in Currencies)'
    BY <1>6 DEF WriteProduct, Blurs, OtherTermWork, TermsDone, NoTermTask
  <2>2. (pricedIn \subseteq Currencies)'
    BY <1>6 DEF WriteProduct, Blurs, OtherTermWork, TermsDone, NoTermTask
  <2>3. (shipTerms \in [TermKeys -> 0 .. MaxPatches])'
    BY <1>6 DEF WriteProduct, Blurs, OtherTermWork, TermsDone, NoTermTask
  <2>4. (promised \in [TermKeys -> 0 .. MaxPatches])'
    BY <1>6 DEF WriteProduct, Blurs, OtherTermWork, TermsDone, NoTermTask
  <2>5. (patches \in 0 .. MaxPatches)'
    BY <1>6 DEF WriteProduct, Blurs, OtherTermWork, TermsDone, NoTermTask
  <2>6. (treq \in [Managers -> TermTasks])'
    <3>1. treq' = [treq EXCEPT ![m] = NoTermTask] /\ treq \in [Managers -> TermTasks]
      BY <1>6 DEF WriteProduct, TermsDone
    <3> HIDE DEF TermTasks, TermTyped
    <3> QED BY <3>1, NoTermTaskTyped
  <2>7. (blurred \subseteq {"currency", "terms"})' 
    BY <1>6 DEF WriteProduct, Blurs, OtherTermWork, TermsDone, NoTermTask
  <2>8. (\A n \in Managers : TermFits(n))'
    BY <1>6 DEF WriteProduct, Blurs, OtherTermWork, TermsDone, NoTermTask
  <2> QED BY <2>1, <2>2, <2>3, <2>4, <2>5, <2>6, <2>7, <2>8 DEF TermTyped, TermTasks, TermFits
<1>7. ASSUME NEW m \in Managers, WriteShipping(m) PROVE (TermTyped /\ \A o \in Managers : TermFits(o))'
  <2>1. (currency \in Currencies)'
    BY <1>7 DEF WriteShipping, Merged, Blurs, OtherTermWork, TermsDone, NoTermTask
  <2>2. (pricedIn \subseteq Currencies)'
    BY <1>7 DEF WriteShipping, Merged, Blurs, OtherTermWork, TermsDone, NoTermTask
  <2>3. (shipTerms \in [TermKeys -> 0 .. MaxPatches])'
    BY <1>7 DEF WriteShipping, Merged, Blurs, OtherTermWork, TermsDone, NoTermTask
  <2>4. (promised \in [TermKeys -> 0 .. MaxPatches])'
    BY <1>7 DEF WriteShipping, Merged, Blurs, OtherTermWork, TermsDone, NoTermTask
  <2>5. (patches \in 0 .. MaxPatches)'
    BY <1>7 DEF WriteShipping, Merged, Blurs, OtherTermWork, TermsDone, NoTermTask
  <2>6. (treq \in [Managers -> TermTasks])'
    <3>1. treq' = [treq EXCEPT ![m] = NoTermTask] /\ treq \in [Managers -> TermTasks]
      BY <1>7 DEF WriteShipping, TermsDone
    <3> HIDE DEF TermTasks, TermTyped
    <3> QED BY <3>1, NoTermTaskTyped
  <2>7. (blurred \subseteq {"currency", "terms"})' 
    BY <1>7 DEF WriteShipping, Merged, Blurs, OtherTermWork, TermsDone, NoTermTask
  <2>8. (\A n \in Managers : TermFits(n))'
    BY <1>7 DEF WriteShipping, Merged, Blurs, OtherTermWork, TermsDone, NoTermTask
  <2> QED BY <2>1, <2>2, <2>3, <2>4, <2>5, <2>6, <2>7, <2>8 DEF TermTyped, TermTasks, TermFits
<1> HIDE DEF TermTyped, TermTasks, TermFits, TermKeys
<1> QED
  BY <1>1, <1>2, <1>3, <1>4, <1>5, <1>6, <1>7
  DEF TermNext

\* Every step keeps prices in the currency of the store.
LEMMA PricesStay ==
  ASSUME TermTyped, PricesInv, [TermNext]_termVars
  PROVE  PricesInv'
<1> USE DEF TermTyped, TermTasks, PricesInv
<1>1. CASE UNCHANGED termVars
  BY <1>1 DEF termVars
<1>2. ASSUME NEW m \in Managers, NEW c \in Currencies, AskCurrency(m, c) PROVE PricesInv'
  BY <1>2 DEF AskCurrency, ReadsTerms
<1>3. ASSUME NEW m \in Managers, NEW f \in TermKeys, AskShipping(m, f) PROVE PricesInv'
  BY <1>3 DEF AskShipping, ReadsTerms
<1>4. ASSUME NEW m \in Managers, AskProduct(m) PROVE PricesInv'
  BY <1>4 DEF AskProduct, ReadsTerms
<1>5. ASSUME NEW m \in Managers, WriteCurrency(m) PROVE PricesInv'
  BY <1>5 DEF WriteCurrency, Blurs, OtherTermWork, TermsDone, NoTermTask
<1>6. ASSUME NEW m \in Managers, WriteProduct(m) PROVE PricesInv'
  BY <1>6 DEF WriteProduct, Blurs, OtherTermWork, TermsDone, NoTermTask
<1>7. ASSUME NEW m \in Managers, WriteShipping(m) PROVE PricesInv'
  BY <1>7 DEF WriteShipping, Merged, Blurs, OtherTermWork, TermsDone, NoTermTask
<1> HIDE DEF TermTyped, TermTasks, PricesInv
<1> QED
  BY <1>1, <1>2, <1>3, <1>4, <1>5, <1>6, <1>7
  DEF TermNext

\* Every step keeps the rates that were confirmed.
LEMMA PromiseStays ==
  ASSUME TermTyped, PromiseInv, [TermNext]_termVars
  PROVE  PromiseInv'
<1> USE DEF TermTyped, TermTasks, PromiseInv
<1>1. CASE UNCHANGED termVars
  BY <1>1 DEF termVars
<1>2. ASSUME NEW m \in Managers, NEW c \in Currencies, AskCurrency(m, c) PROVE PromiseInv'
  BY <1>2 DEF AskCurrency, ReadsTerms
<1>3. ASSUME NEW m \in Managers, NEW f \in TermKeys, AskShipping(m, f) PROVE PromiseInv'
  BY <1>3 DEF AskShipping, ReadsTerms
<1>4. ASSUME NEW m \in Managers, AskProduct(m) PROVE PromiseInv'
  BY <1>4 DEF AskProduct, ReadsTerms
<1>5. ASSUME NEW m \in Managers, WriteCurrency(m) PROVE PromiseInv'
  BY <1>5 DEF WriteCurrency, Blurs, OtherTermWork, TermsDone, NoTermTask
<1>6. ASSUME NEW m \in Managers, WriteProduct(m) PROVE PromiseInv'
  BY <1>6 DEF WriteProduct, Blurs, OtherTermWork, TermsDone, NoTermTask
<1>7. ASSUME NEW m \in Managers, WriteShipping(m) PROVE PromiseInv'
  BY <1>7 DEF WriteShipping, Merged, Blurs, OtherTermWork, TermsDone, NoTermTask
<1> HIDE DEF TermTyped, TermTasks, PromiseInv
<1> QED
  BY <1>1, <1>2, <1>3, <1>4, <1>5, <1>6, <1>7
  DEF TermNext

\* Every step keeps the terms of a store.
LEMMA TermsGoOn ==
  ASSUME TermInv, [TermNext]_termVars
  PROVE  TermInv'
BY TermsTyped, PricesStay, PromiseStays DEF TermInv

-----------------------------------------------------------------------------
(*****************************************************************************)
(* Carts.                                                                    *)
(*****************************************************************************)
\* What was asked for is credited to lines, and what a line holds, or is about to be given, is
\* covered by its credit; while a guest's cart is being copied its credit is the customer's.
Pairs == AllCarts \X Variants
CartTasks == [do : {"idle", "line", "match", "copy"}, cart : AllCarts,
              found : [Variants -> {"no", "yes", "gone"}], give : Lines]
Merges(w) == tab[w].do \in {"match", "copy"}
Copied(c) == \E w \in Tabs : tab[w].do = "copy" /\ tab[w].cart = c
HeldCovered(a) == \A c \in AllCarts, v \in Variants : Copied(c) \/ qty[c][v] =< a[<<c, v>>]
TaskCovered(w, a) ==
  \A v \in Variants :
    /\ tab[w].do = "line" /\ ~Copied(tab[w].cart) /\ cart[tab[w].cart] # "gone"
         => tab[w].give[v] =< a[<<tab[w].cart, v>>]
    /\ tab[w].do = "match" => tab[w].give[v] =< a[<<tab[w].cart, v>>]
    /\ tab[w].do = "copy"  => tab[w].give[v] =< a[<<Mine, v>>]
Covers(a) == HeldCovered(a) /\ \A w \in Tabs : TaskCovered(w, a)
Credited == \E a \in [Pairs -> Nat] : SumFunctionOnSet(a, Pairs) =< asked /\ Covers(a)
GuestsMerge == cart[Mine] # "gone" /\ \A w \in Tabs : Merges(w) => tab[w].cart \in Guests
OneMerge == \A w, x \in Tabs : Merges(w) /\ Merges(x) /\ tab[w].cart = tab[x].cart => w = x
CartInv == CartTypeOK /\ GuestsMerge /\ (spoiled \/ (OneMerge /\ Credited))

\* The customer's cart is a cart, and no guest's.
LEMMA MineIn == Mine \in AllCarts /\ Mine \notin Guests /\ Guests \subseteq AllCarts
BY CartConstantsOK DEF Mine, AllCarts, Guests

\* The lines there may be are finitely many.
LEMMA PairsFinite == IsFiniteSet(AllCarts) /\ IsFiniteSet(Variants) /\ IsFiniteSet(Pairs)
<1>1. IsFiniteSet(AllCarts)
  BY CartConstantsOK, FS_Interval DEF AllCarts
<1>2. IsFiniteSet(Variants)
  BY CartConstantsOK DEF CartConstantsOK
<1> QED BY <1>1, <1>2, FS_Product DEF Pairs

\* A quantity that is capped is no larger for it.
LEMMA CappedLess == ASSUME NEW n \in Nat PROVE Capped(n) \in 0 .. MaxLine /\ Capped(n) =< n
BY CartConstantsOK DEF Capped

\* An empty cart has lines of the right kind.
LEMMA NoLineIn == NoLine \in Lines
BY CartConstantsOK DEF NoLine, Lines

\* A request at rest has a task of the right kind.
LEMMA CalmIn == Calm \in CartTasks /\ Calm.do = "idle"
<1>1. Unseen \in [Variants -> {"no", "yes", "gone"}]
  BY DEF Unseen
<1>2. Calm.do = "idle"
  BY DEF Calm
<1> QED BY <1>1, <1>2, NoLineIn, MineIn DEF Calm, CartTasks

\* What was found is of the right kind.
LEMMA SeenIn == ASSUME NEW c, NEW S PROVE Seen(c, S) \in [Variants -> {"no", "yes", "gone"}]
BY DEF Seen

\* Forgetting rows changes what was found, and no more.
LEMMA Forgets ==
  ASSUME tab \in [Tabs -> CartTasks], NEW c, NEW S, Forget(c, S)
  PROVE  /\ tab' \in [Tabs -> CartTasks]
         /\ \A w \in Tabs : tab'[w].do = tab[w].do /\ tab'[w].cart = tab[w].cart /\ tab'[w].give = tab[w].give
<1>1. ASSUME NEW w \in Tabs
      PROVE  /\ tab'[w] \in CartTasks
             /\ tab'[w].do = tab[w].do /\ tab'[w].cart = tab[w].cart /\ tab'[w].give = tab[w].give
  <2> DEFINE f == [v \in Variants |-> IF v \in S /\ tab[w].found[v] = "yes" THEN "gone" ELSE tab[w].found[v]]
  <2>1. tab[w] \in CartTasks
    OBVIOUS
  <2>2. f \in [Variants -> {"no", "yes", "gone"}]
    BY <2>1 DEF CartTasks
  <2>3. tab'[w] = tab[w] \/ tab'[w] = [tab[w] EXCEPT !.found = f]
    BY DEF Forget
  <2> HIDE DEF f
  <2>4. [tab[w] EXCEPT !.found = f] \in CartTasks
    BY <2>1, <2>2 DEF CartTasks
  <2> QED BY <2>1, <2>3, <2>4 DEF CartTasks
<1>2. tab' = [w \in Tabs |-> tab'[w]]
  BY DEF Forget
<1> QED BY <1>1, <1>2

\* Carts start empty, with nothing asked for.
LEMMA CartsStart == CartInit => CartInv
<1> SUFFICES ASSUME CartInit PROVE CartInv
  OBVIOUS
<1>1. tab \in [Tabs -> CartTasks] /\ \A w \in Tabs : tab[w].do = "idle"
  <2> HIDE DEF CartTasks
  <2> QED BY CalmIn DEF CartInit
<1>2. qty \in [AllCarts -> Lines] /\ \A c \in AllCarts, v \in Variants : qty[c][v] = 0
  BY NoLineIn DEF CartInit, NoLine
<1>3. cart \in [AllCarts -> {"new", "live", "gone"}] /\ cart[Mine] # "gone"
  BY MineIn DEF CartInit
<1>4. asked = 0 /\ spoiled = FALSE /\ upsets = 0
  BY DEF CartInit
<1>5. CartTypeOK
  BY <1>1, <1>2, <1>3, <1>4 DEF CartTypeOK, CartTasks
<1>6. GuestsMerge /\ OneMerge
  BY <1>1, <1>3 DEF GuestsMerge, OneMerge, Merges
<1>7. Credited
  <2> DEFINE a == [p \in Pairs |-> 0]
  <2>1. a \in [Pairs -> Nat] /\ \A p \in Pairs : a[p] = 0
    OBVIOUS
  <2> HIDE DEF a
  <2>2. SumFunctionOnSet(a, Pairs) = 0
    BY <2>1, PairsFinite, SumZero
  <2>3. Covers(a)
    BY <1>1, <1>2, <2>1 DEF Covers, HeldCovered, TaskCovered, Pairs
  <2> QED BY <1>4, <2>1, <2>2, <2>3 DEF Credited
<1> QED BY <1>5, <1>6, <1>7 DEF CartInv

\* Where the credit covers the carts, they hold no more than was asked for.
LEMMA CartMeans == CartInv => NothingAppears
<1> DEFINE q == [p \in Pairs |-> qty[p[1]][p[2]]]
<1> SUFFICES ASSUME CartInv PROVE NothingAppears
  OBVIOUS
<1> SUFFICES ASSUME ~spoiled, ~ \E c \in Guests : Merging(c) # {} PROVE SumFunctionOnSet(q, Pairs) =< asked
  <2>1. SumFunctionOnSet(q, Pairs)
          = SumFunctionOnSet([p \in AllCarts \X Variants |-> qty[p[1]][p[2]]], AllCarts \X Variants)
    BY DEF Pairs
  <2> HIDE DEF q
  <2> QED BY <2>1 DEF NothingAppears
<1>1. PICK a \in [Pairs -> Nat] : SumFunctionOnSet(a, Pairs) =< asked /\ Covers(a)
  BY DEF CartInv, Credited
<1>2. \A c \in AllCarts : ~Copied(c)
  <2> SUFFICES ASSUME NEW w \in Tabs, tab[w].do = "copy" PROVE FALSE
    BY DEF Copied
  <2>1. tab[w].cart \in Guests
    BY DEF CartInv, GuestsMerge, Merges
  <2>2. w \in Merging(tab[w].cart)
    BY DEF Merging
  <2> QED BY <2>1, <2>2
<1>3. \A p \in Pairs : q[p] \in Int /\ a[p] \in Int /\ q[p] =< a[p]
  <2> TAKE p \in Pairs
  <2>1. p[1] \in AllCarts /\ p[2] \in Variants /\ p = <<p[1], p[2]>>
    BY DEF Pairs
  <2>2. qty[p[1]][p[2]] =< a[p]
    BY <1>1, <1>2, <2>1 DEF Covers, HeldCovered
  <2>3. qty[p[1]][p[2]] \in Int
    BY <2>1, CartConstantsOK DEF CartInv, CartTypeOK, Lines
  <2> QED BY <2>2, <2>3
<1> HIDE DEF q
<1>4. SumFunctionOnSet(q, Pairs) =< SumFunctionOnSet(a, Pairs)
  BY <1>3, PairsFinite, SumMono
<1>5. SumFunctionOnSet(q, Pairs) \in Int /\ SumFunctionOnSet(a, Pairs) \in Int
  BY <1>3, PairsFinite, SumType
<1>6. SumFunctionOnSet(q, Pairs) =< asked
  BY <1>1, <1>4, <1>5 DEF CartInv, CartTypeOK
<1> QED BY <1>6

\* A request that is given a task has it, and no other is disturbed.
LEMMA TabTakes ==
  ASSUME tab \in [Tabs -> CartTasks], NEW w \in Tabs, NEW t \in CartTasks, tab' = [tab EXCEPT ![w] = t]
  PROVE  tab' \in [Tabs -> CartTasks] /\ tab'[w] = t /\ \A x \in Tabs : x # w => tab'[x] = tab[x]
<1> HIDE DEF CartTasks
<1> QED OBVIOUS

\* A cart that is given lines has them, and no other is disturbed.
LEMMA QtyTakes ==
  ASSUME qty \in [AllCarts -> Lines], NEW c \in AllCarts, NEW l \in Lines, qty' = [qty EXCEPT ![c] = l]
  PROVE  qty' \in [AllCarts -> Lines] /\ qty'[c] = l /\ \A d \in AllCarts : d # c => qty'[d] = qty[d]
<1> HIDE DEF Lines
<1> QED OBVIOUS

\* The type of the carts, with a name for that of the tasks.
LEMMA CartTypes ==
  CartTypeOK <=> /\ cart \in [AllCarts -> {"new", "live", "gone"}] /\ qty \in [AllCarts -> Lines]
                 /\ tab \in [Tabs -> CartTasks] /\ asked \in Nat /\ spoiled \in BOOLEAN /\ upsets \in Nat
BY DEF CartTypeOK, CartTasks

\* A request that comes to rest has nothing to be covered.
LEMMA TabRests ==
  ASSUME tab \in [Tabs -> CartTasks], NEW w \in Tabs, tab' = [tab EXCEPT ![w] = Calm]
  PROVE  /\ tab' \in [Tabs -> CartTasks] /\ tab'[w].do = "idle"
         /\ \A x \in Tabs : x # w => tab'[x] = tab[x]
BY CalmIn, TabTakes

\* A credit more for what is asked for.
Raised(a, b, c, v, n) == /\ SumFunctionOnSet(b, Pairs) =< asked + n
                         /\ b[<<c, v>>] = a[<<c, v>>] + n
                         /\ \A p \in Pairs : a[p] =< b[p]

\* What is asked for raises the credit of its line.
LEMMA MoreCredit ==
  ASSUME NEW a \in [Pairs -> Nat], SumFunctionOnSet(a, Pairs) =< asked, asked \in Nat,
         NEW c \in AllCarts, NEW v \in Variants, NEW n \in Nat
  PROVE  \E b \in [Pairs -> Nat] : Raised(a, b, c, v, n)
<1> DEFINE b == [a EXCEPT ![<<c, v>>] = a[<<c, v>>] + n]
<1>1. <<c, v>> \in Pairs
  BY DEF Pairs
<1>2. /\ b \in [Pairs -> Nat] /\ b[<<c, v>>] = a[<<c, v>>] + n
      /\ \A p \in Pairs \ {<<c, v>>} : b[p] = a[p]
  BY <1>1
<1> HIDE DEF b
<1>3. SumFunctionOnSet(b, Pairs) = SumFunctionOnSet(a, Pairs) + n
  BY <1>1, <1>2, PairsFinite, SumBump
<1>4. SumFunctionOnSet(a, Pairs) \in Int
  BY PairsFinite, SumType
<1>5. \A p \in Pairs : a[p] =< b[p]
  <2> TAKE p \in Pairs
  <2>1. a[p] \in Nat
    OBVIOUS
  <2> QED BY <1>2, <2>1
<1>6. SumFunctionOnSet(b, Pairs) =< asked + n
  BY <1>3, <1>4
<1> QED BY <1>2, <1>5, <1>6 DEF Raised

\* A task that is not the one at work stays covered where the credit it relies on is kept.
LEMMA TaskStays ==
  ASSUME NEW a \in [Pairs -> Nat], NEW b \in [Pairs -> Nat], NEW x \in Tabs,
         tab[x] \in CartTasks, TaskCovered(x, a),
         tab'[x].do = tab[x].do, tab'[x].cart = tab[x].cart, tab'[x].give = tab[x].give,
         tab[x].do = "line" => \/ Copied(tab[x].cart)' \/ cart'[tab[x].cart] = "gone"
                               \/ /\ ~Copied(tab[x].cart) /\ cart[tab[x].cart] # "gone"
                                  /\ \A u \in Variants : a[<<tab[x].cart, u>>] =< b[<<tab[x].cart, u>>],
         tab[x].do = "match" => \A u \in Variants : a[<<tab[x].cart, u>>] =< b[<<tab[x].cart, u>>],
         tab[x].do = "copy" => \A u \in Variants : a[<<Mine, u>>] =< b[<<Mine, u>>]
  PROVE  TaskCovered(x, b)'
<1>1. tab[x].cart \in AllCarts /\ \A u \in Variants : tab[x].give[u] \in Int
  BY CartConstantsOK DEF CartTasks, Lines
<1>2. ASSUME NEW u \in Variants
      PROVE  /\ tab'[x].do = "line" /\ ~Copied(tab[x].cart)' /\ cart'[tab'[x].cart] # "gone"
                  => tab'[x].give[u] =< b[<<tab'[x].cart, u>>]
             /\ tab'[x].do = "match" => tab'[x].give[u] =< b[<<tab'[x].cart, u>>]
             /\ tab'[x].do = "copy"  => tab'[x].give[u] =< b[<<Mine, u>>]
  <2>1. /\ <<tab[x].cart, u>> \in Pairs /\ <<Mine, u>> \in Pairs /\ tab[x].give[u] \in Int
    BY <1>1, MineIn DEF Pairs
  <2>2. /\ a[<<tab[x].cart, u>>] \in Int /\ b[<<tab[x].cart, u>>] \in Int
        /\ a[<<Mine, u>>] \in Int /\ b[<<Mine, u>>] \in Int
    BY <2>1
  <2>3. CASE tab[x].do = "line" /\ ~Copied(tab[x].cart)' /\ cart'[tab[x].cart] # "gone"
    <3>1. tab[x].give[u] =< a[<<tab[x].cart, u>>] /\ a[<<tab[x].cart, u>>] =< b[<<tab[x].cart, u>>]
      BY <2>3 DEF TaskCovered
    <3> QED BY <3>1, <2>1, <2>2, <2>3
  <2>4. CASE tab[x].do = "match"
    BY <2>1, <2>2, <2>4 DEF TaskCovered
  <2>5. CASE tab[x].do = "copy"
    BY <2>1, <2>2, <2>5 DEF TaskCovered
  <2> QED BY <2>3, <2>4, <2>5
<1> QED BY <1>2 DEF TaskCovered

\* What lies in a cart stays covered when it does not grow and neither credit nor copies go.
LEMMA HeldStays ==
  ASSUME NEW a \in [Pairs -> Nat], NEW b \in [Pairs -> Nat], HeldCovered(a),
         qty \in [AllCarts -> Lines], qty' \in [AllCarts -> Lines],
         \A d \in AllCarts, u \in Variants :
            \/ Copied(d)' \/ qty'[d][u] =< b[<<d, u>>]
            \/ ~Copied(d) /\ qty'[d][u] = qty[d][u] /\ a[<<d, u>>] =< b[<<d, u>>]
  PROVE  HeldCovered(b)'
<1> SUFFICES ASSUME NEW d \in AllCarts, NEW u \in Variants, ~Copied(d)', ~Copied(d),
                    qty'[d][u] = qty[d][u], a[<<d, u>>] =< b[<<d, u>>]
             PROVE  qty'[d][u] =< b[<<d, u>>]
  BY DEF HeldCovered
<1>1. <<d, u>> \in Pairs /\ qty[d][u] \in Int /\ qty[d][u] =< a[<<d, u>>]
  BY CartConstantsOK DEF Pairs, HeldCovered, Lines
<1> QED BY <1>1

\* Asking for more of a line earns the credit for what will be written.
LEMMA AddLookKeeps ==
  ASSUME CartInv, NEW c \in AllCarts, NEW v \in Variants, NEW n \in 0 .. MaxLine, NEW w \in Tabs,
         AddLook(w, c, v, n)
  PROVE  CartInv'
<1> DEFINE t == [do |-> "line", cart |-> c, found |-> Seen(c, {v}),
                 give |-> [NoLine EXCEPT ![v] = Capped(qty[c][v] + n)]]
<1>0. CartTypeOK /\ GuestsMerge /\ (spoiled \/ (OneMerge /\ Credited)) /\ n \in Nat
  BY CartConstantsOK DEF CartInv
<1>a. /\ cart \in [AllCarts -> {"new", "live", "gone"}] /\ qty \in [AllCarts -> Lines]
      /\ tab \in [Tabs -> CartTasks] /\ asked \in Nat /\ spoiled \in BOOLEAN /\ upsets \in Nat
  BY <1>0, CartTypes
<1>b. qty[c][v] \in Nat /\ Capped(qty[c][v] + n) \in 0 .. MaxLine /\ Capped(qty[c][v] + n) =< qty[c][v] + n
  <2>1. qty[c][v] \in Nat
    BY <1>a, CartConstantsOK DEF Lines
  <2> QED BY <2>1, <1>0, CappedLess
<1>c. /\ [NoLine EXCEPT ![v] = Capped(qty[c][v] + n)] \in Lines
      /\ [NoLine EXCEPT ![v] = Capped(qty[c][v] + n)][v] = Capped(qty[c][v] + n)
      /\ \A u \in Variants : u # v => [NoLine EXCEPT ![v] = Capped(qty[c][v] + n)][u] = 0
  BY <1>b, CartConstantsOK DEF NoLine, Lines
<1>1. /\ t \in CartTasks /\ t.do = "line" /\ t.cart = c /\ t.give[v] = Capped(qty[c][v] + n)
      /\ \A u \in Variants : u # v => t.give[u] = 0
  <2>1. Seen(c, {v}) \in [Variants -> {"no", "yes", "gone"}]
    BY SeenIn
  <2> QED BY <1>c, <2>1 DEF CartTasks
<1>2. /\ tab' = [tab EXCEPT ![w] = t] /\ tab[w].do = "idle" /\ asked' = asked + n
      /\ cart[c] # "gone" /\ cart' = [cart EXCEPT ![c] = "live"]
      /\ qty' = qty /\ spoiled' = spoiled /\ upsets' = upsets
  BY DEF AddLook, Open
<1> HIDE DEF t
<1>3. tab' \in [Tabs -> CartTasks] /\ tab'[w] = t /\ \A x \in Tabs : x # w => tab'[x] = tab[x]
  BY <1>1, <1>2, <1>a, TabTakes
<1>4. cart' \in [AllCarts -> {"new", "live", "gone"}] /\ \A d \in AllCarts : cart'[d] = "gone" <=> cart[d] = "gone"
  BY <1>2, <1>a
<1>5. CartTypeOK'
  <2>1. asked' \in Nat
    BY <1>0, <1>2, <1>a
  <2> QED BY <1>2, <1>3, <1>4, <1>a, <2>1 DEF CartTypeOK, CartTasks
<1>6. \A d : Copied(d)' <=> Copied(d)
  BY <1>1, <1>2, <1>3 DEF Copied
<1>7. \A x \in Tabs : Merges(x)' <=> Merges(x) /\ x # w
  BY <1>1, <1>2, <1>3 DEF Merges
<1>8. GuestsMerge'
  BY <1>0, <1>3, <1>4, <1>7, MineIn DEF GuestsMerge
<1>9. ASSUME ~spoiled PROVE OneMerge' /\ Credited'
  <2>1. OneMerge'
    BY <1>0, <1>9, <1>3, <1>7 DEF OneMerge
  <2>2. PICK a \in [Pairs -> Nat] : SumFunctionOnSet(a, Pairs) =< asked /\ Covers(a)
    BY <1>0, <1>9 DEF Credited
  <2>0. PICK b \in [Pairs -> Nat] : Raised(a, b, c, v, n)
    <3>1. SumFunctionOnSet(a, Pairs) =< asked /\ asked \in Nat /\ n \in Nat
      BY <2>2, <1>0, <1>a
    <3> QED BY <2>2, <3>1, MoreCredit
  <2>3. /\ SumFunctionOnSet(b, Pairs) =< asked + n
        /\ b[<<c, v>>] = a[<<c, v>>] + n
        /\ \A p \in Pairs : a[p] =< b[p]
    BY <2>0 DEF Raised
  <2>4. HeldCovered(b)'
    <3>1. \A d \in AllCarts, u \in Variants : a[<<d, u>>] =< b[<<d, u>>]
      BY <2>3 DEF Pairs
    <3> QED BY <3>1, <2>2, <1>2, <1>6, <1>a, HeldStays DEF Covers
  <2>5. ASSUME NEW x \in Tabs PROVE TaskCovered(x, b)'
    <3>1. CASE x = w
      <4> SUFFICES ASSUME NEW u \in Variants, ~Copied(c) PROVE t.give[u] =< b[<<c, u>>]
        BY <1>1, <1>3, <1>6, <3>1 DEF TaskCovered
      <4>1. <<c, u>> \in Pairs /\ <<c, v>> \in Pairs
        BY DEF Pairs
      <4>2. CASE u = v
        <5>1. qty[c][v] =< a[<<c, v>>] /\ a[<<c, v>>] \in Nat
          BY <2>2, <4>1, <4>2 DEF Covers, HeldCovered
        <5> QED BY <5>1, <1>0, <1>1, <1>b, <2>3, <4>2
      <4>3. CASE u # v
        BY <4>1, <4>3, <1>1
      <4> QED BY <4>2, <4>3
    <3>2. CASE x # w
      <4>1. TaskCovered(x, a) /\ tab'[x] = tab[x] /\ tab[x] \in CartTasks /\ tab[x].cart \in AllCarts
        BY <3>2, <2>2, <1>3, <1>a DEF Covers, CartTasks
      <4>2. \A u \in Variants : /\ a[<<tab[x].cart, u>>] =< b[<<tab[x].cart, u>>]
                                /\ a[<<Mine, u>>] =< b[<<Mine, u>>]
        BY <4>1, <2>3, MineIn DEF Pairs
      <4> HIDE DEF CartTasks
      <4> QED BY <4>1, <4>2, <1>4, <1>6, TaskStays
    <3> QED BY <3>1, <3>2
  <2>6. Covers(b)'
    BY <2>4, <2>5 DEF Covers
  <2> QED BY <2>1, <2>3, <2>6, <1>2 DEF Credited
<1> QED BY <1>2, <1>5, <1>8, <1>9 DEF CartInv

\* What the invariant says of the carts, part by part.
LEMMA CartOpens ==
  ASSUME CartInv
  PROVE  /\ cart \in [AllCarts -> {"new", "live", "gone"}] /\ qty \in [AllCarts -> Lines]
         /\ tab \in [Tabs -> CartTasks] /\ asked \in Nat /\ spoiled \in BOOLEAN /\ upsets \in Nat
         /\ GuestsMerge /\ (spoiled \/ (OneMerge /\ Credited))
BY CartTypes DEF CartInv

\* A task of the same kind, for the same cart, giving the same.
SameTask(x) == tab'[x].do = tab[x].do /\ tab'[x].cart = tab[x].cart /\ tab'[x].give = tab[x].give
LineOpen(x) == ~Copied(tab[x].cart) /\ cart[tab[x].cart] # "gone"

\* The credit stays what it is where nothing is asked for.
LEMMA CreditKept ==
  ASSUME Credited, tab \in [Tabs -> CartTasks], qty \in [AllCarts -> Lines], qty' \in [AllCarts -> Lines],
         asked' = asked,
         \A a \in [Pairs -> Nat] : Covers(a) =>
           /\ \A d \in AllCarts, u \in Variants :
                \/ Copied(d)' \/ qty'[d][u] =< a[<<d, u>>]
                \/ ~Copied(d) /\ qty'[d][u] = qty[d][u]
           /\ \A x \in Tabs : \/ TaskCovered(x, a)'
                              \/ SameTask(x) /\ (tab[x].do = "line" => LineOpen(x) \/ ~LineOpen(x)')
  PROVE  Credited'
<1>1. PICK a \in [Pairs -> Nat] : SumFunctionOnSet(a, Pairs) =< asked /\ Covers(a)
  BY DEF Credited
<1>2. \A p \in Pairs : a[p] =< a[p]
  <2> TAKE p \in Pairs
  <2>1. a[p] \in Nat
    BY <1>1
  <2> QED BY <2>1
<1>3. HeldCovered(a)'
  <2>1. \A d \in AllCarts, u \in Variants : <<d, u>> \in Pairs
    BY DEF Pairs
  <2>2. HeldCovered(a) /\ a \in [Pairs -> Nat]
    BY <1>1 DEF Covers
  <2>3. \A d \in AllCarts, u \in Variants : \/ Copied(d)' \/ qty'[d][u] =< a[<<d, u>>]
                                            \/ ~Copied(d) /\ qty'[d][u] = qty[d][u]
    BY <1>1
  <2> QED BY <2>1, <2>2, <2>3, <1>2, HeldStays
<1>4. ASSUME NEW x \in Tabs PROVE TaskCovered(x, a)'
  <2> SUFFICES ASSUME SameTask(x), tab[x].do = "line" => LineOpen(x) \/ ~LineOpen(x)'
               PROVE  TaskCovered(x, a)'
    BY <1>1, <1>4
  <2>1. TaskCovered(x, a) /\ tab[x] \in CartTasks /\ tab[x].cart \in AllCarts /\ a \in [Pairs -> Nat]
    BY <1>1, <1>4 DEF Covers, CartTasks
  <2>2. \A u \in Variants : <<tab[x].cart, u>> \in Pairs /\ <<Mine, u>> \in Pairs
    BY <2>1, MineIn DEF Pairs
  <2>3. tab[x].do = "line" => \/ Copied(tab[x].cart)' \/ cart'[tab[x].cart] = "gone"
                              \/ ~Copied(tab[x].cart) /\ cart[tab[x].cart] # "gone"
    BY DEF LineOpen, SameTask
  <2>4. tab'[x].do = tab[x].do /\ tab'[x].cart = tab[x].cart /\ tab'[x].give = tab[x].give
    BY DEF SameTask
  <2> HIDE DEF CartTasks
  <2> QED BY <1>2, <1>4, <2>1, <2>2, <2>3, <2>4, TaskStays
<1>5. Covers(a)'
  BY <1>3, <1>4 DEF Covers
<1> QED BY <1>1, <1>5 DEF Credited

\* A request at rest has nothing to be covered.
LEMMA RestCovered == ASSUME NEW x, NEW a, tab'[x].do = "idle" PROVE TaskCovered(x, a)'
BY DEF TaskCovered

\* Setting a quantity earns the credit for it.
LEMMA SetQtyKeeps ==
  ASSUME CartInv, NEW c \in AllCarts, NEW v \in Variants, NEW n \in 0 .. MaxLine, SetQty(c, v, n)
  PROVE  CartInv'
<1>1. /\ cart \in [AllCarts -> {"new", "live", "gone"}] /\ qty \in [AllCarts -> Lines]
      /\ tab \in [Tabs -> CartTasks] /\ asked \in Nat /\ spoiled \in BOOLEAN /\ upsets \in Nat
      /\ GuestsMerge /\ (spoiled \/ (OneMerge /\ Credited))
  BY CartOpens
<1>2. n \in Nat /\ Capped(n) \in 0 .. MaxLine /\ Capped(n) =< n
  <2>1. n \in Nat
    BY CartConstantsOK
  <2> QED BY <2>1, CappedLess
<1>3. /\ asked' = asked + n /\ cart' = cart /\ spoiled' = spoiled /\ upsets' = upsets
      /\ qty' = [qty EXCEPT ![c] = [qty[c] EXCEPT ![v] = Capped(n)]]
  BY DEF SetQty
<1>4. /\ qty' \in [AllCarts -> Lines] /\ qty'[c][v] = Capped(n)
      /\ \A d \in AllCarts, u \in Variants : d # c \/ u # v => qty'[d][u] = qty[d][u]
  <2>1. qty[c] \in Lines
    BY <1>1
  <2>2. /\ [qty[c] EXCEPT ![v] = Capped(n)] \in Lines /\ [qty[c] EXCEPT ![v] = Capped(n)][v] = Capped(n)
        /\ \A u \in Variants : u # v => [qty[c] EXCEPT ![v] = Capped(n)][u] = qty[c][u]
    BY <2>1, <1>2 DEF Lines
  <2>3. /\ qty' \in [AllCarts -> Lines] /\ qty'[c] = [qty[c] EXCEPT ![v] = Capped(n)]
        /\ \A d \in AllCarts : d # c => qty'[d] = qty[d]
    BY <1>1, <1>3, <2>2, QtyTakes
  <2> QED BY <2>2, <2>3
<1>5. /\ tab' \in [Tabs -> CartTasks]
      /\ \A x \in Tabs : tab'[x].do = tab[x].do /\ tab'[x].cart = tab[x].cart /\ tab'[x].give = tab[x].give
  <2>1. Forget(c, {v}) \/ tab' = tab
    BY DEF SetQty
  <2> HIDE DEF CartTasks
  <2> QED BY <2>1, <1>1, Forgets
<1>6. CartTypeOK'
  <2>1. asked' \in Nat
    BY <1>1, <1>2, <1>3
  <2> QED BY <1>1, <1>3, <1>4, <1>5, <2>1 DEF CartTypeOK, CartTasks
<1>7. (\A d : Copied(d)' <=> Copied(d)) /\ \A x \in Tabs : Merges(x)' <=> Merges(x)
  BY <1>5 DEF Copied, Merges
<1>8. GuestsMerge'
  BY <1>1, <1>3, <1>5, <1>7 DEF GuestsMerge
<1>9. ASSUME ~spoiled PROVE OneMerge' /\ Credited'
  <2>1. OneMerge'
    BY <1>1, <1>5, <1>7, <1>9 DEF OneMerge
  <2>2. PICK a \in [Pairs -> Nat] : SumFunctionOnSet(a, Pairs) =< asked /\ Covers(a)
    BY <1>1, <1>9 DEF Credited
  <2>3. PICK b \in [Pairs -> Nat] : Raised(a, b, c, v, n)
    BY <2>2, <1>1, <1>2, MoreCredit
  <2>4. /\ SumFunctionOnSet(b, Pairs) =< asked + n
        /\ b[<<c, v>>] = a[<<c, v>>] + n
        /\ \A p \in Pairs : a[p] =< b[p]
    BY <2>3 DEF Raised
  <2>5. HeldCovered(b)'
    <3>1. \A d \in AllCarts, u \in Variants : a[<<d, u>>] =< b[<<d, u>>]
      BY <2>4 DEF Pairs
    <3>2. qty'[c][v] =< b[<<c, v>>]
      <4>1. a[<<c, v>>] \in Nat
        BY <2>2 DEF Pairs
      <4> QED BY <4>1, <1>2, <1>4, <2>4
    <3>3. \A d \in AllCarts, u \in Variants :
             \/ Copied(d)' \/ qty'[d][u] =< b[<<d, u>>]
             \/ ~Copied(d) /\ qty'[d][u] = qty[d][u] /\ a[<<d, u>>] =< b[<<d, u>>]
      BY <3>1, <3>2, <1>4, <1>7
    <3>4. HeldCovered(a)
      BY <2>2 DEF Covers
    <3> QED BY <2>2, <2>3, <3>3, <3>4, <1>1, <1>4, HeldStays
  <2>6. ASSUME NEW x \in Tabs PROVE TaskCovered(x, b)'
    <3>1. TaskCovered(x, a) /\ tab[x] \in CartTasks /\ tab[x].cart \in AllCarts
      BY <2>2, <1>1 DEF Covers, CartTasks
    <3>2. \A u \in Variants : a[<<tab[x].cart, u>>] =< b[<<tab[x].cart, u>>] /\ a[<<Mine, u>>] =< b[<<Mine, u>>]
      BY <3>1, <2>4, MineIn DEF Pairs
    <3> HIDE DEF CartTasks
    <3> QED BY <3>1, <3>2, <1>3, <1>5, <1>7, <2>6, TaskStays
  <2>7. Covers(b)'
    BY <2>5, <2>6 DEF Covers
  <2> QED BY <2>1, <2>4, <2>7, <1>3 DEF Credited
<1> QED BY <1>3, <1>6, <1>8, <1>9 DEF CartInv

\* Emptying the cart leaves the credit unused.
LEMMA ClearCartKeeps ==
  ASSUME CartInv, ClearCart
  PROVE  CartInv'
<1>1. /\ cart \in [AllCarts -> {"new", "live", "gone"}] /\ qty \in [AllCarts -> Lines]
      /\ tab \in [Tabs -> CartTasks] /\ asked \in Nat /\ spoiled \in BOOLEAN /\ upsets \in Nat
      /\ GuestsMerge /\ (spoiled \/ (OneMerge /\ Credited))
  BY CartOpens
<1>2. /\ asked' = asked /\ cart' = cart /\ spoiled' = spoiled /\ upsets' = upsets
      /\ qty' = [qty EXCEPT ![Mine] = NoLine]
  BY DEF ClearCart
<1>3. /\ qty' \in [AllCarts -> Lines] /\ \A u \in Variants : qty'[Mine][u] = 0
      /\ \A d \in AllCarts : d # Mine => qty'[d] = qty[d]
  BY <1>1, <1>2, MineIn, NoLineIn, QtyTakes DEF NoLine
<1>4. /\ tab' \in [Tabs -> CartTasks]
      /\ \A x \in Tabs : tab'[x].do = tab[x].do /\ tab'[x].cart = tab[x].cart /\ tab'[x].give = tab[x].give
  <2>1. Forget(Mine, Held(Mine))
    BY DEF ClearCart
  <2> HIDE DEF CartTasks
  <2> QED BY <2>1, <1>1, Forgets
<1>5. CartTypeOK'
  BY <1>1, <1>2, <1>3, <1>4 DEF CartTypeOK, CartTasks
<1>6. (\A d : Copied(d)' <=> Copied(d)) /\ \A x \in Tabs : Merges(x)' <=> Merges(x)
  BY <1>4 DEF Copied, Merges
<1>7. GuestsMerge'
  BY <1>1, <1>2, <1>4, <1>6 DEF GuestsMerge
<1>8. ASSUME ~spoiled PROVE OneMerge' /\ Credited'
  <2>1. OneMerge'
    BY <1>1, <1>4, <1>6, <1>8 DEF OneMerge
  <2>2. \A x \in Tabs : SameTask(x) /\ (LineOpen(x)' <=> LineOpen(x))
    <3> TAKE x \in Tabs
    <3>1. Copied(tab[x].cart)' <=> Copied(tab[x].cart)
      BY <1>4 DEF Copied
    <3> QED BY <3>1, <1>2, <1>4 DEF SameTask, LineOpen
  <2>3. ASSUME NEW a \in [Pairs -> Nat], Covers(a), NEW d \in AllCarts, NEW u \in Variants
        PROVE  Copied(d)' \/ qty'[d][u] =< a[<<d, u>>] \/ (~Copied(d) /\ qty'[d][u] = qty[d][u])
    <3>1. a[<<d, u>>] \in Nat
      BY <2>3 DEF Pairs
    <3> QED BY <3>1, <1>3, <1>6
  <2>4. Credited /\ tab \in [Tabs -> CartTasks] /\ qty \in [AllCarts -> Lines]
        /\ qty' \in [AllCarts -> Lines] /\ asked' = asked
    BY <1>1, <1>2, <1>3, <1>8
  <2> HIDE DEF CartTasks, Lines
  <2> QED BY <2>1, <2>2, <2>3, <2>4, CreditKept
<1> QED BY <1>2, <1>5, <1>7, <1>8 DEF CartInv

\* What is written to a line was credited when it was asked for.
LEMMA AddWriteKeeps ==
  ASSUME CartInv, NEW w \in Tabs, AddWrite(w)
  PROVE  CartInv'
<1> DEFINE c == tab[w].cart
           l == [u \in Variants |-> IF tab[w].give[u] > 0 THEN tab[w].give[u] ELSE qty[c][u]]
<1>1. /\ cart \in [AllCarts -> {"new", "live", "gone"}] /\ qty \in [AllCarts -> Lines]
      /\ tab \in [Tabs -> CartTasks] /\ asked \in Nat /\ spoiled \in BOOLEAN /\ upsets \in Nat
      /\ GuestsMerge /\ (spoiled \/ (OneMerge /\ Credited))
  BY CartOpens
<1>2. /\ tab[w].do = "line" /\ tab' = [tab EXCEPT ![w] = Calm] /\ asked' = asked /\ cart' = cart
      /\ spoiled' = spoiled /\ upsets' = upsets
  BY DEF AddWrite
<1>3. c \in AllCarts /\ l \in Lines /\ l = [u \in Variants |-> l[u]]
  <2>1. tab[w] \in CartTasks
    BY <1>1
  <2>2. tab[w].cart \in AllCarts /\ tab[w].give \in Lines
    BY <2>1 DEF CartTasks
  <2>3. qty[c] \in Lines
    BY <2>2, <1>1
  <2> QED BY <2>2, <2>3 DEF Lines
<1>4. \/ qty' = qty
      \/ qty' = [qty EXCEPT ![c] = l] /\ cart[c] = "live"
  <2>1. [u \in Variants |-> IF u \in {v \in Variants : tab[w].give[v] > 0} THEN tab[w].give[u] ELSE qty[c][u]] = l
    OBVIOUS
  <2> QED BY <2>1, <1>1, <1>3 DEF AddWrite
<1>5. \A u \in Variants : l[u] = qty[c][u] \/ l[u] = tab[w].give[u]
  OBVIOUS
<1> HIDE DEF l
<1>6. /\ qty' \in [AllCarts -> Lines]
      /\ \A d \in AllCarts, u \in Variants :
           qty'[d][u] = qty[d][u] \/ (d = c /\ cart[c] = "live" /\ qty'[d][u] = tab[w].give[u])
  <2>1. CASE qty' = qty
    BY <2>1, <1>1
  <2>2. CASE qty' = [qty EXCEPT ![c] = l] /\ cart[c] = "live"
    BY <2>2, <1>1, <1>3, <1>5, QtyTakes
  <2> QED BY <2>1, <2>2, <1>4
<1>7. tab' \in [Tabs -> CartTasks] /\ tab'[w].do = "idle" /\ \A x \in Tabs : x # w => tab'[x] = tab[x]
  BY <1>1, <1>2, TabRests
<1>8. CartTypeOK'
  BY <1>1, <1>2, <1>6, <1>7 DEF CartTypeOK, CartTasks
<1>9. (\A d : Copied(d)' <=> Copied(d)) /\ \A x \in Tabs : Merges(x)' <=> Merges(x)
  BY <1>2, <1>7 DEF Copied, Merges
<1>10. GuestsMerge'
  BY <1>1, <1>2, <1>7, <1>9 DEF GuestsMerge, Merges
<1>11. ASSUME ~spoiled PROVE OneMerge' /\ Credited'
  <2>1. OneMerge'
    BY <1>1, <1>2, <1>7, <1>9, <1>11 DEF OneMerge, Merges
  <2>2. ASSUME NEW a \in [Pairs -> Nat], NEW x \in Tabs
        PROVE  TaskCovered(x, a)' \/ (SameTask(x) /\ (tab[x].do = "line" => LineOpen(x) \/ ~LineOpen(x)'))
    <3>1. CASE x = w
      BY <3>1, <1>7, RestCovered
    <3>2. CASE x # w
      <4>1. tab'[x] = tab[x]
        BY <3>2, <1>7
      <4>2. Copied(tab[x].cart)' <=> Copied(tab[x].cart)
        BY <4>1, <1>9
      <4> QED BY <4>1, <4>2, <1>2 DEF SameTask, LineOpen
    <3> QED BY <3>1, <3>2
  <2>3. ASSUME NEW a \in [Pairs -> Nat], Covers(a), NEW d \in AllCarts, NEW u \in Variants
        PROVE  Copied(d)' \/ qty'[d][u] =< a[<<d, u>>] \/ (~Copied(d) /\ qty'[d][u] = qty[d][u])
    BY <2>3, <1>2, <1>6, <1>9 DEF Covers, TaskCovered
  <2>4. Credited /\ tab \in [Tabs -> CartTasks] /\ qty \in [AllCarts -> Lines]
        /\ qty' \in [AllCarts -> Lines] /\ asked' = asked
    BY <1>1, <1>2, <1>6, <1>11
  <2> HIDE DEF CartTasks, Lines
  <2> QED BY <2>1, <2>2, <2>3, <2>4, CreditKept
<1> QED BY <1>2, <1>8, <1>10, <1>11 DEF CartInv

\* A guest's cart is dropped.
LEMMA Drops ==
  ASSUME cart \in [AllCarts -> {"new", "live", "gone"}], qty \in [AllCarts -> Lines],
         NEW c \in Guests, DropGuest(c)
  PROVE  /\ cart' \in [AllCarts -> {"new", "live", "gone"}] /\ qty' \in [AllCarts -> Lines]
         /\ cart'[c] = "gone" /\ \A u \in Variants : qty'[c][u] = 0
         /\ \A d \in AllCarts : d # c => cart'[d] = cart[d] /\ qty'[d] = qty[d]
<1>1. c \in AllCarts
  BY MineIn
<1>2. qty' = [qty EXCEPT ![c] = NoLine] /\ cart' = [cart EXCEPT ![c] = "gone"]
  BY DEF DropGuest
<1>3. qty' \in [AllCarts -> Lines] /\ qty'[c] = NoLine /\ \A d \in AllCarts : d # c => qty'[d] = qty[d]
  BY <1>1, <1>2, NoLineIn, QtyTakes
<1> QED BY <1>1, <1>2, <1>3 DEF NoLine

\* A guest's cart with nothing in it is dropped.
LEMMA EmptyMergeKeeps ==
  ASSUME CartInv, NEW c \in Guests, DropGuest(c), tab' = tab, spoiled' = spoiled, asked' = asked,
         upsets' = upsets
  PROVE  CartInv'
<1>1. /\ cart \in [AllCarts -> {"new", "live", "gone"}] /\ qty \in [AllCarts -> Lines]
      /\ tab \in [Tabs -> CartTasks] /\ asked \in Nat /\ spoiled \in BOOLEAN /\ upsets \in Nat
      /\ GuestsMerge /\ (spoiled \/ (OneMerge /\ Credited))
  BY CartOpens
<1>2. /\ cart' \in [AllCarts -> {"new", "live", "gone"}] /\ qty' \in [AllCarts -> Lines]
      /\ cart'[c] = "gone" /\ \A u \in Variants : qty'[c][u] = 0
      /\ \A d \in AllCarts : d # c => cart'[d] = cart[d] /\ qty'[d] = qty[d]
  BY <1>1, Drops
<1>3. CartTypeOK'
  BY <1>1, <1>2 DEF CartTypeOK, CartTasks
<1>4. (\A d : Copied(d)' <=> Copied(d)) /\ \A x \in Tabs : Merges(x)' <=> Merges(x)
  BY DEF Copied, Merges
<1>5. GuestsMerge'
  BY <1>1, <1>2, <1>4, MineIn DEF GuestsMerge
<1>6. ASSUME ~spoiled PROVE OneMerge' /\ Credited'
  <2>1. OneMerge'
    BY <1>1, <1>4, <1>6 DEF OneMerge
  <2>2. \A x \in Tabs : SameTask(x) /\ (tab[x].do = "line" => LineOpen(x) \/ ~LineOpen(x)')
    <3> SUFFICES ASSUME NEW x \in Tabs
                 PROVE  SameTask(x) /\ (LineOpen(x) \/ ~LineOpen(x)')
      OBVIOUS
    <3>1. tab[x].cart \in AllCarts
      BY <1>1 DEF CartTasks
    <3>2. Copied(tab[x].cart)' <=> Copied(tab[x].cart)
      BY <1>4
    <3> QED BY <3>1, <3>2, <1>2 DEF SameTask, LineOpen
  <2>3. ASSUME NEW a \in [Pairs -> Nat], Covers(a), NEW d \in AllCarts, NEW u \in Variants
        PROVE  Copied(d)' \/ qty'[d][u] =< a[<<d, u>>] \/ (~Copied(d) /\ qty'[d][u] = qty[d][u])
    <3>1. a[<<d, u>>] \in Nat
      BY <2>3 DEF Pairs
    <3>2. CASE d = c
      BY <3>1, <3>2, <1>2
    <3>3. CASE d # c
      BY <3>3, <1>2, <1>4
    <3> QED BY <3>2, <3>3
  <2>4. Credited /\ tab \in [Tabs -> CartTasks] /\ qty \in [AllCarts -> Lines]
        /\ qty' \in [AllCarts -> Lines] /\ asked' = asked
    BY <1>1, <1>2, <1>6
  <2> HIDE DEF CartTasks, Lines
  <2> QED BY <2>1, <2>2, <2>3, <2>4, CreditKept
<1> QED BY <1>3, <1>5, <1>6 DEF CartInv

\* What is read of a guest's cart is covered by the credit of that cart.
LEMMA MergeReadKeeps ==
  ASSUME CartInv, NEW w \in Tabs, NEW c \in Guests, MergeRead(w, c)
  PROVE  CartInv'
<1> DEFINE t == [do |-> "match", cart |-> c, found |-> Unseen, give |-> qty[c]]
<1>1. CASE Held(c) = {}
  <2>1. DropGuest(c) /\ tab' = tab /\ spoiled' = spoiled /\ asked' = asked /\ upsets' = upsets
    BY <1>1 DEF MergeRead
  <2> QED BY <2>1, EmptyMergeKeeps
<1>2. CASE Held(c) # {}
  <2>1. /\ cart \in [AllCarts -> {"new", "live", "gone"}] /\ qty \in [AllCarts -> Lines]
        /\ tab \in [Tabs -> CartTasks] /\ asked \in Nat /\ spoiled \in BOOLEAN /\ upsets \in Nat
        /\ GuestsMerge /\ (spoiled \/ (OneMerge /\ Credited))
    BY CartOpens
  <2>2. /\ tab' = [tab EXCEPT ![w] = t] /\ spoiled' = (spoiled \/ Merging(c) # {})
        /\ cart' = cart /\ qty' = qty /\ asked' = asked /\ upsets' = upsets /\ tab[w].do = "idle"
    BY <1>2 DEF MergeRead
  <2>3. t \in CartTasks /\ t.do = "match" /\ t.cart = c /\ t.give = qty[c]
    <3>1. Unseen \in [Variants -> {"no", "yes", "gone"}]
      BY DEF Unseen
    <3> QED BY <3>1, <2>1, MineIn DEF CartTasks
  <2> HIDE DEF t
  <2>4. tab' \in [Tabs -> CartTasks] /\ tab'[w] = t /\ \A x \in Tabs : x # w => tab'[x] = tab[x]
    BY <2>1, <2>2, <2>3, TabTakes
  <2>5. CartTypeOK'
    BY <2>1, <2>2, <2>4 DEF CartTypeOK, CartTasks
  <2>6. (\A d : Copied(d)' <=> Copied(d)) /\ \A x \in Tabs : Merges(x)' <=> Merges(x) \/ x = w
    BY <2>2, <2>3, <2>4 DEF Copied, Merges
  <2>7. GuestsMerge'
    BY <2>1, <2>2, <2>3, <2>4, <2>6 DEF GuestsMerge
  <2>8. ASSUME ~spoiled' PROVE OneMerge' /\ Credited'
    <3>1. ~spoiled /\ \A x \in Tabs : ~(Merges(x) /\ tab[x].cart = c)
      BY <2>2, <2>8 DEF Merging, Merges
    <3>2. OneMerge'
      BY <3>1, <2>1, <2>3, <2>4, <2>6 DEF OneMerge
    <3>3. ~Copied(c)
      BY <3>1 DEF Copied, Merges
    <3>4. ASSUME NEW a \in [Pairs -> Nat], Covers(a), NEW x \in Tabs
          PROVE  TaskCovered(x, a)' \/ (SameTask(x) /\ (tab[x].do = "line" => LineOpen(x) \/ ~LineOpen(x)'))
      <4>1. CASE x = w
        <5>1. \A u \in Variants : qty[c][u] =< a[<<c, u>>]
          BY <3>3, <3>4, MineIn DEF Covers, HeldCovered
        <5> QED BY <5>1, <4>1, <2>3, <2>4 DEF TaskCovered
      <4>2. CASE x # w
        <5>1. tab'[x] = tab[x]
          BY <4>2, <2>4
        <5>2. Copied(tab[x].cart)' <=> Copied(tab[x].cart)
          BY <5>1, <2>6
        <5> QED BY <5>1, <5>2, <2>2 DEF SameTask, LineOpen
      <4> QED BY <4>1, <4>2
    <3>5. ASSUME NEW a \in [Pairs -> Nat], Covers(a), NEW d \in AllCarts, NEW u \in Variants
          PROVE  Copied(d)' \/ qty'[d][u] =< a[<<d, u>>] \/ (~Copied(d) /\ qty'[d][u] = qty[d][u])
      BY <3>5, <2>2, <2>6 DEF Covers, HeldCovered
    <3>6. Credited /\ tab \in [Tabs -> CartTasks] /\ qty \in [AllCarts -> Lines]
          /\ qty' \in [AllCarts -> Lines] /\ asked' = asked
      BY <2>1, <2>2, <3>1
    <3> HIDE DEF CartTasks, Lines
    <3> QED BY <3>2, <3>4, <3>5, <3>6, CreditKept
  <2> QED BY <2>5, <2>7, <2>8 DEF CartInv
<1> QED BY <1>1, <1>2

\* The credit of the guest's cart becomes the customer's.
LEMMA CreditMoves ==
  ASSUME NEW a \in [Pairs -> Nat], NEW c \in Guests
  PROVE  \E b \in [Pairs -> Nat] :
           /\ SumFunctionOnSet(b, Pairs) = SumFunctionOnSet(a, Pairs)
           /\ \A u \in Variants : b[<<Mine, u>>] = a[<<Mine, u>>] + a[<<c, u>>]
           /\ \A d \in AllCarts, u \in Variants : d # c => a[<<d, u>>] =< b[<<d, u>>]
<1> DEFINE b == [p \in Pairs |-> IF p[1] = c THEN 0
                                 ELSE IF p[1] = Mine THEN a[p] + a[<<c, p[2]>>] ELSE a[p]]
<1>1. c \in AllCarts /\ Mine \in AllCarts /\ c # Mine
  BY MineIn
<1>2. \A p \in Pairs : a[p] \in Nat /\ p[2] \in Variants /\ a[<<c, p[2]>>] \in Nat
  BY <1>1 DEF Pairs
<1>3. \A p \in Pairs : b[p] = IF p[1] = c THEN 0
                              ELSE IF p[1] = Mine THEN a[p] + a[<<c, p[2]>>] ELSE a[p]
  OBVIOUS
<1>4. b \in [Pairs -> Nat]
  BY <1>2
<1> HIDE DEF b
<1>5. SumFunctionOnSet(b, Pairs) = SumFunctionOnSet(a, Pairs)
  <2>1. \A p \in AllCarts \X Variants : a[p] \in Int
    BY <1>2 DEF Pairs
  <2>2. \A p \in AllCarts \X Variants : b[p] = IF p[1] = c THEN 0
                                               ELSE IF p[1] = Mine THEN a[p] + a[<<c, p[2]>>] ELSE a[p]
    BY <1>3 DEF Pairs
  <2>3. SumFunctionOnSet(b, AllCarts \X Variants) = SumFunctionOnSet(a, AllCarts \X Variants)
    BY <2>1, <2>2, <1>1, PairsFinite, SumRows
  <2> QED BY <2>3 DEF Pairs
<1>6. \A u \in Variants : b[<<Mine, u>>] = a[<<Mine, u>>] + a[<<c, u>>]
  BY <1>1, <1>3 DEF Pairs
<1>7. ASSUME NEW d \in AllCarts, NEW u \in Variants, d # c PROVE a[<<d, u>>] =< b[<<d, u>>]
  <2>1. /\ <<d, u>> \in Pairs /\ <<c, u>> \in Pairs /\ a[<<d, u>>] \in Nat /\ a[<<c, u>>] \in Nat
    BY <1>1, <1>7 DEF Pairs
  <2> QED BY <2>1, <1>3, <1>7
<1> QED BY <1>4, <1>5, <1>6, <1>7

\* Once both carts are read, the credit of the guest's becomes the customer's.
LEMMA MergeMatchKeeps ==
  ASSUME CartInv, NEW w \in Tabs, MergeMatch(w)
  PROVE  CartInv'
<1> DEFINE c == tab[w].cart
           g == [u \in Variants |-> IF tab[w].give[u] = 0 THEN 0 ELSE Capped(tab[w].give[u] + qty[Mine][u])]
           t == [tab[w] EXCEPT !.do = "copy", !.found = Seen(Mine, Variants), !.give = g]
<1>1. /\ cart \in [AllCarts -> {"new", "live", "gone"}] /\ qty \in [AllCarts -> Lines]
      /\ tab \in [Tabs -> CartTasks] /\ asked \in Nat /\ spoiled \in BOOLEAN /\ upsets \in Nat
      /\ GuestsMerge /\ (spoiled \/ (OneMerge /\ Credited))
  BY CartOpens
<1>2. /\ tab[w].do = "match" /\ tab[w] \in CartTasks /\ tab[w].cart \in AllCarts
      /\ \A u \in Variants : tab[w].give[u] \in Nat /\ qty[Mine][u] \in Nat
  <2>1. tab[w] \in CartTasks /\ qty[Mine] \in Lines
    BY <1>1, MineIn
  <2>2. tab[w].do = "match"
    BY DEF MergeMatch
  <2> QED BY <2>1, <2>2, CartConstantsOK DEF CartTasks, Lines
<1>3. g \in Lines /\ \A u \in Variants : g[u] =< tab[w].give[u] + qty[Mine][u]
  <2>1. ASSUME NEW u \in Variants PROVE g[u] \in 0 .. MaxLine /\ g[u] =< tab[w].give[u] + qty[Mine][u]
    <3>1. tab[w].give[u] \in Nat /\ qty[Mine][u] \in Nat /\ tab[w].give[u] + qty[Mine][u] \in Nat
      BY <1>2
    <3>2. /\ Capped(tab[w].give[u] + qty[Mine][u]) \in 0 .. MaxLine
          /\ Capped(tab[w].give[u] + qty[Mine][u]) =< tab[w].give[u] + qty[Mine][u]
      BY <3>1, CappedLess
    <3> QED BY <3>1, <3>2, CartConstantsOK
  <2>2. g = [u \in Variants |-> g[u]]
    OBVIOUS
  <2> HIDE DEF g
  <2> QED BY <2>1, <2>2 DEF Lines
<1>4. tab[w].cart \in Guests /\ c # Mine
  BY <1>1, <1>2, MineIn DEF GuestsMerge, Merges
<1>5. t \in CartTasks /\ t.do = "copy" /\ t.cart = c /\ t.give = g
  <2> HIDE DEF g
  <2>1. Seen(Mine, Variants) \in [Variants -> {"no", "yes", "gone"}]
    BY SeenIn
  <2> QED BY <2>1, <1>2, <1>3 DEF CartTasks
<1>6. /\ tab' = [tab EXCEPT ![w] = t] /\ cart' = [cart EXCEPT ![Mine] = "live"]
      /\ qty' = qty /\ asked' = asked /\ spoiled' = spoiled /\ upsets' = upsets
  <2>1. tab' = [tab EXCEPT ![w].do = "copy", ![w].found = Seen(Mine, Variants), ![w].give = g]
    BY DEF MergeMatch
  <2> HIDE DEF g
  <2>2. tab' = [tab EXCEPT ![w] = t]
    BY <2>1, <1>1
  <2> HIDE DEF t
  <2> QED BY <2>2 DEF MergeMatch, Open
<1> HIDE DEF t, g
<1>7. tab' \in [Tabs -> CartTasks] /\ tab'[w] = t /\ \A x \in Tabs : x # w => tab'[x] = tab[x]
  BY <1>1, <1>5, <1>6, TabTakes
<1>8. /\ cart' \in [AllCarts -> {"new", "live", "gone"}] /\ cart'[Mine] = "live"
      /\ \A d \in AllCarts : d # Mine => cart'[d] = cart[d]
  BY <1>1, <1>6, MineIn
<1>9. CartTypeOK'
  BY <1>1, <1>6, <1>7, <1>8 DEF CartTypeOK, CartTasks
<1>10. (\A d : Copied(d)' <=> Copied(d) \/ d = c) /\ \A x \in Tabs : Merges(x)' <=> Merges(x)
  BY <1>2, <1>5, <1>7 DEF Copied, Merges
<1>11. \A x \in Tabs : tab'[x].cart = tab[x].cart
  BY <1>5, <1>7
<1>12. GuestsMerge'
  BY <1>1, <1>8, <1>10, <1>11 DEF GuestsMerge
<1>13. ASSUME ~spoiled PROVE OneMerge' /\ Credited'
  <2>1. OneMerge /\ OneMerge'
    BY <1>1, <1>10, <1>11, <1>13 DEF OneMerge
  <2>2. PICK a \in [Pairs -> Nat] : SumFunctionOnSet(a, Pairs) =< asked /\ Covers(a)
    BY <1>1, <1>13 DEF Credited
  <2>3. PICK b \in [Pairs -> Nat] :
           /\ SumFunctionOnSet(b, Pairs) = SumFunctionOnSet(a, Pairs)
           /\ \A u \in Variants : b[<<Mine, u>>] = a[<<Mine, u>>] + a[<<c, u>>]
           /\ \A d \in AllCarts, u \in Variants : d # c => a[<<d, u>>] =< b[<<d, u>>]
    BY <2>2, <1>4, CreditMoves
  <2>4. HeldCovered(b)'
    <3>1. \A d \in AllCarts, u \in Variants :
             \/ Copied(d)' \/ qty'[d][u] =< b[<<d, u>>]
             \/ ~Copied(d) /\ qty'[d][u] = qty[d][u] /\ a[<<d, u>>] =< b[<<d, u>>]
      BY <2>3, <1>6, <1>10
    <3>2. HeldCovered(a)
      BY <2>2 DEF Covers
    <3> QED BY <2>2, <2>3, <3>1, <3>2, <1>1, <1>6, HeldStays
  <2>5. ASSUME NEW x \in Tabs PROVE TaskCovered(x, b)'
    <3>1. CASE x = w
      <4> SUFFICES ASSUME NEW u \in Variants PROVE g[u] =< b[<<Mine, u>>]
        BY <3>1, <1>5, <1>7 DEF TaskCovered
      <4>1. tab[w].give[u] =< a[<<c, u>>]
        BY <2>2, <1>2 DEF Covers, TaskCovered
      <4>2. ~Copied(Mine)
        BY <1>1, MineIn DEF GuestsMerge, Merges, Copied
      <4>3. qty[Mine][u] =< a[<<Mine, u>>]
        BY <2>2, <4>2, MineIn DEF Covers, HeldCovered
      <4>4. a[<<c, u>>] \in Nat /\ a[<<Mine, u>>] \in Nat /\ g[u] \in Int
        BY <1>2, <1>3, MineIn, CartConstantsOK DEF Pairs, Lines
      <4> QED BY <4>1, <4>3, <4>4, <1>2, <1>3, <2>3
    <3>2. CASE x # w
      <4>1. TaskCovered(x, a) /\ tab[x] \in CartTasks /\ tab[x].cart \in AllCarts /\ tab'[x] = tab[x]
        BY <2>2, <1>1, <1>7, <3>2 DEF Covers, CartTasks
      <4>2. Merges(x) => tab[x].cart # c
        BY <2>1, <1>2, <3>2 DEF OneMerge, Merges
      <4>3. \A u \in Variants : a[<<Mine, u>>] =< b[<<Mine, u>>]
        BY <2>3, <1>4, MineIn
      <4>4. tab[x].cart # c => \A u \in Variants : a[<<tab[x].cart, u>>] =< b[<<tab[x].cart, u>>]
        BY <2>3, <4>1
      <4>5. tab[x].do = "match" => \A u \in Variants : a[<<tab[x].cart, u>>] =< b[<<tab[x].cart, u>>]
        BY <4>2, <4>4 DEF Merges
      <4>6. Copied(tab[x].cart)' <=> Copied(tab[x].cart) \/ tab[x].cart = c
        BY <4>1, <1>10
      <4>7. GuestsMerge => cart[Mine] # "gone"
        BY DEF GuestsMerge
      <4>8. tab[x].do = "line" => \/ Copied(tab[x].cart)' \/ cart'[tab[x].cart] = "gone"
                                  \/ /\ ~Copied(tab[x].cart) /\ cart[tab[x].cart] # "gone"
                                     /\ \A u \in Variants : a[<<tab[x].cart, u>>] =< b[<<tab[x].cart, u>>]
        BY <4>1, <4>4, <4>6, <4>7, <1>1, <1>8
      <4> HIDE DEF CartTasks
      <4> QED BY <4>1, <4>3, <4>5, <4>8, <2>5, TaskStays
    <3> QED BY <3>1, <3>2
  <2>6. Covers(b)'
    BY <2>4, <2>5 DEF Covers
  <2> QED BY <2>1, <2>2, <2>3, <2>6, <1>6 DEF Credited
<1> QED BY <1>6, <1>9, <1>12, <1>13 DEF CartInv

\* A request gives up, once the copy it was making is spoiled.
LEMMA RestKeeps ==
  ASSUME CartInv, NEW w \in Tabs, tab' = [tab EXCEPT ![w] = Calm], cart' = cart, qty' = qty,
         asked' = asked, upsets' \in Nat, spoiled' \in BOOLEAN, spoiled => spoiled',
         spoiled' \/ tab[w].do # "copy"
  PROVE  CartInv'
<1>1. /\ cart \in [AllCarts -> {"new", "live", "gone"}] /\ qty \in [AllCarts -> Lines]
      /\ tab \in [Tabs -> CartTasks] /\ asked \in Nat /\ spoiled \in BOOLEAN /\ upsets \in Nat
      /\ GuestsMerge /\ (spoiled \/ (OneMerge /\ Credited))
  BY CartOpens
<1>2. tab' \in [Tabs -> CartTasks] /\ tab'[w].do = "idle" /\ \A x \in Tabs : x # w => tab'[x] = tab[x]
  BY <1>1, TabRests
<1>3. CartTypeOK'
  BY <1>1, <1>2 DEF CartTypeOK, CartTasks
<1>4. GuestsMerge'
  BY <1>1, <1>2 DEF GuestsMerge, Merges
<1>5. ASSUME ~spoiled' PROVE OneMerge' /\ Credited'
  <2>1. OneMerge'
    BY <1>1, <1>2, <1>5 DEF OneMerge, Merges
  <2>2. \A d : Copied(d)' <=> Copied(d)
    BY <1>2, <1>5 DEF Copied
  <2>3. ASSUME NEW a \in [Pairs -> Nat], NEW x \in Tabs
        PROVE  TaskCovered(x, a)' \/ (SameTask(x) /\ (tab[x].do = "line" => LineOpen(x) \/ ~LineOpen(x)'))
    <3>1. CASE x = w
      BY <3>1, <1>2, RestCovered
    <3>2. CASE x # w
      <4>1. tab'[x] = tab[x]
        BY <3>2, <1>2
      <4>2. Copied(tab[x].cart)' <=> Copied(tab[x].cart)
        BY <4>1, <2>2
      <4> QED BY <4>1, <4>2 DEF SameTask, LineOpen
    <3> QED BY <3>1, <3>2
  <2>4. ASSUME NEW a \in [Pairs -> Nat], Covers(a), NEW d \in AllCarts, NEW u \in Variants
        PROVE  Copied(d)' \/ qty'[d][u] =< a[<<d, u>>] \/ (~Copied(d) /\ qty'[d][u] = qty[d][u])
    BY <2>4, <2>2 DEF Covers, HeldCovered
  <2>5. Credited /\ tab \in [Tabs -> CartTasks] /\ qty \in [AllCarts -> Lines]
        /\ qty' \in [AllCarts -> Lines] /\ asked' = asked
    BY <1>1, <1>5
  <2> HIDE DEF CartTasks, Lines
  <2> QED BY <2>1, <2>3, <2>4, <2>5, CreditKept
<1> QED BY <1>3, <1>4, <1>5 DEF CartInv

\* A request that dies spoils a copy or leaves no trace.
LEMMA CartCrashKeeps ==
  ASSUME CartInv, NEW w \in Tabs, CartCrash(w)
  PROVE  CartInv'
<1>1. spoiled \in BOOLEAN /\ upsets \in Nat
  BY CartOpens
<1>2. /\ tab' = [tab EXCEPT ![w] = Calm] /\ cart' = cart /\ qty' = qty /\ asked' = asked
      /\ spoiled' = (spoiled \/ tab[w].do = "copy") /\ upsets' = upsets + 1
  BY DEF CartCrash
<1>3. (spoiled => spoiled') /\ (spoiled' \/ tab[w].do # "copy")
  BY <1>2, Zenon
<1>5. upsets' \in Nat
  BY <1>1, <1>2
<1>4. spoiled' \in BOOLEAN
  <2>1. (spoiled \/ tab[w].do = "copy") \in BOOLEAN
    OBVIOUS
  <2> QED BY <1>2, <2>1
<1> QED BY <1>2, <1>3, <1>4, <1>5, RestKeeps

\* A line that is copied uses the customer's credit.
LEMMA MergeLineKeeps ==
  ASSUME CartInv, NEW w \in Tabs, NEW v \in Variants, MergeLine(w, v)
  PROVE  CartInv'
<1>1. /\ cart \in [AllCarts -> {"new", "live", "gone"}] /\ qty \in [AllCarts -> Lines]
      /\ tab \in [Tabs -> CartTasks] /\ asked \in Nat /\ spoiled \in BOOLEAN /\ upsets \in Nat
      /\ GuestsMerge /\ (spoiled \/ (OneMerge /\ Credited))
  BY CartOpens
<1>2. CASE ~StillTrue(w, v)
  <2>1. /\ tab' = [tab EXCEPT ![w] = Calm] /\ cart' = cart /\ qty' = qty /\ asked' = asked
        /\ spoiled' = TRUE /\ upsets' = upsets
    BY <1>2 DEF MergeLine
  <2>2. upsets' \in Nat /\ spoiled' \in BOOLEAN
    BY <1>1, <2>1
  <2> QED BY <2>1, <2>2, RestKeeps
<1>3. CASE StillTrue(w, v)
  <2> DEFINE g == [tab[w].give EXCEPT ![v] = 0]
             t == [tab[w] EXCEPT !.give = g]
             l == [qty[Mine] EXCEPT ![v] = tab[w].give[v]]
  <2>1. /\ tab[w].do = "copy" /\ qty' = [qty EXCEPT ![Mine][v] = tab[w].give[v]]
        /\ tab' = [tab EXCEPT ![w].give[v] = 0]
        /\ spoiled' = spoiled /\ cart' = cart /\ asked' = asked /\ upsets' = upsets
    BY <1>3 DEF MergeLine
  <2>2. tab[w] \in CartTasks /\ tab[w].give \in Lines /\ qty[Mine] \in Lines
    <3>1. tab[w] \in CartTasks /\ qty[Mine] \in Lines
      BY <1>1, MineIn
    <3> QED BY <3>1 DEF CartTasks
  <2>3. /\ l \in Lines /\ l[v] = tab[w].give[v] /\ \A u \in Variants : u # v => l[u] = qty[Mine][u]
        /\ g \in Lines /\ g[v] = 0 /\ \A u \in Variants : u # v => g[u] = tab[w].give[u]
    BY <2>2, CartConstantsOK DEF Lines
  <2>4. tab' = [tab EXCEPT ![w] = t] /\ qty' = [qty EXCEPT ![Mine] = l]
    BY <2>1, <1>1
  <2> HIDE DEF g, l
  <2>5. t \in CartTasks /\ t.do = "copy" /\ t.cart = tab[w].cart /\ t.give = g
    BY <2>1, <2>2, <2>3 DEF CartTasks
  <2> HIDE DEF t
  <2>6. tab' \in [Tabs -> CartTasks] /\ tab'[w] = t /\ \A x \in Tabs : x # w => tab'[x] = tab[x]
    BY <1>1, <2>4, <2>5, TabTakes
  <2>7. qty' \in [AllCarts -> Lines] /\ qty'[Mine] = l /\ \A d \in AllCarts : d # Mine => qty'[d] = qty[d]
    BY <1>1, <2>3, <2>4, MineIn, QtyTakes
  <2>8. CartTypeOK'
    BY <1>1, <2>1, <2>6, <2>7 DEF CartTypeOK, CartTasks
  <2>9. (\A d : Copied(d)' <=> Copied(d)) /\ \A x \in Tabs : Merges(x)' <=> Merges(x)
    BY <2>1, <2>5, <2>6 DEF Copied, Merges
  <2>10. \A x \in Tabs : tab'[x].cart = tab[x].cart
    BY <2>5, <2>6
  <2>11. GuestsMerge'
    BY <1>1, <2>1, <2>9, <2>10 DEF GuestsMerge
  <2>12. ASSUME ~spoiled PROVE OneMerge' /\ Credited'
    <3>1. OneMerge'
      BY <1>1, <2>9, <2>10, <2>12 DEF OneMerge
    <3>2. ASSUME NEW a \in [Pairs -> Nat], Covers(a), NEW x \in Tabs
          PROVE  TaskCovered(x, a)' \/ (SameTask(x) /\ (tab[x].do = "line" => LineOpen(x) \/ ~LineOpen(x)'))
      <4>1. CASE x = w
        <5> SUFFICES ASSUME NEW u \in Variants PROVE g[u] =< a[<<Mine, u>>]
          BY <4>1, <2>5, <2>6 DEF TaskCovered
        <5>1. a[<<Mine, u>>] \in Nat
          BY MineIn DEF Pairs
        <5>2. tab[w].give[u] =< a[<<Mine, u>>]
          BY <3>2, <2>1 DEF Covers, TaskCovered
        <5> QED BY <5>1, <5>2, <2>3
      <4>2. CASE x # w
        <5>1. tab'[x] = tab[x]
          BY <4>2, <2>6
        <5>2. Copied(tab[x].cart)' <=> Copied(tab[x].cart)
          BY <5>1, <2>9
        <5> QED BY <5>1, <5>2, <2>1 DEF SameTask, LineOpen
      <4> QED BY <4>1, <4>2
    <3>3. ASSUME NEW a \in [Pairs -> Nat], Covers(a), NEW d \in AllCarts, NEW u \in Variants
          PROVE  Copied(d)' \/ qty'[d][u] =< a[<<d, u>>] \/ (~Copied(d) /\ qty'[d][u] = qty[d][u])
      <4>1. CASE d = Mine /\ u = v
        <5>1. tab[w].give[v] =< a[<<Mine, v>>]
          BY <3>3, <2>1 DEF Covers, TaskCovered
        <5> QED BY <4>1, <5>1, <2>3, <2>7
      <4>2. CASE ~(d = Mine /\ u = v)
        <5>1. qty'[d][u] = qty[d][u]
          BY <4>2, <2>3, <2>7
        <5> QED BY <5>1, <3>3, <2>9 DEF Covers, HeldCovered
      <4> QED BY <4>1, <4>2
    <3>4. Credited /\ tab \in [Tabs -> CartTasks] /\ qty \in [AllCarts -> Lines]
          /\ qty' \in [AllCarts -> Lines] /\ asked' = asked
      BY <1>1, <2>1, <2>7, <2>12
    <3> HIDE DEF CartTasks, Lines
    <3> QED BY <3>1, <3>2, <3>3, <3>4, CreditKept
  <2> QED BY <2>1, <2>8, <2>11, <2>12 DEF CartInv
<1> QED BY <1>2, <1>3

\* A guest's cart goes once all of it was copied.
LEMMA MergeEndKeeps ==
  ASSUME CartInv, NEW w \in Tabs, MergeEnd(w)
  PROVE  CartInv'
<1> DEFINE c == tab[w].cart
<1>1. /\ cart \in [AllCarts -> {"new", "live", "gone"}] /\ qty \in [AllCarts -> Lines]
      /\ tab \in [Tabs -> CartTasks] /\ asked \in Nat /\ spoiled \in BOOLEAN /\ upsets \in Nat
      /\ GuestsMerge /\ (spoiled \/ (OneMerge /\ Credited))
  BY CartOpens
<1>2. tab[w].do = "copy" /\ tab' = [tab EXCEPT ![w] = Calm] /\ asked' = asked
  BY DEF MergeEnd
<1>3. CASE upsets' = upsets + 1 /\ spoiled' = TRUE /\ cart' = cart /\ qty' = qty
  <2>1. upsets' \in Nat /\ spoiled' \in BOOLEAN /\ spoiled'
    BY <1>1, <1>3
  <2> QED BY <2>1, <1>2, <1>3, RestKeeps
<1>4. CASE DropGuest(c) /\ spoiled' = spoiled /\ upsets' = upsets
  <2>1. c \in Guests
    BY <1>1, <1>2 DEF GuestsMerge, Merges
  <2>2. /\ cart' \in [AllCarts -> {"new", "live", "gone"}] /\ qty' \in [AllCarts -> Lines]
        /\ cart'[c] = "gone" /\ \A u \in Variants : qty'[c][u] = 0
        /\ \A d \in AllCarts : d # c => cart'[d] = cart[d] /\ qty'[d] = qty[d]
    BY <1>1, <1>4, <2>1, Drops
  <2>3. tab' \in [Tabs -> CartTasks] /\ tab'[w].do = "idle" /\ \A x \in Tabs : x # w => tab'[x] = tab[x]
    BY <1>1, <1>2, TabRests
  <2>4. CartTypeOK'
    BY <1>1, <1>2, <1>4, <2>2, <2>3 DEF CartTypeOK, CartTasks
  <2>5. \A d : d # c => (Copied(d)' <=> Copied(d))
    BY <2>3 DEF Copied
  <2>6. GuestsMerge'
    BY <1>1, <2>1, <2>2, <2>3, MineIn DEF GuestsMerge, Merges
  <2>7. ASSUME ~spoiled PROVE OneMerge' /\ Credited'
    <3>1. OneMerge'
      BY <1>1, <2>3, <2>7 DEF OneMerge, Merges
    <3>2. ASSUME NEW a \in [Pairs -> Nat], NEW x \in Tabs
          PROVE  TaskCovered(x, a)' \/ (SameTask(x) /\ (tab[x].do = "line" => LineOpen(x) \/ ~LineOpen(x)'))
      <4>1. CASE x = w
        BY <4>1, <2>3, RestCovered
      <4>2. CASE x # w
        <5>1. tab'[x] = tab[x] /\ tab[x].cart \in AllCarts
          BY <4>2, <2>3, <1>1 DEF CartTasks
        <5>2. CASE tab[x].cart = c
          BY <5>1, <5>2, <2>2 DEF SameTask, LineOpen
        <5>3. CASE tab[x].cart # c
          <6>1. Copied(tab[x].cart)' <=> Copied(tab[x].cart)
            BY <5>1, <5>3, <2>5
          <6> QED BY <5>1, <5>3, <6>1, <2>2 DEF SameTask, LineOpen
        <5> QED BY <5>2, <5>3
      <4> QED BY <4>1, <4>2
    <3>3. ASSUME NEW a \in [Pairs -> Nat], Covers(a), NEW d \in AllCarts, NEW u \in Variants
          PROVE  Copied(d)' \/ qty'[d][u] =< a[<<d, u>>] \/ (~Copied(d) /\ qty'[d][u] = qty[d][u])
      <4>1. a[<<d, u>>] \in Nat
        BY DEF Pairs
      <4>2. CASE d = c
        BY <4>1, <4>2, <2>2
      <4>3. CASE d # c
        BY <4>3, <2>2, <2>5
      <4> QED BY <4>2, <4>3
    <3>4. Credited /\ tab \in [Tabs -> CartTasks] /\ qty \in [AllCarts -> Lines]
          /\ qty' \in [AllCarts -> Lines] /\ asked' = asked
      BY <1>1, <1>2, <2>2, <2>7
    <3> HIDE DEF CartTasks, Lines
    <3> QED BY <3>1, <3>2, <3>3, <3>4, CreditKept
  <2> QED BY <1>4, <2>4, <2>6, <2>7 DEF CartInv
<1> QED BY <1>3, <1>4 DEF MergeEnd

\* Every step keeps the carts within what was asked for.
LEMMA CartsGoOn ==
  ASSUME CartInv, [CartNext]_cartVars
  PROVE  CartInv'
<1>1. CASE UNCHANGED cartVars
  <2>1. CartTypeOK' <=> CartTypeOK
    BY <1>1 DEF cartVars, CartTypeOK
  <2>2. (GuestsMerge' <=> GuestsMerge) /\ (OneMerge' <=> OneMerge)
    BY <1>1 DEF cartVars, GuestsMerge, OneMerge, Merges
  <2>3. Credited' <=> Credited
    BY <1>1 DEF cartVars, Credited, Covers, HeldCovered, TaskCovered, Copied
  <2>4. spoiled' = spoiled
    BY <1>1 DEF cartVars
  <2> QED BY <2>1, <2>2, <2>3, <2>4 DEF CartInv
<1>2. ASSUME NEW c \in AllCarts, NEW v \in Variants, NEW n \in 0 .. MaxLine, NEW w \in Tabs, AddLook(w, c, v, n)
      PROVE  CartInv'
  BY <1>2, AddLookKeeps
<1>3. ASSUME NEW c \in AllCarts, NEW v \in Variants, NEW n \in 0 .. MaxLine, SetQty(c, v, n)
      PROVE  CartInv'
  BY <1>3, SetQtyKeeps
<1>4. CASE ClearCart
  BY <1>4, ClearCartKeeps
<1>5. ASSUME NEW w \in Tabs, AddWrite(w) PROVE CartInv'
  BY <1>5, AddWriteKeeps
<1>6. ASSUME NEW w \in Tabs, NEW c \in Guests, MergeRead(w, c) PROVE CartInv'
  BY <1>6, MergeReadKeeps
<1>7. ASSUME NEW w \in Tabs, MergeMatch(w) PROVE CartInv'
  BY <1>7, MergeMatchKeeps
<1>8. ASSUME NEW w \in Tabs, NEW v \in Variants, MergeLine(w, v) PROVE CartInv'
  BY <1>8, MergeLineKeeps
<1>9. ASSUME NEW w \in Tabs, MergeEnd(w) PROVE CartInv'
  BY <1>9, MergeEndKeeps
<1>10. ASSUME NEW w \in Tabs, CartCrash(w) PROVE CartInv'
  BY <1>10, CartCrashKeeps
<1> QED
  BY <1>1, <1>2, <1>3, <1>4, <1>5, <1>6, <1>7, <1>8, <1>9, <1>10 DEF CartNext

-----------------------------------------------------------------------------
(***************************************************************************)
(* A look at the cart.                                                     *)
(***************************************************************************)
\* The look at the cart is at the line as it is, while nothing has changed.
ViewInv ==
  /\ ViewTypeOK
  /\ shown.n = 0 => shown.was = 0
  /\ current /\ viewer.at # "idle" =>
       /\ viewer.n = shown.n /\ viewer.was = shown.was
       /\ viewer.price = article.price /\ viewer.sold = article.sold
  /\ current /\ viewer.at = "told" => viewer.units = article.units

\* Nobody has looked at the cart yet.
LEMMA ViewsStart == ViewInit => ViewInv
<1> SUFFICES ASSUME ViewInit PROVE ViewInv
  OBVIOUS
<1>1. 0 \in 0 .. MaxLine /\ 0 \in 0 .. MaxLine + 1 /\ 0 \in 0 .. MaxStirs
  BY ViewConstantsOK, CartConstantsOK
<1>2. article \in [price : ListPrices, sold : BOOLEAN, units : 0 .. MaxLine + 1]
  BY <1>1 DEF ViewInit
<1>3. /\ shown = NoItem /\ adding = 0 /\ viewer = Blank /\ current = TRUE /\ stirs = 0
  BY DEF ViewInit
<1> QED BY <1>1, <1>2, <1>3 DEF ViewInv, ViewTypeOK, NoItem, Blank
\* Every step keeps the look at the cart true, or knows that it is not.
LEMMA ViewsGoOn ==
  ASSUME ViewInv, [ViewNext]_viewVars
  PROVE  ViewInv'
<1> USE ViewConstantsOK, CartConstantsOK DEF ViewInv, ViewTypeOK
<1>1. CASE UNCHANGED viewVars
  BY <1>1 DEF viewVars
<1>2. CASE LoadVariant
  BY <1>2 DEF LoadVariant
<1>3. CASE ReadCart
  BY <1>3 DEF ReadCart
<1>4. CASE ReadUnits
  <2>1. ViewTypeOK'
    <3> DEFINE L == [at : {"idle", "read", "told"}, n : 0 .. MaxLine, was : ListPrices \union {0},
                     price : ListPrices \union {0}, sold : BOOLEAN, units : 0 .. MaxLine + 1]
    <3>1. article.units \in 0 .. MaxLine + 1 /\ viewer \in L
      OBVIOUS
    <3>2. [viewer EXCEPT !.at = "told", !.units = article.units] \in L
      BY <3>1, ZenonT(30)
    <3>3. viewer' \in L
      BY <1>4, <3>2 DEF ReadUnits
    <3> HIDE DEF L
    <3>4. /\ shown' \in [n : 0 .. MaxLine, was : ListPrices \union {0}]
          /\ article' \in [price : ListPrices, sold : BOOLEAN, units : 0 .. MaxLine + 1]
          /\ adding' \in ListPrices \union {0} /\ current' \in BOOLEAN /\ stirs' \in 0 .. MaxStirs
      BY <1>4 DEF ReadUnits
    <3> QED BY <3>3, <3>4 DEF L
  <2>2. (shown.n = 0 => shown.was = 0)'
    BY <1>4 DEF ReadUnits
  <2>3. (current /\ viewer.at # "idle" =>
       /\ viewer.n = shown.n /\ viewer.was = shown.was
       /\ viewer.price = article.price /\ viewer.sold = article.sold)' 
    BY <1>4 DEF ReadUnits
  <2>4. (current /\ viewer.at = "told" => viewer.units = article.units)'
    BY <1>4 DEF ReadUnits
  <2> QED BY <2>1, <2>2, <2>3, <2>4 DEF ViewInv
<1>5. ASSUME NEW n \in 0 .. MaxLine, KeepItem(n) PROVE ViewInv'
  <2>1. ViewTypeOK'
    <3> DEFINE L == [at : {"idle", "read", "told"}, n : 0 .. MaxLine, was : ListPrices \union {0},
                     price : ListPrices \union {0}, sold : BOOLEAN, units : 0 .. MaxLine + 1]
               I == [n : 0 .. MaxLine, was : ListPrices \union {0}]
               A == [price : ListPrices, sold : BOOLEAN, units : 0 .. MaxLine + 1]
    <3>1. /\ shown \in I /\ article \in A /\ viewer \in L /\ adding \in ListPrices \union {0}
          /\ current \in BOOLEAN /\ stirs \in 0 .. MaxStirs
      OBVIOUS
    <3>2. shown.n \in 0 .. MaxLine /\ shown.was \in ListPrices \union {0}
      OBVIOUS
    <3>3. stirs' \in 0 .. MaxStirs /\ current' = FALSE /\ viewer' = viewer
      BY <1>5, <3>1 DEF KeepItem, Stirred
    <3>4. \A k \in 0 .. MaxLine : [shown EXCEPT !.n = k] \in I
      BY <3>1
    <3>5. NoItem \in I /\ Capped(n) \in 0 .. MaxLine
      BY DEF NoItem, Capped
    <3>6. shown' \in I
      BY <1>5, <3>4, <3>5 DEF KeepItem
    <3>7. article' = article /\ adding' = adding
      BY <1>5 DEF KeepItem
    <3> HIDE DEF L, I, A
    <3> QED BY <3>1, <3>3, <3>6, <3>7 DEF L, I, A, ViewTypeOK
  <2>2. (shown.n = 0 => shown.was = 0)'
    BY <1>5 DEF KeepItem, Stirred, Capped, NoItem
  <2>3. (current /\ viewer.at # "idle" =>
       /\ viewer.n = shown.n /\ viewer.was = shown.was
       /\ viewer.price = article.price /\ viewer.sold = article.sold)' 
    BY <1>5 DEF KeepItem, Stirred, Capped, NoItem
  <2>4. (current /\ viewer.at = "told" => viewer.units = article.units)'
    BY <1>5 DEF KeepItem, Stirred, Capped, NoItem
  <2> QED BY <2>1, <2>2, <2>3, <2>4 DEF ViewInv
<1>6. ASSUME NEW n \in 0 .. MaxLine, n > 0 /\ PutItem(n) PROVE ViewInv'
  <2>1. ViewTypeOK'
    <3> DEFINE L == [at : {"idle", "read", "told"}, n : 0 .. MaxLine, was : ListPrices \union {0},
                     price : ListPrices \union {0}, sold : BOOLEAN, units : 0 .. MaxLine + 1]
               I == [n : 0 .. MaxLine, was : ListPrices \union {0}]
               A == [price : ListPrices, sold : BOOLEAN, units : 0 .. MaxLine + 1]
    <3>1. /\ shown \in I /\ article \in A /\ viewer \in L /\ adding \in ListPrices \union {0}
          /\ current \in BOOLEAN /\ stirs \in 0 .. MaxStirs
      OBVIOUS
    <3>2. shown.n \in 0 .. MaxLine /\ shown.was \in ListPrices \union {0}
      OBVIOUS
    <3>3. stirs' \in 0 .. MaxStirs /\ current' = FALSE /\ viewer' = viewer
      BY <1>6, <3>1 DEF PutItem, Stirred
    <3>4. \A k \in 0 .. MaxLine : [shown EXCEPT !.n = k] \in I /\ [n |-> k, was |-> adding] \in I
      BY <3>1
    <3>5. Capped(n) \in 0 .. MaxLine /\ Capped(shown.n + n) \in 0 .. MaxLine
      BY <3>2 DEF Capped
    <3>6. shown' \in I
      BY <1>6, <3>4, <3>5 DEF PutItem
    <3>7. article' = article /\ adding' \in ListPrices \union {0}
      BY <1>6 DEF PutItem
    <3> HIDE DEF L, I, A
    <3> QED BY <3>1, <3>3, <3>6, <3>7 DEF L, I, A, ViewTypeOK
  <2>2. (shown.n = 0 => shown.was = 0)'
    BY <1>6 DEF PutItem, Stirred, Capped, NoItem
  <2>3. (current /\ viewer.at # "idle" =>
       /\ viewer.n = shown.n /\ viewer.was = shown.was
       /\ viewer.price = article.price /\ viewer.sold = article.sold)' 
    BY <1>6 DEF PutItem, Stirred, Capped, NoItem
  <2>4. (current /\ viewer.at = "told" => viewer.units = article.units)'
    BY <1>6 DEF PutItem, Stirred, Capped, NoItem
  <2> QED BY <2>1, <2>2, <2>3, <2>4 DEF ViewInv
<1>7. ASSUME NEW a \in [price : ListPrices, sold : BOOLEAN, units : 0 .. MaxLine + 1], ChangeArticle(a) PROVE ViewInv'
  <2>1. ViewTypeOK'
    <3> DEFINE L == [at : {"idle", "read", "told"}, n : 0 .. MaxLine, was : ListPrices \union {0},
                     price : ListPrices \union {0}, sold : BOOLEAN, units : 0 .. MaxLine + 1]
               I == [n : 0 .. MaxLine, was : ListPrices \union {0}]
               A == [price : ListPrices, sold : BOOLEAN, units : 0 .. MaxLine + 1]
    <3>1. /\ shown \in I /\ article \in A /\ viewer \in L /\ adding \in ListPrices \union {0}
          /\ current \in BOOLEAN /\ stirs \in 0 .. MaxStirs
      OBVIOUS
    <3>2. shown.n \in 0 .. MaxLine /\ shown.was \in ListPrices \union {0}
      OBVIOUS
    <3>3. stirs' \in 0 .. MaxStirs /\ current' = FALSE /\ viewer' = viewer
      BY <1>7, <3>1 DEF ChangeArticle, Stirred
    <3>6. shown' \in I
      BY <1>7, <3>1 DEF ChangeArticle
    <3>7. article' \in A /\ adding' = adding
      BY <1>7 DEF ChangeArticle
    <3> HIDE DEF L, I, A
    <3> QED BY <3>1, <3>3, <3>6, <3>7 DEF L, I, A, ViewTypeOK
  <2>2. (shown.n = 0 => shown.was = 0)'
    BY <1>7 DEF ChangeArticle, Stirred
  <2>3. (current /\ viewer.at # "idle" =>
       /\ viewer.n = shown.n /\ viewer.was = shown.was
       /\ viewer.price = article.price /\ viewer.sold = article.sold)' 
    BY <1>7 DEF ChangeArticle, Stirred
  <2>4. (current /\ viewer.at = "told" => viewer.units = article.units)'
    BY <1>7 DEF ChangeArticle, Stirred
  <2> QED BY <2>1, <2>2, <2>3, <2>4 DEF ViewInv
<1> HIDE DEF ViewInv, ViewTypeOK
<1> QED
  BY <1>1, <1>2, <1>3, <1>4, <1>5, <1>6, <1>7
  DEF ViewNext

\* What is known of a look is what is claimed of the advice.
LEMMA AdviceTrue == ViewInv => AdviceHolds
<1> SUFFICES ASSUME ViewInv, viewer.at = "told" PROVE AdviceHolds
  BY DEF AdviceHolds
<1>1. /\ viewer.n \in 0 .. MaxLine /\ viewer.units \in Nat /\ shown.n \in Nat /\ article.units \in Nat
      /\ viewer.sold \in BOOLEAN /\ article.sold \in BOOLEAN
  BY CartConstantsOK DEF ViewInv, ViewTypeOK
<1>2. NeedsReview(viewer) => Warnings(viewer) # {}
  BY <1>1 DEF NeedsReview, Warnings, StockState, PriceChanged
<1>3. ASSUME current
      PROVE  /\ Warnings(viewer) = {} <=>
                  Placeable(shown.n) /\ (shown.n > 0 => article.price = shown.was)
             /\ Placeable(Suggested(viewer))
  <2>1. /\ viewer.n = shown.n /\ viewer.was = shown.was /\ viewer.units = article.units
        /\ viewer.price = article.price /\ viewer.sold = article.sold
    BY <1>3 DEF ViewInv
  <2>2. CASE viewer.n = 0
    BY <2>1, <2>2, <1>1 DEF Warnings, Suggested, Placeable
  <2>3. CASE viewer.n > 0 /\ ~viewer.sold
    BY <2>1, <2>3, <1>1 DEF Warnings, Suggested, Placeable
  <2>4. CASE viewer.n > 0 /\ viewer.sold
    <3>1. Warnings(viewer) = (IF viewer.units = 0 THEN {"OUT_OF_STOCK"}
                              ELSE IF viewer.units < viewer.n THEN {"REDUCED_QUANTITY"} ELSE {})
                             \union (IF PriceChanged(viewer) THEN {"PRICE_CHANGED"} ELSE {})
      BY <2>4, <1>1 DEF Warnings
    <3>2. Warnings(viewer) = {} <=> viewer.units # 0 /\ ~(viewer.units < viewer.n) /\ ~PriceChanged(viewer)
      BY <3>1
    <3>3. /\ "UNAVAILABLE" \notin Warnings(viewer)
          /\ "OUT_OF_STOCK" \in Warnings(viewer) <=> viewer.units = 0
          /\ "REDUCED_QUANTITY" \in Warnings(viewer) <=> viewer.units # 0 /\ viewer.units < viewer.n
      BY <3>1
    <3> QED BY <3>2, <3>3, <2>1, <2>4, <1>1 DEF Suggested, Placeable, PriceChanged
  <2> QED BY <2>2, <2>3, <2>4, <1>1
<1> QED BY <1>2, <1>3 DEF AdviceHolds

-----------------------------------------------------------------------------
(***************************************************************************)
(* A coupon and its redemptions.                                           *)
(***************************************************************************)
\* Redemptions of a set of customers.
Redeems(f) == SumFunctionOnSet(f, Buyers)
\* The order a request prepares, or none.
CouponTask == [who : Buyers, beside : BOOLEAN] \cup {NoOrder}

\* The order validated while no other was under way is the only one of that kind, and one
\* more redemption is within the limits.
Alone(w) == placing[w] # NoOrder /\ ~placing[w].beside
FirstFits(w) ==
  Alone(w) => /\ \A v \in Carters : Alone(v) => v = w
              /\ Used + 1 =< loosest.all + unseen
              /\ redeemed[placing[w].who] + 1 =< loosest.each + unseen

\* What was ever allowed covers what is allowed now.
Backed ==
  coupon.state # "none" => Reach(coupon.limit) =< loosest.all /\ Reach(coupon.each) =< loosest.each

\* The redemptions are within what was allowed.
CouponInv ==
  /\ CouponTypeOK /\ LimitHeld /\ Backed
  /\ \A w \in Carters : FirstFits(w)

\* All redemptions are those of the customers.
LEMMA TotalSum == ASSUME NEW S, NEW T, NEW f \in [S -> T] PROVE Total(f) = SumFunctionOnSet(f, S)
BY DEF Total, FoldFunction, SumFunctionOnSet

\* All redemptions are those of the customers.
LEMMA UsedSum == ASSUME redeemed \in [Buyers -> Nat] PROVE Used = Redeems(redeemed)
BY TotalSum DEF Used, Redeems

\* How often a coupon was redeemed is a number.
LEMMA UsedNat == ASSUME redeemed \in [Buyers -> Nat]
                 PROVE  Used \in Nat /\ \A b \in Buyers : redeemed[b] =< Used
<1>1. Used \in Nat
  BY UsedSum, SumNat, CouponConstantsOK DEF Redeems
<1>2. ASSUME NEW b \in Buyers PROVE redeemed[b] =< Used
  <2>1. Used = redeemed[b] + SumFunctionOnSet(redeemed, Buyers \ {b})
    BY UsedSum, SumRemove, CouponConstantsOK DEF Redeems
  <2>2. SumFunctionOnSet(redeemed, Buyers \ {b}) \in Nat
    BY SumNat, CouponConstantsOK, FS_RemoveElement
  <2> QED BY <2>1, <2>2
<1> QED BY <1>1, <1>2

\* A coupon starts unredeemed.
LEMMA CouponsStart == CouponInit => CouponInv
<1> SUFFICES ASSUME CouponInit PROVE CouponInv
  OBVIOUS
<1>1. redeemed \in [Buyers -> Nat] /\ \A b \in Buyers : redeemed[b] = 0
  BY DEF CouponInit
<1>2. Used = 0
  BY <1>1, UsedSum, SumZero, CouponConstantsOK DEF Redeems
<1>3. placing \in [Carters -> CouponTask] /\ \A w \in Carters : ~Alone(w)
  BY DEF CouponInit, CouponTask, Alone
<1>4. coupon \in Coupon /\ Backed
  BY CouponConstantsOK DEF CouponInit, Coupon, Limits, Backed
<1>5. CouponTypeOK
  BY <1>1, <1>2, <1>3, <1>4, CouponConstantsOK DEF CouponTypeOK, CouponTask, CouponInit
<1>6. LimitHeld
  BY <1>1, <1>2 DEF LimitHeld, CouponInit
<1> QED BY <1>3, <1>4, <1>5, <1>6 DEF CouponInv, FirstFits

\* What the upkeep of a coupon leaves in force covers it.
LEMMA PublishKeeps ==
  ASSUME CouponInv, NEW row \in Coupon, Publish(row)
  PROVE  CouponInv'
<1>1. /\ loosest \in [all : Nat, each : Nat] /\ row.limit \in Limits /\ row.each \in Limits
      /\ unseen \in Nat /\ edits \in Nat /\ redeemed \in [Buyers -> Nat] /\ Used =< MaxRedeemed
      /\ placing \in [Carters -> CouponTask]
  BY DEF CouponInv, CouponTypeOK, Coupon, CouponTask
<1>2. Reach(row.limit) \in Nat /\ Reach(row.each) \in Nat
  BY <1>1, CouponConstantsOK DEF Limits, Reach, Unlimited
<1>3. /\ coupon' = row /\ edits' = edits + 1 /\ redeemed' = redeemed /\ placing' = placing
      /\ unseen' = unseen /\ Used' = Used
      /\ loosest' = [all |-> Higher(loosest.all, Reach(row.limit)),
                     each |-> Higher(loosest.each, Reach(row.each))]
  BY DEF Publish, Used
<1>4. /\ loosest'.all \in Nat /\ loosest'.each \in Nat
      /\ loosest.all =< loosest'.all /\ Reach(row.limit) =< loosest'.all
      /\ loosest.each =< loosest'.each /\ Reach(row.each) =< loosest'.each
  BY <1>1, <1>2, <1>3 DEF Higher
<1>5. loosest' \in [all : Nat, each : Nat]
  BY <1>3, <1>4
<1>6. CouponTypeOK'
  BY <1>1, <1>3, <1>5 DEF CouponTypeOK, CouponTask
<1>7. Backed'
  BY <1>3, <1>4 DEF Backed
<1>8. LimitHeld'
  BY <1>1, <1>3, <1>4, UsedNat DEF CouponInv, LimitHeld
<1>9. ASSUME NEW w \in Carters PROVE FirstFits(w)'
  <2> SUFFICES ASSUME Alone(w)
               PROVE  /\ \A v \in Carters : Alone(v) => v = w
                      /\ Used + 1 =< loosest'.all + unseen
                      /\ redeemed[placing[w].who] + 1 =< loosest'.each + unseen
    BY <1>3 DEF FirstFits, Alone
  <2>1. /\ \A v \in Carters : Alone(v) => v = w
        /\ Used + 1 =< loosest.all + unseen
        /\ redeemed[placing[w].who] + 1 =< loosest.each + unseen
    BY DEF CouponInv, FirstFits
  <2>2. placing[w].who \in Buyers
    BY <1>1 DEF Alone, CouponTask
  <2> QED BY <2>1, <2>2, <1>1, <1>4, UsedNat
<1> QED BY <1>6, <1>7, <1>8, <1>9 DEF CouponInv

\* A redemption counts once.
LEMMA Redeemed ==
  ASSUME redeemed \in [Buyers -> Nat], NEW b \in Buyers, redeemed' = [redeemed EXCEPT ![b] = @ + 1]
  PROVE  /\ redeemed' \in [Buyers -> Nat] /\ Used' = Used + 1
         /\ redeemed'[b] = redeemed[b] + 1
         /\ \A c \in Buyers \ {b} : redeemed'[c] = redeemed[c]
<1>1. redeemed' \in [Buyers -> Nat] /\ redeemed'[b] = redeemed[b] + 1
      /\ \A c \in Buyers \ {b} : redeemed'[c] = redeemed[c]
  OBVIOUS
<1>2. Used' = SumFunctionOnSet(redeemed', Buyers)
  BY <1>1, TotalSum DEF Used
<1>3. SumFunctionOnSet(redeemed', Buyers) = SumFunctionOnSet(redeemed, Buyers) + 1
  <2> DEFINE g == [redeemed EXCEPT ![b] = redeemed[b] + 1]
  <2>1. IsFiniteSet(Buyers) /\ 1 \in Int /\ \A x \in Buyers : redeemed[x] \in Int
    BY CouponConstantsOK
  <2>2. redeemed' = g /\ g[b] = redeemed[b] + 1 /\ \A x \in Buyers \ {b} : g[x] = redeemed[x]
    OBVIOUS
  <2> HIDE DEF g
  <2>3. SumFunctionOnSet(g, Buyers) = SumFunctionOnSet(redeemed, Buyers) + 1
    BY <2>1, <2>2, SumBump
  <2> QED BY <2>2, <2>3
<1> QED BY <1>1, <1>2, <1>3, UsedSum DEF Redeems

\* A redemption by the first order is within the limits; one by another is noted.
LEMMA RedeemKeeps ==
  ASSUME CouponInv, NEW w \in Carters, RedeemCoupon(w)
  PROVE  CouponInv'
<1>1. /\ loosest \in [all : Nat, each : Nat] /\ unseen \in Nat /\ edits \in Nat
      /\ redeemed \in [Buyers -> Nat] /\ Used =< MaxRedeemed /\ coupon \in Coupon
      /\ placing \in [Carters -> CouponTask] /\ Used \in Nat
  BY UsedNat DEF CouponInv, CouponTypeOK, CouponTask
<1>2. /\ coupon' = coupon /\ loosest' = loosest /\ edits' = edits
      /\ placing[w] # NoOrder /\ placing' = [placing EXCEPT ![w] = NoOrder]
  BY DEF RedeemCoupon
<1>3. /\ placing' \in [Carters -> CouponTask] /\ placing'[w] = NoOrder
      /\ \A v \in Carters \ {w} : placing'[v] = placing[v]
      /\ placing[w].who \in Buyers /\ placing[w].beside \in BOOLEAN
  BY <1>1, <1>2 DEF CouponTask
<1>4. \A v \in Carters : Alone(v)' => v # w /\ Alone(v)
  BY <1>3 DEF Alone
<1>5. Backed'
  BY <1>2 DEF CouponInv, Backed
<1>6. CASE UNCHANGED <<redeemed, unseen>>
  <2>1. Used' = Used
    BY <1>6 DEF Used
  <2>2. CouponTypeOK'
    BY <1>1, <1>2, <1>3, <1>6, <2>1 DEF CouponTypeOK, CouponTask
  <2>3. LimitHeld'
    BY <1>2, <1>6, <2>1 DEF CouponInv, LimitHeld
  <2>4. ASSUME NEW v \in Carters PROVE FirstFits(v)'
    BY <1>2, <1>3, <1>4, <1>6, <2>1 DEF CouponInv, FirstFits
  <2> QED BY <1>5, <2>2, <2>3, <2>4 DEF CouponInv
<1>7. CASE /\ Used < MaxRedeemed
           /\ redeemed' = [redeemed EXCEPT ![placing[w].who] = @ + 1]
           /\ unseen' = unseen + (IF placing[w].beside THEN 1 ELSE 0)
  <2> DEFINE b == placing[w].who
  <2>1. /\ redeemed' \in [Buyers -> Nat] /\ Used' = Used + 1 /\ redeemed'[b] = redeemed[b] + 1
        /\ \A c \in Buyers \ {b} : redeemed'[c] = redeemed[c]
    BY <1>1, <1>3, <1>7, Redeemed
  <2>2. CouponTypeOK'
    BY <1>1, <1>2, <1>3, <1>7, <2>1, CouponConstantsOK DEF CouponTypeOK, CouponTask
  <2>3. LimitHeld /\ (\A v \in Carters : FirstFits(v))
    BY DEF CouponInv
  <2>4. CASE placing[w].beside
    <3>1. unseen' = unseen + 1
      BY <1>7, <2>4
    <3>2. LimitHeld'
      BY <1>1, <1>2, <1>3, <2>1, <2>3, <3>1 DEF LimitHeld
    <3>3. ASSUME NEW v \in Carters PROVE FirstFits(v)'
      <4> SUFFICES ASSUME Alone(v)' PROVE FirstFits(v)'
        BY DEF FirstFits
      <4>1. v # w /\ Alone(v) /\ (\A u \in Carters : Alone(u) => u = v)
            /\ Used + 1 =< loosest.all + unseen /\ redeemed[placing[v].who] + 1 =< loosest.each + unseen
        BY <1>4, <2>3 DEF FirstFits
      <4>2. placing'[v] = placing[v] /\ placing[v].who \in Buyers
        BY <1>1, <1>3, <4>1 DEF CouponTask, Alone
      <4>3. redeemed'[placing[v].who] + 1 =< loosest.each + unseen'
        BY <1>1, <1>3, <2>1, <3>1, <4>1, <4>2
      <4>4. \A u \in Carters : Alone(u)' => u = v
        BY <1>4, <4>1
      <4> QED BY <1>1, <1>2, <2>1, <3>1, <4>1, <4>2, <4>3, <4>4 DEF FirstFits
    <3> QED BY <1>5, <2>2, <3>2, <3>3 DEF CouponInv
  <2>5. CASE ~placing[w].beside
    <3>1. unseen' = unseen
      BY <1>1, <1>7, <2>5
    <3>2. /\ \A v \in Carters : Alone(v) => v = w
          /\ Used + 1 =< loosest.all + unseen
          /\ redeemed[b] + 1 =< loosest.each + unseen
      BY <1>2, <2>3, <2>5 DEF FirstFits, Alone
    <3>3. LimitHeld'
      BY <1>1, <1>2, <1>3, <2>1, <2>3, <3>1, <3>2 DEF LimitHeld
    <3>4. \A v \in Carters : ~Alone(v)'
      BY <1>4, <3>2
    <3> QED BY <1>5, <2>2, <3>3, <3>4 DEF CouponInv, FirstFits
  <2> QED BY <1>3, <2>4, <2>5
<1> QED BY <1>6, <1>7 DEF RedeemCoupon

\* An order that is validated alone finds room for one more redemption.
LEMMA ValidateKeeps ==
  ASSUME CouponInv, NEW w \in Carters, NEW b \in Buyers, NEW stores, NEW fits \in BOOLEAN,
         ValidateCoupon(w, b, stores, fits)
  PROVE  CouponInv'
<1>1. /\ loosest \in [all : Nat, each : Nat] /\ unseen \in Nat /\ edits \in Nat
      /\ redeemed \in [Buyers -> Nat] /\ Used =< MaxRedeemed /\ coupon \in Coupon
      /\ placing \in [Carters -> CouponTask] /\ Used \in Nat /\ redeemed[b] =< Used
  BY UsedNat DEF CouponInv, CouponTypeOK, CouponTask
<1> DEFINE beside == \E v \in Carters : placing[v] # NoOrder
           task == [who |-> b, beside |-> beside]
<1>2. /\ UNCHANGED <<coupon, redeemed, loosest, unseen, edits>>
      /\ placing[w] = NoOrder /\ placing' = [placing EXCEPT ![w] = task]
      /\ coupon.state = "active" /\ UnderLimits(b)
  BY DEF ValidateCoupon, Validates
<1>3. Used' = Used
  BY <1>2 DEF Used
<1>4. task \in CouponTask /\ task.who = b /\ task.beside = beside
  BY DEF CouponTask
<1> HIDE DEF task, beside
<1>5. /\ placing' \in [Carters -> CouponTask] /\ placing'[w] = task
      /\ \A v \in Carters \ {w} : placing'[v] = placing[v]
  BY <1>1, <1>2, <1>4
<1>6. Backed' /\ LimitHeld'
  BY <1>2, <1>3 DEF CouponInv, Backed, LimitHeld
<1>7. CouponTypeOK'
  BY <1>1, <1>2, <1>3, <1>5 DEF CouponTypeOK, CouponTask
<1>8. /\ Used + 1 =< loosest.all /\ redeemed[b] + 1 =< loosest.each
  <2>1. Reach(coupon.limit) =< loosest.all /\ Reach(coupon.each) =< loosest.each
    BY <1>2 DEF CouponInv, Backed
  <2>2. coupon.limit \in Nat /\ coupon.each \in Nat
    BY <1>1, CouponConstantsOK DEF Coupon, Limits
  <2>3. Used + 1 =< Reach(coupon.limit)
    BY <1>1, <1>2, <2>2, CouponConstantsOK DEF UnderLimits, Reach, Unlimited
  <2>4. redeemed[b] + 1 =< Reach(coupon.each)
    BY <1>1, <1>2, <2>2, CouponConstantsOK DEF UnderLimits, Reach, Unlimited
  <2> QED BY <2>1, <2>2, <2>3, <2>4, <1>1, CouponConstantsOK DEF Reach, Unlimited
<1>9. ASSUME NEW v \in Carters PROVE FirstFits(v)'
  <2> SUFFICES ASSUME Alone(v)' PROVE FirstFits(v)'
    BY DEF FirstFits
  <2>1. CASE v = w
    <3>1. ~beside
      BY <1>4, <1>5, <2>1 DEF Alone
    <3>2. \A u \in Carters : placing[u] = NoOrder
      BY <3>1 DEF beside
    <3>3. \A u \in Carters : Alone(u)' => u = v
      BY <1>5, <2>1, <3>2 DEF Alone
    <3>4. placing'[v].who = b
      BY <1>4, <1>5, <2>1
    <3> QED BY <1>1, <1>2, <1>3, <1>8, <3>3, <3>4 DEF FirstFits
  <2>2. CASE v # w
    <3>1. placing'[v] = placing[v] /\ Alone(v)
      BY <1>5, <2>2 DEF Alone
    <3>2. beside
      BY <3>1 DEF Alone, beside
    <3>3. \A u \in Carters : Alone(u)' => Alone(u)
      BY <1>4, <1>5, <3>2 DEF Alone
    <3> QED BY <1>2, <1>3, <3>1, <3>3 DEF CouponInv, FirstFits
  <2> QED BY <2>1, <2>2
<1> QED BY <1>6, <1>7, <1>9 DEF CouponInv

\* Every step of a coupon keeps its limits.
LEMMA CouponsGoOn ==
  ASSUME CouponInv, [CouponNext]_couponVars
  PROVE  CouponInv'
<1>1. CASE UNCHANGED couponVars
  BY <1>1 DEF couponVars, CouponInv, CouponTypeOK, LimitHeld, Backed, FirstFits, Alone, Used
<1>2. ASSUME NEW row \in Coupon, CreateCoupon(row) PROVE CouponInv'
  BY <1>2, PublishKeeps DEF CreateCoupon
<1>3. ASSUME NEW row \in Coupon, NEW by \in CouponStores \cup {Everywhere}, UpdateCoupon(by, row)
      PROVE  CouponInv'
  BY <1>3, PublishKeeps DEF UpdateCoupon
<1>4. ASSUME NEW by \in CouponStores \cup {Everywhere}, DeleteCoupon(by) PROVE CouponInv'
  <2>1. [coupon EXCEPT !.state = "deleted"] \in Coupon
    BY DEF CouponInv, CouponTypeOK, Coupon
  <2> QED BY <1>4, <2>1, PublishKeeps DEF DeleteCoupon
<1>5. CASE TimePasses
  <2>1. coupon' \in Coupon /\ coupon'.limit = coupon.limit /\ coupon'.each = coupon.each
        /\ coupon'.state = coupon.state
    BY <1>5 DEF TimePasses, CouponInv, CouponTypeOK, Coupon
  <2>2. UNCHANGED <<redeemed, placing, loosest, unseen, edits>> /\ Used' = Used
    BY <1>5 DEF TimePasses, Used
  <2> QED BY <2>1, <2>2 DEF CouponInv, CouponTypeOK, LimitHeld, Backed, FirstFits, Alone
<1>6. ASSUME NEW w \in Carters, NEW b \in Buyers, NEW stores \in SUBSET CouponStores,
             NEW fits \in BOOLEAN, ValidateCoupon(w, b, stores, fits)
      PROVE  CouponInv'
  BY <1>6, ValidateKeeps
<1>7. ASSUME NEW w \in Carters, RedeemCoupon(w) PROVE CouponInv'
  BY <1>7, RedeemKeeps
<1> QED BY <1>1, <1>2, <1>3, <1>4, <1>5, <1>6, <1>7 DEF CouponNext

-----------------------------------------------------------------------------
(***************************************************************************)
(* The figures of an order.                                                *)
(***************************************************************************)
\* A division that rounds stays in the integers.
LEMMA OverInt == ASSUME NEW a \in Int, NEW b \in Nat \ {0}
                 PROVE  Over(a, b) \in Int
<1>1. 2 * b \in Nat /\ 2 * b > 0 /\ 2 * a + b \in Int
  OBVIOUS
<1> QED BY <1>1 DEF Over

\* ... and in the naturals.
LEMMA OverNat == ASSUME NEW a \in Nat, NEW b \in Nat \ {0}
                 PROVE  Over(a, b) \in Nat
<1>1. 2 * b \in Nat /\ 2 * b > 0 /\ 2 * a + b \in Nat
  OBVIOUS
<1> QED BY <1>1 DEF Over

\* A total of integers is one.
LEMMA TotalInt == ASSUME NEW n \in Nat, NEW f \in [1 .. n -> Int] PROVE Total(f) \in Int
<1>0. 1 \in Int /\ n \in Int
  OBVIOUS
<1>1. IsFiniteSet(1 .. n)
  BY <1>0, FS_Interval
<1>3. \A x \in 1 .. n : f[x] \in Int
  OBVIOUS
<1>2. Total(f) = SumFunctionOnSet(f, 1 .. n)
  BY TotalSum
<1> QED BY <1>1, <1>2, <1>3, SumType

\* ... and one of naturals.
LEMMA TotalNat == ASSUME NEW n \in Nat, NEW f \in [1 .. n -> Nat] PROVE Total(f) \in Nat
<1>0. 1 \in Int /\ n \in Int
  OBVIOUS
<1>1. IsFiniteSet(1 .. n)
  BY <1>0, FS_Interval
<1>3. \A x \in 1 .. n : f[x] \in Nat
  OBVIOUS
<1>2. Total(f) = SumFunctionOnSet(f, 1 .. n)
  BY TotalSum
<1> QED BY <1>1, <1>2, <1>3, SumNat

\* A sum is split into a share for each weight.
LEMMA SharesType ==
  ASSUME NEW t \in Int, NEW n \in Nat \ {0}, NEW w \in [1 .. n -> Nat]
  PROVE  Shares(t, w) \in [1 .. n -> Int]
<1> DEFINE whole == Total(w)
           parts == [j \in 1 .. n - 1 |-> IF whole > 0 THEN Over(t * w[j], whole) ELSE 0]
<1>1. Len(w) = n /\ w \in Seq(Nat)
  OBVIOUS
<1>2. whole \in Nat
  BY TotalNat
<1> HIDE DEF whole
<1>3. ASSUME NEW j \in 1 .. n - 1 PROVE (IF whole > 0 THEN Over(t * w[j], whole) ELSE 0) \in Int
  <2>1. w[j] \in Nat
    OBVIOUS
  <2>2. t * w[j] \in Int
    BY <2>1
  <2>3. CASE whole > 0
    BY <1>2, <2>2, <2>3, OverInt
  <2> QED BY <2>3, <1>2
<1>4. parts \in [1 .. n - 1 -> Int]
  BY <1>3
<1>5. Rounded(t, w, whole) = parts
  BY <1>1 DEF Rounded
<1> HIDE DEF parts
<1>6. Total(parts) \in Int
  BY <1>4, TotalInt
<1>7. parts \in Seq(Int) /\ Len(parts) = n - 1
  BY <1>4
<1> DEFINE rest == t - Total(parts)
<1>8. rest \in Int
  BY <1>6
<1> HIDE DEF rest
<1>9. Append(parts, rest) \in [1 .. n -> Int]
  <2>1. Append(parts, rest) \in Seq(Int) /\ Len(Append(parts, rest)) = Len(parts) + 1
    BY <1>7, <1>8, AppendProperties
  <2>2. Len(Append(parts, rest)) = n
    BY <1>7, <2>1
  <2> QED BY <2>1, <2>2, LenProperties
<1> QED BY <1>5, <1>9 DEF Shares, WithRest, whole, rest

\* The tax of a taxable value.
LEMMA TaxNat == ASSUME NEW v \in Nat, NEW rate \in Nat, NEW supply
                PROVE  TotalTax(Breakup(v, rate, supply)) \in Nat
<1>1. v * rate \in Nat
  OBVIOUS
<1>2. Over(v * rate, 200) \in Nat /\ Over(v * rate, 100) \in Nat
  BY <1>1, OverNat
<1> QED BY <1>2 DEF TotalTax, Breakup

\* What a seller is paid is what the goods and the shipping bring without the commission, which
\* is no more than the goods, but for its rounding.
LEMMA PaidNat ==
  ASSUME NEW worth \in Nat, NEW rest \in Nat
  PROVE  Paise(worth + rest - 100 * Paise(Over(worth * Commission, 100))) \in Nat
<1>1. worth * Commission \in Nat /\ worth * Commission =< worth * 100
  BY PricingConstantsOK
<1> DEFINE c == Over(worth * Commission, 100)
<1>2. c \in Nat /\ c =< worth
  <2> DEFINE m == worth * Commission
  <2>1. m \in Nat /\ m =< worth * 100
    BY <1>1
  <2> HIDE DEF m
  <2>2. Over(m, 100) \in Nat /\ Over(m, 100) =< worth
    BY <2>1 DEF Over
  <2> QED BY <2>2 DEF m
<1> HIDE DEF c
<1>3. Paise(c) \in Nat /\ 100 * Paise(c) =< c + 50
  BY <1>2 DEF Paise, Over
<1> DEFINE d == worth + rest - 100 * Paise(c)
<1>4. d \in Int /\ d >= -50
  BY <1>2, <1>3
<1> HIDE DEF d
<1>5. Paise(d) \in Nat
  BY <1>4 DEF Paise, Over
<1> QED BY <1>5 DEF c, d

\* A seller order in the cart has lines, and each has a price, a rate and a weight.
LEMMA BasketLines ==
  ASSUME basket \in Baskets
  PROVE  /\ basket \in Seq(Seq(CartLine) \ {<<>>}) /\ Parts = 1 .. Len(basket) /\ Len(basket) \in Nat
         /\ \A k \in Parts : /\ Len(basket[k]) \in Nat \ {0} /\ DOMAIN basket[k] = 1 .. Len(basket[k])
                             /\ \A j \in 1 .. Len(basket[k]) : basket[k][j] \in CartLine
<1>1. basket \in Seq(Seq(CartLine) \ {<<>>})
  BY PricingConstantsOK
<1>2. Parts = 1 .. Len(basket) /\ Len(basket) \in Nat
  BY <1>1 DEF Parts
<1>3. ASSUME NEW k \in Parts
      PROVE  /\ Len(basket[k]) \in Nat \ {0} /\ DOMAIN basket[k] = 1 .. Len(basket[k])
             /\ \A j \in 1 .. Len(basket[k]) : basket[k][j] \in CartLine
  <2>1. basket[k] \in Seq(CartLine) /\ basket[k] # <<>>
    BY <1>1, <1>2
  <2> QED BY <2>1, EmptySeq, LenProperties, ElementOfSeq
<1> QED BY <1>1, <1>2, <1>3

\* The goods of a seller order have a price and a weight.
LEMMA GoodsNat ==
  ASSUME basket \in Baskets, NEW k \in Parts
  PROVE  /\ PricesOf(k) \in [1 .. Len(basket[k]) -> Nat]
         /\ Subtotal(k) \in Nat /\ Weight(k) \in Nat
<1> DEFINE n == Len(basket[k])
<1>1. n \in Nat \ {0} /\ DOMAIN basket[k] = 1 .. n /\ \A j \in 1 .. n : basket[k][j] \in CartLine
  BY BasketLines
<1> HIDE DEF n
<1>2. \A j \in 1 .. n : basket[k][j].price \in Nat /\ basket[k][j].weight \in Nat
  BY <1>1 DEF CartLine
<1>3. PricesOf(k) \in [1 .. n -> Nat]
  BY <1>1, <1>2 DEF PricesOf
<1> DEFINE heavy == [j \in 1 .. n |-> basket[k][j].weight]
<1>4. heavy \in [1 .. n -> Nat]
  BY <1>2
<1>5. Weight(k) = Total(heavy)
  BY <1>1 DEF Weight
<1> HIDE DEF heavy
<1>6. Total(PricesOf(k)) \in Nat /\ Total(heavy) \in Nat
  BY <1>1, <1>3, <1>4, TotalNat
<1> QED BY <1>3, <1>5, <1>6 DEF Subtotal, n

\* The charge of the store itself.
LEMMA InHouseNat ==
  ASSUME basket \in Baskets, config \in Configs, NEW k \in Parts
  PROVE  InHouse(k) \in Nat
<1>1. Weight(k) \in Nat /\ config.flatRate \in Nat /\ config.perKgRate \in Nat
  BY GoodsNat, PricingConstantsOK
<1>2. config.perKgRate * Weight(k) \in Nat
  BY <1>1
<1>3. Over(config.perKgRate * Weight(k), 100) \in Nat
  BY <1>2, OverNat
<1>4. config.flatRate + Over(config.perKgRate * Weight(k), 100) \in Nat
  BY <1>1, <1>3
<1> QED BY <1>4 DEF InHouse

\* A coupon takes off an amount, and each seller order bears a share of it.
LEMMA DiscountShared ==
  ASSUME basket \in Baskets, offer \in Offers, NEW k \in Parts
  PROVE  PerStore[k] \in Int
<1> DEFINE n == Len(basket)
           w == [i \in Parts |-> Subtotal(i)]
<1>1. n \in Nat \ {0} /\ Parts = 1 .. n
  BY BasketLines
<1>2. w \in [1 .. n -> Nat]
  BY <1>1, GoodsNat
<1> HIDE DEF n
<1>3. Goods = Total(w)
  BY DEF Goods
<1> HIDE DEF w
<1>4. Goods \in Nat
  BY <1>1, <1>2, <1>3, TotalNat
<1>5. /\ offer.kind \in {"none", "fixed_amount", "percentage"}
      /\ offer.value \in Nat /\ offer.cap \in Nat
  BY PricingConstantsOK
<1>6. Discount \in Int
  <2>1. Goods * offer.value \in Nat
    BY <1>4, <1>5
  <2>2. Over(Goods * offer.value, 100) \in Nat
    BY <2>1, OverNat
  <2>3. CASE offer.kind = "none"
    BY <2>3 DEF Discount, DiscountOn
  <2>4. CASE offer.kind = "fixed_amount"
    BY <2>4, <1>4, <1>5 DEF Discount, DiscountOn, Lesser
  <2>5. CASE offer.kind = "percentage"
    BY <2>2, <2>5, <1>5 DEF Discount, DiscountOn, Lesser
  <2> QED BY <1>5, <2>3, <2>4, <2>5
<1>7. PerStore = Shares(Discount, w)
  BY DEF PerStore, w
<1>8. Shares(Discount, w) \in [1 .. n -> Int]
  BY <1>1, <1>2, <1>6, SharesType
<1> QED BY <1>1, <1>7, <1>8

\* The lines of a seller order: how many, and what each is worth.
LEMMA LinesNat ==
  ASSUME basket \in Baskets, offer \in Offers, NEW k \in Parts
  PROVE  /\ Len(basket[k]) \in Nat \ {0} /\ DOMAIN LinesOf(k) = 1 .. Len(basket[k])
         /\ \A j \in 1 .. Len(basket[k]) :
              /\ {LinesOf(k)[j].taxable, TotalTax(LinesOf(k)[j].tax)} \subseteq Nat
              /\ LinesOf(k)[j].rate \in 0 .. 100
<1> DEFINE n   == Len(basket[k])
           cut == Shares(PerStore[k], PricesOf(k))
<1>1. n \in Nat \ {0} /\ DOMAIN basket[k] = 1 .. n /\ \A j \in 1 .. n : basket[k][j] \in CartLine
  BY BasketLines
<1>2. cut \in [1 .. n -> Int]
  BY <1>1, DiscountShared, GoodsNat, SharesType
<1> HIDE DEF n, cut
<1> DEFINE Taxable(j) == LET left == basket[k][j].price - cut[j] IN 100 * (IF left > 0 THEN left ELSE 0)
<1>3. ASSUME NEW j \in 1 .. n
      PROVE  /\ Taxable(j) \in Nat /\ basket[k][j].rate \in 0 .. 100
             /\ TotalTax(Breakup(Taxable(j), basket[k][j].rate, Kind[k])) \in Nat
  <2>1. basket[k][j].price \in Nat /\ basket[k][j].rate \in 0 .. 100 /\ cut[j] \in Int
    BY <1>1, <1>2 DEF CartLine
  <2>3. basket[k][j].rate \in Nat
    BY <2>1
  <2>2. Taxable(j) \in Nat
    BY <2>1
  <2> HIDE DEF Taxable
  <2> QED BY <2>1, <2>2, <2>3, TaxNat
<1>4. LinesOf(k) = [j \in 1 .. n |->
         [price |-> basket[k][j].price, discount |-> cut[j], taxable |-> Taxable(j),
          rate |-> basket[k][j].rate, tax |-> Breakup(Taxable(j), basket[k][j].rate, Kind[k])]]
  BY <1>1 DEF LinesOf, LinesCut, cut
<1> HIDE DEF Taxable
<1>5. DOMAIN LinesOf(k) = 1 .. n
  BY <1>4
<1>6. ASSUME NEW j \in 1 .. n
      PROVE  /\ LinesOf(k)[j].taxable = Taxable(j) /\ LinesOf(k)[j].rate = basket[k][j].rate
             /\ LinesOf(k)[j].tax = Breakup(Taxable(j), basket[k][j].rate, Kind[k])
  BY <1>4
<1> QED BY <1>1, <1>3, <1>5, <1>6 DEF n

\* What lines are worth and the tax on them; among the rates is the principal one.
LEMMA WorthNat ==
  ASSUME NEW n \in Nat \ {0}, NEW ls, DOMAIN ls = 1 .. n,
         \A j \in 1 .. n : /\ {ls[j].taxable, TotalTax(ls[j].tax)} \subseteq Nat
                           /\ ls[j].rate \in 0 .. 100
  PROVE  Worth(ls) \in Nat /\ GoodsTax(ls) \in Nat /\ PrincipalRate(ls) \in 0 .. 100
<1> DEFINE value == [j \in 1 .. n |-> ls[j].taxable]
           tax   == [j \in 1 .. n |-> TotalTax(ls[j].tax)]
<1>1. value \in [1 .. n -> Nat] /\ tax \in [1 .. n -> Nat]
  OBVIOUS
<1>2. Worth(ls) = Total(value) /\ GoodsTax(ls) = Total(tax)
  BY DEF Worth, GoodsTax
<1>3. \A j \in 1 .. n : value[j] = ls[j].taxable
  OBVIOUS
<1> HIDE DEF value, tax
<1>4. Total(value) \in Nat /\ Total(tax) \in Nat
  BY <1>1, TotalNat
<1>5. ASSUME NEW j \in 1 .. n PROVE value[j] =< Total(value)
  <2>0. 1 \in Int /\ n \in Int
    OBVIOUS
  <2>9. IsFiniteSet(1 .. n)
    BY <2>0, FS_Interval
  <2>1. IsFiniteSet(1 .. n) /\ \A x \in 1 .. n : value[x] \in Int
    BY <1>1, <2>9
  <2>2. Total(value) = SumFunctionOnSet(value, 1 .. n)
    BY <1>1, TotalSum
  <2>3. SumFunctionOnSet(value, 1 .. n) = value[j] + SumFunctionOnSet(value, (1 .. n) \ {j})
    BY <2>1, SumRemove
  <2>4. IsFiniteSet((1 .. n) \ {j}) /\ \A x \in (1 .. n) \ {j} : value[x] \in Nat
    BY <1>1, <2>1, FS_RemoveElement
  <2>5. SumFunctionOnSet(value, (1 .. n) \ {j}) \in Nat
    BY <2>4, SumNat
  <2> QED BY <1>1, <2>2, <2>3, <2>5
<1> DEFINE short == {Total(value) - value[j] : j \in 1 .. n}
<1>6. short \in SUBSET Nat /\ short # {}
  <2>1. 1 \in 1 .. n
    OBVIOUS
  <2>2. \A j \in 1 .. n : Total(value) - value[j] \in Nat
    BY <1>1, <1>4, <1>5
  <2> QED BY <2>1, <2>2
<1>7. PICK least \in short : \A m \in short : least =< m
  BY <1>6, LeastNat
<1>8. PICK top \in 1 .. n : least = Total(value) - value[top]
  BY <1>7
<1>9. \A h \in 1 .. n : value[h] =< value[top]
  <2> TAKE h \in 1 .. n
  <2>1. least =< Total(value) - value[h]
    BY <1>7
  <2>2. value[h] \in Nat /\ value[top] \in Nat
    BY <1>1
  <2>3. Total(value) - value[top] =< Total(value) - value[h]
    BY <1>8, <2>1
  <2> QED BY <1>4, <2>2, <2>3
<1> DEFINE tops == {j \in 1 .. n : \A h \in 1 .. n : value[h] =< value[j]}
<1>10. tops \in SUBSET Nat /\ tops # {}
  <2>1. top \in tops
    BY <1>9
  <2>2. tops \subseteq 1 .. n /\ 1 .. n \subseteq Nat
    OBVIOUS
  <2> HIDE DEF tops
  <2> QED BY <2>1, <2>2
<1>11. PICK first \in tops : \A m \in tops : first =< m
  BY <1>10, LeastNat
<1>12. \A h \in 1 .. first - 1 : value[h] < value[first]
  <2> TAKE h \in 1 .. first - 1
  <2>1. h \in 1 .. n /\ first \in 1 .. n /\ h \notin tops
    BY <1>11
  <2>2. PICK g \in 1 .. n : ~(value[g] =< value[h])
    BY <2>1
  <2>3. value[g] =< value[first]
    BY <1>11, <2>2
  <2>4. value[g] \in Nat /\ value[h] \in Nat /\ value[first] \in Nat
    BY <1>1, <2>1
  <2> QED BY <2>2, <2>3, <2>4
<1> DEFINE Best(i) == /\ \A h \in DOMAIN ls : ls[h].taxable =< ls[i].taxable
                      /\ \A h \in 1 .. i - 1 : ls[h].taxable < ls[i].taxable
<1>13. first \in DOMAIN ls /\ Best(first)
  <2>1. first \in 1 .. n /\ \A h \in 1 .. n : value[h] =< value[first]
    BY <1>11
  <2>2. \A h \in 1 .. first - 1 : h \in 1 .. n
    BY <2>1
  <2> QED BY <1>3, <1>12, <2>1, <2>2
<1>14. PrincipalRate(ls) = ls[CHOOSE i \in DOMAIN ls : Best(i)].rate
  BY DEF PrincipalRate
<1>15. (CHOOSE i \in DOMAIN ls : Best(i)) \in DOMAIN ls
  <2> HIDE DEF Best
  <2> QED BY <1>13
<1>16. \A j \in 1 .. n : ls[j].rate \in 0 .. 100
  OBVIOUS
<1> HIDE DEF Best
<1> QED BY <1>2, <1>4, <1>14, <1>15, <1>16

\* What a seller order costs and pays.
LEMMA PartNat ==
  ASSUME basket \in Baskets, offer \in Offers, config \in Configs, NEW k \in Parts,
         NEW live, live # InHouseOnly => live \in Nat
  PROVE  SellerOrder(k, live).shipping \in Nat /\ SellerOrder(k, live).payout \in Nat
<1> DEFINE ls     == LinesOf(k)
           charge == IF live = InHouseOnly THEN InHouse(k) ELSE live
           rate   == PrincipalRate(ls)
           ship   == FromInclusive(charge, rate)
           shipTax == Breakup(ship, rate, Kind[k])
<1>0. Worth(ls) \in Nat /\ GoodsTax(ls) \in Nat /\ rate \in 0 .. 100
  BY LinesNat, WorthNat
<1>1. Worth(ls) \in Nat /\ GoodsTax(ls) \in Nat /\ rate \in Nat
  <2> HIDE DEF ls, rate
  <2> QED BY <1>0
<1>2. charge \in Nat
  BY InHouseNat
<1>3. SellerOrder(k, live) = SellerOrderOf(k, ls, live, charge)
  BY DEF SellerOrder
<1>4. ship \in Nat
  <2> HIDE DEF ls, charge, rate
  <2>1. charge * 10000 \in Nat /\ 100 + rate \in Nat \ {0}
    BY <1>1, <1>2
  <2> QED BY <2>1, OverNat DEF FromInclusive
<1>5. TotalTax(shipTax) \in Nat
  <2> HIDE DEF ls, charge, rate, ship
  <2> QED BY <1>1, <1>4, TaxNat
<1> DEFINE c == 100 * Paise(Over(Worth(ls) * Commission, 100))
<1>6. SellerOrderOf(k, ls, live, charge).payout
        = Paise(Worth(ls) + GoodsTax(ls) - c + ship + TotalTax(shipTax))
  BY DEF SellerOrderOf
<1>7. SellerOrderOf(k, ls, live, charge).shipping = charge
  BY DEF SellerOrderOf
<1> HIDE DEF ls, charge, rate, ship, shipTax
<1>8. c \in Int
  <2>1. Worth(ls) * Commission \in Nat
    BY <1>1, PricingConstantsOK
  <2>2. Over(Worth(ls) * Commission, 100) \in Nat
    BY <2>1, OverNat
  <2>3. Paise(Over(Worth(ls) * Commission, 100)) \in Nat
    BY <2>2, OverNat DEF Paise
  <2> QED BY <2>3
<1> HIDE DEF c
<1> DEFINE rest == GoodsTax(ls) + ship + TotalTax(shipTax)
<1>9. /\ rest \in Nat
      /\ Worth(ls) + GoodsTax(ls) - c + ship + TotalTax(shipTax) = Worth(ls) + rest - c
  BY <1>1, <1>4, <1>5, <1>8
<1> HIDE DEF rest
<1>10. Paise(Worth(ls) + rest - c) \in Nat
  BY <1>1, <1>9, PaidNat DEF c
<1> QED BY <1>2, <1>3, <1>6, <1>7, <1>9, <1>10

\* What a total is of, over a finite set of indexes.
LEMMA Indexes == ASSUME NEW n \in Nat PROVE IsFiniteSet(1 .. n) /\ Cardinality(1 .. n) = n
<1>1. 1 \in Int /\ n \in Int
  OBVIOUS
<1>2. IsFiniteSet(1 .. n) /\ Cardinality(1 .. n) = IF 1 > n THEN 0 ELSE n - 1 + 1
  BY <1>1, FS_Interval
<1> QED BY <1>2

\* The tax is within a rounding, or two, of what the rate says.
LEMMA TaxNear ==
  ASSUME NEW v \in Nat, NEW rate \in 0 .. 100, NEW supply
  PROVE  /\ TotalTax(Breakup(v, rate, supply)) \in Nat
         /\ 100 * TotalTax(Breakup(v, rate, supply)) - v * rate =< 100
         /\ v * rate - 100 * TotalTax(Breakup(v, rate, supply)) =< 100
<1> DEFINE m == v * rate
           t == TotalTax(Breakup(v, rate, supply))
<1>1. m \in Nat
  OBVIOUS
<1>2. t = IF supply = "INTRA_STATE" THEN Over(m, 200) + Over(m, 200) + 0 ELSE 0 + 0 + Over(m, 100)
  BY DEF TotalTax, Breakup
<1> HIDE DEF m, t
<1>3. /\ Over(m, 200) \in Nat /\ 200 * Over(m, 200) - m =< 100 /\ m - 200 * Over(m, 200) =< 100
      /\ Over(m, 100) \in Nat /\ 100 * Over(m, 100) - m =< 50 /\ m - 100 * Over(m, 100) =< 50
  BY <1>1 DEF Over
<1>4. t \in Nat /\ 100 * t - m =< 100 /\ m - 100 * t =< 100
  BY <1>1, <1>2, <1>3
<1> QED BY <1>4 DEF m, t

\* A charge that includes its tax is its taxable value and the tax on it, but for two roundings.
LEMMA ShippingNear ==
  ASSUME NEW charge \in Nat, NEW rate \in 0 .. 100, NEW supply
  PROVE  LET s == FromInclusive(charge, rate)
             x == TotalTax(Breakup(s, rate, supply))
         IN  /\ s \in Nat /\ x \in Nat
             /\ s + x - 100 * charge =< 2 /\ 100 * charge - (s + x) =< 2
<1> DEFINE b == 100 + rate
           c == charge * 10000
           s == FromInclusive(charge, rate)
           x == TotalTax(Breakup(s, rate, supply))
<1>1. b \in 100 .. 200 /\ c \in Nat /\ c = 10000 * charge /\ rate = b - 100
  OBVIOUS
<1>2. s = (2 * c + b) \div (2 * b)
  BY DEF FromInclusive, Over
<1> HIDE DEF b, c, s
<1>3. s \in Nat /\ (2 * b) * s =< 2 * c + b /\ 2 * c + b < (2 * b) * s + 2 * b
  <2> DEFINE d == 2 * b
             a == 2 * c + b
  <2>1. a \in Nat /\ d \in Nat \ {0}
    BY <1>1
  <2> HIDE DEF a, d
  <2>2. a \div d \in Nat /\ d * (a \div d) =< a /\ a < d * (a \div d) + d
    BY <2>1
  <2> QED BY <1>2, <2>2 DEF a, d
<1> DEFINE bs == b * s
<1>4. bs \in Nat /\ 2 * bs =< 2 * c + b /\ 2 * c + b < 2 * bs + 2 * b
  <2>1. bs \in Nat /\ (2 * b) * s = 2 * bs
    BY <1>1, <1>3
  <2> QED BY <2>1, <1>3
<1>5. s * rate = bs - 100 * s
  BY <1>1, <1>3
<1>6. x \in Nat /\ 100 * x - s * rate =< 100 /\ s * rate - 100 * x =< 100
  BY <1>3, TaxNear
<1> HIDE DEF bs, x
<1>7. s + x - 100 * charge =< 2 /\ 100 * charge - (s + x) =< 2
  BY <1>1, <1>3, <1>4, <1>5, <1>6
<1> QED BY <1>3, <1>6, <1>7 DEF s, x

\* The shares of a sum add up to it, for the last one takes what is left.
LEMMA SharesTotal ==
  ASSUME NEW t \in Int, NEW n \in Nat \ {0}, NEW w \in [1 .. n -> Nat]
  PROVE  Total(Shares(t, w)) = t
<1> DEFINE whole == Total(w)
           parts == [j \in 1 .. n - 1 |-> IF whole > 0 THEN Over(t * w[j], whole) ELSE 0]
           all   == Shares(t, w)
<1>1. Len(w) = n
  OBVIOUS
<1>2. whole \in Nat
  BY TotalNat
<1>3. all \in [1 .. n -> Int]
  BY SharesType
<1>4. all = Append(parts, t - Total(parts))
  BY <1>1 DEF Shares, WithRest, Rounded
<1> HIDE DEF whole
<1>5. ASSUME NEW j \in 1 .. n - 1 PROVE (IF whole > 0 THEN Over(t * w[j], whole) ELSE 0) \in Int
  <2>1. w[j] \in Nat
    OBVIOUS
  <2>2. t * w[j] \in Int
    BY <2>1
  <2>3. CASE whole > 0
    BY <1>2, <2>2, <2>3, OverInt
  <2> QED BY <2>3, <1>2
<1>6. parts \in [1 .. n - 1 -> Int]
  BY <1>5
<1> HIDE DEF parts
<1>7. Total(parts) \in Int
  BY <1>6, TotalInt
<1>8. parts \in Seq(Int) /\ Len(parts) = n - 1
  BY <1>6
<1> DEFINE rest == t - Total(parts)
<1>9. all = Append(parts, rest) /\ rest \in Int
  BY <1>4, <1>7
<1> HIDE DEF rest, all
<1>10. all[n] = rest /\ \A j \in 1 .. n - 1 : all[j] = parts[j]
  <2>1. Append(parts, rest)[Len(parts) + 1] = rest
    BY <1>8, <1>9, AppendProperties
  <2>2. \A j \in 1 .. Len(parts) : Append(parts, rest)[j] = parts[j]
    BY <1>8, <1>9, AppendProperties
  <2> QED BY <1>8, <1>9, <2>1, <2>2
<1>11. IsFiniteSet(1 .. n - 1) /\ n \notin 1 .. n - 1 /\ (1 .. n - 1) \cup {n} = 1 .. n
  <2>1. n - 1 \in Nat
    OBVIOUS
  <2>2. IsFiniteSet(1 .. n - 1)
    BY <2>1, Indexes
  <2> QED BY <2>2
<1>12. SumFunctionOnSet(all, (1 .. n - 1) \cup {n}) = all[n] + SumFunctionOnSet(all, 1 .. n - 1)
  <2>1. \A j \in (1 .. n - 1) \cup {n} : all[j] \in Int
    BY <1>3, <1>11
  <2> QED BY <1>11, <2>1, SumAdd
<1>13. SumFunctionOnSet(all, 1 .. n - 1) = SumFunctionOnSet(parts, 1 .. n - 1)
  BY <1>10, <1>11, SumSame
<1>14. Total(all) = SumFunctionOnSet(all, 1 .. n) /\ Total(parts) = SumFunctionOnSet(parts, 1 .. n - 1)
  BY <1>3, <1>6, TotalSum
<1>15. Total(all) = t
  <2>1. Total(all) = rest + Total(parts)
    BY <1>10, <1>11, <1>12, <1>13, <1>14
  <2>2. rest + Total(parts) = t
    BY <1>7 DEF rest
  <2> QED BY <2>1, <2>2
<1> QED BY <1>15 DEF all

\* The lines of a seller order, each with its price, its share of the discount and its tax.
LEMMA LinesAre ==
  ASSUME basket \in Baskets, offer \in Offers, NEW k \in Parts
  PROVE  LET cut == Shares(PerStore[k], PricesOf(k)) IN
         /\ cut \in [1 .. Len(basket[k]) -> Int] /\ Total(cut) = PerStore[k]
         /\ \A j \in 1 .. Len(basket[k]) :
              /\ LinesOf(k)[j].price = PricesOf(k)[j] /\ basket[k][j].price = PricesOf(k)[j]
              /\ LinesOf(k)[j].discount = cut[j]
              /\ cut[j] =< PricesOf(k)[j] => LinesOf(k)[j].taxable = 100 * (PricesOf(k)[j] - cut[j])
              /\ LinesOf(k)[j].tax = Breakup(LinesOf(k)[j].taxable, LinesOf(k)[j].rate, Kind[k])
<1> DEFINE n   == Len(basket[k])
           cut == Shares(PerStore[k], PricesOf(k))
<1>1. n \in Nat \ {0} /\ DOMAIN basket[k] = 1 .. n
  BY BasketLines
<1>2. cut \in [1 .. n -> Int] /\ Total(cut) = PerStore[k]
  BY <1>1, DiscountShared, GoodsNat, SharesType, SharesTotal
<1>3. \A j \in 1 .. n : PricesOf(k)[j] = basket[k][j].price /\ PricesOf(k)[j] \in Nat
  BY <1>1, GoodsNat DEF PricesOf
<1> HIDE DEF n, cut
<1> DEFINE Taxable(j) == LET left == basket[k][j].price - cut[j] IN 100 * (IF left > 0 THEN left ELSE 0)
<1>4. LinesOf(k) = [j \in 1 .. n |->
         [price |-> basket[k][j].price, discount |-> cut[j], taxable |-> Taxable(j),
          rate |-> basket[k][j].rate, tax |-> Breakup(Taxable(j), basket[k][j].rate, Kind[k])]]
  BY <1>1 DEF LinesOf, LinesCut, cut
<1>5. ASSUME NEW j \in 1 .. n, cut[j] =< PricesOf(k)[j]
      PROVE  Taxable(j) = 100 * (PricesOf(k)[j] - cut[j])
  BY <1>2, <1>3, <1>5
<1> HIDE DEF Taxable
<1>6. ASSUME NEW j \in 1 .. n
      PROVE  /\ LinesOf(k)[j].price = basket[k][j].price /\ LinesOf(k)[j].discount = cut[j]
             /\ LinesOf(k)[j].taxable = Taxable(j) /\ LinesOf(k)[j].rate = basket[k][j].rate
             /\ LinesOf(k)[j].tax = Breakup(Taxable(j), basket[k][j].rate, Kind[k])
  BY <1>4
<1>7. \A j \in 1 .. n :
        /\ LinesOf(k)[j].price = PricesOf(k)[j] /\ basket[k][j].price = PricesOf(k)[j]
        /\ LinesOf(k)[j].discount = cut[j]
        /\ cut[j] =< PricesOf(k)[j] => LinesOf(k)[j].taxable = 100 * (PricesOf(k)[j] - cut[j])
        /\ LinesOf(k)[j].tax = Breakup(LinesOf(k)[j].taxable, LinesOf(k)[j].rate, Kind[k])
  BY <1>3, <1>5, <1>6
<1> QED BY <1>2, <1>7 DEF n, cut

\* What a line of an order costs, and what all lines do, as a preview counts it.
Cost(l) == l.taxable * (100 + l.rate)
Costs(ls) == Total([j \in DOMAIN ls |-> Cost(ls[j])])
\* What a return of these lines refunds.
Returned(ls) == Total([j \in DOMAIN ls |-> ls[j].price - ls[j].discount + Paise(TotalTax(ls[j].tax))])

\* What the lines of a seller order are worth is its price without its share of the discount;
\* with the taxes it is what the coupon's preview counts and what a return refunds, but for a
\* rounding for each line.
LEMMA LinesAgree ==
  ASSUME basket \in Baskets, offer \in Offers, NEW k \in Parts,
         \A j \in DOMAIN basket[k] : LinesOf(k)[j].discount =< basket[k][j].price
  PROVE  LET ls    == LinesOf(k)
             goods == Worth(ls) + GoodsTax(ls)
         IN  /\ Len(ls) \in Nat /\ Worth(ls) = 100 * (Subtotal(k) - PerStore[k])
             /\ Costs(ls) \in Int /\ Returned(ls) \in Int
             /\ 100 * goods - Costs(ls) =< 100 * Len(ls) /\ Costs(ls) - 100 * goods =< 100 * Len(ls)
             /\ 100 * Returned(ls) - goods =< 50 * Len(ls) /\ goods - 100 * Returned(ls) =< 50 * Len(ls)
<1> DEFINE n   == Len(basket[k])
           cut == Shares(PerStore[k], PricesOf(k))
           price == PricesOf(k)
           ls == LinesOf(k)
<1>1. n \in Nat \ {0} /\ DOMAIN basket[k] = 1 .. n
  BY BasketLines
<1>2. price \in [1 .. n -> Nat]
  BY GoodsNat
<1>3. /\ cut \in [1 .. n -> Int] /\ Total(cut) = PerStore[k] /\ Total(price) = Subtotal(k)
      /\ \A j \in 1 .. n :
           /\ ls[j].price = price[j] /\ basket[k][j].price = price[j] /\ ls[j].discount = cut[j]
           /\ cut[j] =< price[j] => ls[j].taxable = 100 * (price[j] - cut[j])
           /\ ls[j].tax = Breakup(ls[j].taxable, ls[j].rate, Kind[k])
  BY LinesAre DEF Subtotal
<1>4. /\ DOMAIN ls = 1 .. n
      /\ \A j \in 1 .. n : /\ ls[j].taxable \in Nat /\ TotalTax(ls[j].tax) \in Nat
                           /\ ls[j].rate \in 0 .. 100
  BY LinesNat
<1>5. Len(ls) = n
  <2>1. n \in Nat /\ ls = [j \in 1 .. n |-> ls[j]]
    BY <1>1, <1>4 DEF LinesOf, LinesCut
  <2> HIDE DEF n, ls
  <2> QED BY <2>1, <1>4
<1>6. \A j \in 1 .. n : cut[j] =< price[j]
  BY <1>1, <1>3
<1> HIDE DEF n, cut, price, ls
<1> DEFINE left  == [j \in 1 .. n |-> price[j] - cut[j]]
           value == [j \in 1 .. n |-> ls[j].taxable]
           tax   == [j \in 1 .. n |-> TotalTax(ls[j].tax)]
           cost  == [j \in 1 .. n |-> Cost(ls[j])]
           back  == [j \in 1 .. n |-> ls[j].price - ls[j].discount + Paise(TotalTax(ls[j].tax))]
           both  == [j \in 1 .. n |-> value[j] + tax[j]]
           wide  == [j \in 1 .. n |-> 100 * both[j]]
           whole == [j \in 1 .. n |-> 100 * back[j]]
           ones  == [j \in 1 .. n |-> 100]
           half  == [j \in 1 .. n |-> 50]
<1>7. /\ Worth(ls) = Total(value) /\ GoodsTax(ls) = Total(tax)
      /\ Costs(ls) = Total(cost) /\ Returned(ls) = Total(back)
  BY <1>4 DEF Worth, GoodsTax, Costs, Returned
<1>8. ASSUME NEW j \in 1 .. n
      PROVE  /\ price[j] \in Int /\ cut[j] \in Int /\ left[j] = price[j] - cut[j] /\ left[j] \in Int
             /\ value[j] \in Int /\ value[j] = 100 * left[j] /\ tax[j] \in Int
  BY <1>2, <1>3, <1>4, <1>6
<1>9. ASSUME NEW j \in 1 .. n
      PROVE  /\ cost[j] \in Int /\ both[j] = value[j] + tax[j] /\ wide[j] = 100 * both[j]
             /\ wide[j] - cost[j] =< 100 /\ cost[j] - wide[j] =< 100
  <2> DEFINE v == ls[j].taxable
             r == ls[j].rate
             t == TotalTax(ls[j].tax)
             m == v * r
  <2>1. v \in Nat /\ r \in 0 .. 100 /\ t = TotalTax(Breakup(v, r, Kind[k]))
    BY <1>3, <1>4
  <2>2. value[j] = v /\ tax[j] = t /\ cost[j] = v * (100 + r)
    BY DEF Cost
  <2>3. both[j] = value[j] + tax[j] /\ wide[j] = 100 * both[j]
    OBVIOUS
  <2> HIDE DEF v, r, t, value, tax, cost, both, wide
  <2>4. v * (100 + r) = 100 * v + m /\ m \in Nat
    BY <2>1
  <2>6. /\ TotalTax(Breakup(v, r, Kind[k])) \in Nat
        /\ 100 * TotalTax(Breakup(v, r, Kind[k])) - v * r =< 100
        /\ v * r - 100 * TotalTax(Breakup(v, r, Kind[k])) =< 100
    BY <2>1, TaxNear
  <2>5. t \in Nat /\ 100 * t - m =< 100 /\ m - 100 * t =< 100
    BY <2>1, <2>6
  <2> HIDE DEF m
  <2> QED BY <2>1, <2>2, <2>3, <2>4, <2>5
<1>10. ASSUME NEW j \in 1 .. n
       PROVE  /\ back[j] \in Int /\ whole[j] = 100 * back[j]
              /\ whole[j] - both[j] =< 50 /\ both[j] - whole[j] =< 50
  <2> DEFINE t == TotalTax(ls[j].tax)
             p == Paise(t)
  <2>1. t \in Nat
    BY <1>4
  <2>2. p \in Nat /\ 100 * p - t =< 50 /\ t - 100 * p =< 50
    BY <2>1 DEF Paise, Over
  <2>3. back[j] = left[j] + p /\ whole[j] = 100 * back[j] /\ both[j] = value[j] + t
    BY <1>3
  <2> HIDE DEF t, p, back, whole, both, left, value, tax
  <2> QED BY <1>8, <2>1, <2>2, <2>3
<1>11. \A j \in 1 .. n : ones[j] = 100 /\ half[j] = 50
  OBVIOUS
<1>12. /\ left \in [1 .. n -> Int] /\ value \in [1 .. n -> Int] /\ tax \in [1 .. n -> Int]
       /\ cost \in [1 .. n -> Int] /\ back \in [1 .. n -> Int] /\ both \in [1 .. n -> Int]
  <2>1. \A j \in 1 .. n : both[j] \in Int
    <3> TAKE j \in 1 .. n
    <3>1. value[j] \in Int /\ tax[j] \in Int /\ both[j] = value[j] + tax[j]
      BY <1>8, <1>9
    <3> HIDE DEF value, tax, both
    <3> QED BY <3>1
  <2> QED BY <1>8, <1>9, <1>10, <2>1
<1> HIDE DEF left, value, tax, cost, back, both, wide, whole, ones, half
<1> DEFINE Add(f) == SumFunctionOnSet(f, 1 .. n)
<1>13. IsFiniteSet(1 .. n) /\ Cardinality(1 .. n) = n
  BY <1>1, Indexes
<1>14. Add(price) = Add(left) + Add(cut)
  <2>1. \A j \in 1 .. n : left[j] \in Int /\ cut[j] \in Int /\ price[j] = left[j] + cut[j]
    BY <1>8
  <2> QED BY <2>1, <1>13, SumPlus
<1>15. Add(value) = 100 * Add(left)
  <2>1. \A j \in 1 .. n : left[j] \in Int /\ value[j] = 100 * left[j]
    BY <1>8
  <2> QED BY <2>1, <1>13, SumHundred
<1>16. Add(both) = Add(value) + Add(tax)
  <2>1. \A j \in 1 .. n : value[j] \in Int /\ tax[j] \in Int /\ both[j] = value[j] + tax[j]
    BY <1>8, <1>9
  <2> QED BY <2>1, <1>13, SumPlus
<1>17. Add(wide) = 100 * Add(both)
  <2>1. \A j \in 1 .. n : both[j] \in Int /\ wide[j] = 100 * both[j]
    BY <1>9, <1>12
  <2> QED BY <2>1, <1>13, SumHundred
<1>18. Add(whole) = 100 * Add(back)
  <2>1. \A j \in 1 .. n : back[j] \in Int /\ whole[j] = 100 * back[j]
    BY <1>10
  <2> QED BY <2>1, <1>13, SumHundred
<1>19. Add(ones) = 100 * n /\ Add(half) = 50 * n
  <2>1. \A j \in 1 .. n : ones[j] = 100
    BY <1>11
  <2>2. \A j \in 1 .. n : half[j] = 50
    BY <1>11
  <2>0. 100 \in Int /\ 50 \in Int
    OBVIOUS
  <2> DEFINE I == 1 .. n
  <2>5. IsFiniteSet(I) /\ Cardinality(I) = n
    BY <1>13
  <2>6. (\A j \in I : ones[j] = 100) /\ (\A j \in I : half[j] = 50)
    BY <2>1, <2>2
  <2> HIDE DEF I
  <2>3. SumFunctionOnSet(ones, I) = 100 * Cardinality(I)
    BY <2>0, <2>6, <2>5, SumConst
  <2>4. SumFunctionOnSet(half, I) = 50 * Cardinality(I)
    BY <2>0, <2>6, <2>5, SumConst
  <2> QED BY <2>3, <2>4, <2>5 DEF I
<1>20. Add(wide) - Add(cost) =< Add(ones) /\ Add(cost) - Add(wide) =< Add(ones)
  <2>1. \A j \in 1 .. n : /\ wide[j] \in Int /\ cost[j] \in Int /\ ones[j] \in Int
                          /\ wide[j] - cost[j] =< ones[j] /\ cost[j] - wide[j] =< ones[j]
    <3> TAKE j \in 1 .. n
    <3>1. both[j] \in Int /\ wide[j] = 100 * both[j] /\ cost[j] \in Int /\ ones[j] = 100
      BY <1>9, <1>11, <1>12
    <3>2. wide[j] - cost[j] =< 100 /\ cost[j] - wide[j] =< 100
      BY <1>9
    <3> QED BY <3>1, <3>2
  <2> QED BY <2>1, <1>13, SumWithin
<1>21. Add(whole) - Add(both) =< Add(half) /\ Add(both) - Add(whole) =< Add(half)
  <2>1. \A j \in 1 .. n : /\ whole[j] \in Int /\ both[j] \in Int /\ half[j] \in Int
                          /\ whole[j] - both[j] =< half[j] /\ both[j] - whole[j] =< half[j]
    BY <1>10, <1>11, <1>12
  <2> QED BY <2>1, <1>13, SumWithin
<1>22. /\ Total(price) = Add(price) /\ Total(cut) = Add(cut) /\ Total(value) = Add(value)
       /\ Total(tax) = Add(tax) /\ Total(cost) = Add(cost) /\ Total(back) = Add(back)
  <2>0. cut \in [1 .. n -> Int]
    BY <1>3
  <2>1. Total(price) = Add(price)
    BY <1>2, TotalSum
  <2>4. Total(cut) = Add(cut)
    BY <2>0, TotalSum
  <2>2. Total(value) = Add(value) /\ Total(tax) = Add(tax)
    BY <1>12, TotalSum
  <2>3. Total(cost) = Add(cost) /\ Total(back) = Add(back)
    BY <1>12, TotalSum
  <2> QED BY <2>1, <2>2, <2>3, <2>4
<1>23. {Add(left), Add(cut), Add(tax), Add(cost), Add(back)} \subseteq Int
  <2>1. /\ \A j \in 1 .. n : left[j] \in Int
        /\ \A j \in 1 .. n : cut[j] \in Int
        /\ \A j \in 1 .. n : tax[j] \in Int
        /\ \A j \in 1 .. n : cost[j] \in Int
        /\ \A j \in 1 .. n : back[j] \in Int
    BY <1>3, <1>12
  <2>2. Add(left) \in Int
    BY <2>1, <1>13, SumType
  <2>3. Add(cut) \in Int
    BY <2>1, <1>13, SumType
  <2>4. Add(tax) \in Int
    BY <2>1, <1>13, SumType
  <2>5. Add(cost) \in Int
    BY <2>1, <1>13, SumType
  <2>6. Add(back) \in Int
    BY <2>1, <1>13, SumType
  <2> QED BY <2>2, <2>3, <2>4, <2>5, <2>6
<1> HIDE DEF Add
<1>24. Worth(ls) = 100 * (Subtotal(k) - PerStore[k])
  BY <1>3, <1>7, <1>14, <1>15, <1>22, <1>23
<1> DEFINE goods == Worth(ls) + GoodsTax(ls)
<1>25. goods = Add(both) /\ goods \in Int
  BY <1>7, <1>15, <1>16, <1>22, <1>23
<1> HIDE DEF goods
<1>26. 100 * goods - Costs(ls) =< 100 * n /\ Costs(ls) - 100 * goods =< 100 * n
  BY <1>1, <1>7, <1>17, <1>19, <1>20, <1>22, <1>23, <1>25
<1>27. 100 * Returned(ls) - goods =< 50 * n /\ goods - 100 * Returned(ls) =< 50 * n
  BY <1>1, <1>7, <1>18, <1>19, <1>21, <1>22, <1>23, <1>25
<1>28. Costs(ls) \in Int /\ Returned(ls) \in Int
  BY <1>7, <1>22, <1>23
<1> QED BY <1>1, <1>5, <1>24, <1>26, <1>27, <1>28 DEF goods, ls

\* What agrees of the figures of a seller order.
PartFits(k, so) ==
  LET n     == Len(so.lines)
      kept  == so.payout + so.commission
      v     == Invoiced(so)
      goods == v - 100 * so.shipping
  IN  /\ so.lines = LinesOf(k) /\ n \in Nat
      /\ so.subtotal \in Int /\ so.discount \in Int /\ so.shipping \in Int /\ so.tax \in Int
      /\ so.shippingTax \in Int /\ so.payout \in Int /\ so.commission \in Int /\ v \in Int
      /\ Costs(so.lines) \in Int /\ ReturnedGoods(so) \in Int
      /\ 100 * kept - v =< 52 /\ v - 100 * kept =< 52
      /\ 100 * SellerOrderTotal(so) - v - so.shippingTax =< 50
      /\ v + so.shippingTax - 100 * SellerOrderTotal(so) =< 50
      /\ 100 * goods - Costs(so.lines) =< 100 * n /\ Costs(so.lines) - 100 * goods =< 100 * n
      /\ 100 * ReturnedGoods(so) - goods =< 50 * n /\ goods - 100 * ReturnedGoods(so) =< 50 * n

\* The figures of a seller order agree: what its seller is paid and what the platform keeps are
\* what is invoiced, as are its total and the tax of its shipping, which is counted twice.
LEMMA PartAgrees ==
  ASSUME basket \in Baskets, offer \in Offers, config \in Configs, NEW k \in Parts,
         NEW live, live # InHouseOnly => live \in Nat,
         \A j \in DOMAIN basket[k] : LinesOf(k)[j].discount =< basket[k][j].price
  PROVE  PartFits(k, SellerOrder(k, live))
<1> DEFINE ls     == LinesOf(k)
           charge == IF live = InHouseOnly THEN InHouse(k) ELSE live
           rate   == PrincipalRate(ls)
           ship   == FromInclusive(charge, rate)
           x      == TotalTax(Breakup(ship, rate, Kind[k]))
           w      == Worth(ls)
           g      == GoodsTax(ls)
           c      == Paise(Over(w * Commission, 100))
           so     == SellerOrder(k, live)
           n      == Len(ls)
           sub    == Subtotal(k)
           cut    == PerStore[k]
<1>1. w \in Nat /\ g \in Nat /\ rate \in 0 .. 100
  BY LinesNat, WorthNat
<1>2. charge \in Nat
  BY InHouseNat
<1>3. sub \in Int /\ cut \in Int
  BY GoodsNat, DiscountShared
<1>4. /\ n \in Nat /\ w = 100 * (sub - cut) /\ Costs(ls) \in Int /\ Returned(ls) \in Int
      /\ 100 * (w + g) - Costs(ls) =< 100 * n /\ Costs(ls) - 100 * (w + g) =< 100 * n
      /\ 100 * Returned(ls) - (w + g) =< 50 * n /\ (w + g) - 100 * Returned(ls) =< 50 * n
  BY LinesAgree
<1>5. /\ so.lines = ls /\ so.subtotal = sub /\ so.discount = cut /\ so.shipping = charge
      /\ so.shippingTax = x /\ so.commission = c /\ so.tax = Paise(g + x)
      /\ so.payout = Paise(w + g - 100 * c + ship + x)
  BY DEF SellerOrder, SellerOrderOf
<1>6. /\ Invoiced(so) = Worth(so.lines) + GoodsTax(so.lines) + 100 * so.shipping
      /\ SellerOrderTotal(so) = so.subtotal + so.tax + so.shipping - so.discount
      /\ ReturnedGoods(so) = Returned(so.lines)
  BY DEF Invoiced, SellerOrderTotal, ReturnedGoods, Returned
<1> HIDE DEF so
<1>7. /\ Invoiced(so) = w + g + 100 * charge /\ ReturnedGoods(so) = Returned(ls)
      /\ SellerOrderTotal(so) = sub + Paise(g + x) + charge - cut
  BY <1>5, <1>6
<1>8. c \in Nat
  <2> HIDE DEF w
  <2>1. w * Commission \in Nat
    BY <1>1, PricingConstantsOK
  <2>2. Over(w * Commission, 100) \in Nat
    BY <2>1, OverNat
  <2> QED BY <2>2, OverNat DEF Paise
<1>9. /\ ship \in Nat /\ x \in Nat
      /\ ship + x - 100 * charge =< 2 /\ 100 * charge - (ship + x) =< 2
  <2> HIDE DEF charge, rate
  <2> QED BY <1>1, <1>2, ShippingNear
<1> HIDE DEF ls, charge, rate, ship, x, w, g, c, n, sub, cut
<1>10. /\ Paise(g + x) \in Int /\ 100 * Paise(g + x) - (g + x) =< 50 /\ (g + x) - 100 * Paise(g + x) =< 50
  BY <1>1, <1>9 DEF Paise, Over
<1> DEFINE sum == w + g + ship + x
           paid == Paise(sum - 100 * c)
<1>11. sum \in Nat /\ w + g - 100 * c + ship + x = sum - 100 * c
  BY <1>1, <1>8, <1>9
<1> HIDE DEF sum
<1>12. paid \in Int /\ 100 * (paid + c) - sum =< 50 /\ sum - 100 * (paid + c) =< 50
  BY <1>8, <1>11 DEF Paise, Over
<1>13. so.payout = paid
  BY <1>5, <1>11
<1> HIDE DEF paid
<1> DEFINE v == Invoiced(so)
<1>14. v = w + g + 100 * charge
  BY <1>7
<1> HIDE DEF v
<1>15. v \in Int
  BY <1>1, <1>2, <1>14
<1>16. 100 * (so.payout + so.commission) - v =< 52 /\ v - 100 * (so.payout + so.commission) =< 52
  <2>1. so.payout + so.commission = paid + c
    BY <1>5, <1>13
  <2>2. sum - v =< 2 /\ v - sum =< 2
    BY <1>1, <1>2, <1>9, <1>14 DEF sum
  <2> QED BY <2>1, <2>2, <1>8, <1>11, <1>12, <1>15
<1>17. /\ 100 * SellerOrderTotal(so) - v - so.shippingTax =< 50
       /\ v + so.shippingTax - 100 * SellerOrderTotal(so) =< 50
  BY <1>1, <1>2, <1>3, <1>4, <1>5, <1>7, <1>9, <1>10, <1>14
<1>18. v - 100 * so.shipping = w + g
  BY <1>1, <1>2, <1>5, <1>14
<1>19. /\ so.subtotal \in Int /\ so.discount \in Int /\ so.shipping \in Int /\ so.tax \in Int
       /\ so.shippingTax \in Int /\ so.payout \in Int /\ so.commission \in Int /\ v \in Int
  BY <1>2, <1>3, <1>5, <1>8, <1>9, <1>10, <1>12, <1>13, <1>15
<1>20. so.lines = ls /\ Len(so.lines) = n
  BY <1>5 DEF n
<1>21. /\ 100 * (v - 100 * so.shipping) - Costs(so.lines) =< 100 * n
       /\ Costs(so.lines) - 100 * (v - 100 * so.shipping) =< 100 * n
       /\ 100 * ReturnedGoods(so) - (v - 100 * so.shipping) =< 50 * n
       /\ (v - 100 * so.shipping) - 100 * ReturnedGoods(so) =< 50 * n
  BY <1>4, <1>7, <1>18, <1>20
<1>22. ReturnedGoods(so) \in Int /\ Costs(so.lines) \in Int /\ n \in Nat
  BY <1>4, <1>7, <1>20
<1>23. PartFits(k, so)
  BY <1>16, <1>17, <1>19, <1>20, <1>21, <1>22 DEF v, ls, PartFits
<1> QED BY <1>23 DEF so

\* What is known of the sums over the parts of an order.
Gathered(a, n) ==
  /\ a.charged \in Int /\ a.tax \in Int /\ a.extra \in Int /\ a.due \in Int /\ a.inv \in Int
  /\ a.kept \in Int /\ a.ship \in Int /\ a.goods \in Int /\ a.cost \in Int /\ a.size \in Int
  /\ a.due = 100 * (a.charged + a.tax) - a.extra /\ a.inv = a.goods + 100 * a.ship
  /\ a.due - a.inv =< 50 * n /\ a.inv - a.due =< 50 * n
  /\ 100 * a.kept - a.due =< 102 * n /\ a.due - 100 * a.kept =< 102 * n
  /\ 100 * a.goods - a.cost =< 100 * a.size /\ a.cost - 100 * a.goods =< 100 * a.size
  /\ a.total = a.charged + Paise(100 * a.tax - a.extra) /\ a.shown = Over(a.cost, 10000)

\* The roundings of an order and of its parts, added up.
LEMMA Roundings ==
  ASSUME NEW n \in Nat, NEW a, Gathered(a, n)
  PROVE  /\ a.total \in Int
         /\ 100 * Abs(a.total - a.kept) =< 102 * n + 50
         /\ Abs(100 * a.total - a.inv) =< 50 * (n + 1)
         /\ 100 * Abs(a.total - a.ship - a.shown) =< 50 * (n + 2) + a.size
<1> DEFINE y == 100 * a.tax - a.extra
           m == Paise(y)
<1>1. y \in Int
  BY DEF Gathered
<1> HIDE DEF y
<1>2. m \in Int /\ 100 * m - y =< 50 /\ y - 100 * m =< 50
  BY <1>1 DEF Paise, Over
<1>3. a.total = a.charged + m
  BY DEF y, Gathered
<1> HIDE DEF m
<1>4. a.total \in Int /\ 100 * a.total - a.due =< 50 /\ a.due - 100 * a.total =< 50
  <2>1. a.due = 100 * a.charged + y
    BY DEF y, Gathered
  <2> QED BY <1>1, <1>2, <1>3, <2>1 DEF Gathered
<1>5. 100 * Abs(a.total - a.kept) =< 102 * n + 50
  <2>1. 100 * (a.total - a.kept) =< 102 * n + 50 /\ 100 * (a.kept - a.total) =< 102 * n + 50
    BY <1>4 DEF Gathered
  <2> QED BY <1>4, <2>1 DEF Abs, Gathered
<1>6. Abs(100 * a.total - a.inv) =< 50 * (n + 1)
  <2>1. 100 * a.total - a.inv =< 50 * (n + 1) /\ a.inv - 100 * a.total =< 50 * (n + 1)
    BY <1>4 DEF Gathered
  <2> QED BY <1>4, <2>1 DEF Abs, Gathered
<1>7. a.shown \in Int /\ 10000 * a.shown - a.cost =< 5000 /\ a.cost - 10000 * a.shown =< 5000
  BY DEF Over, Gathered
<1>8. 100 * Abs(a.total - a.ship - a.shown) =< 50 * (n + 2) + a.size
  <2>1. /\ 100 * a.total - 100 * a.ship - a.goods =< 50 + 50 * n
        /\ a.goods - (100 * a.total - 100 * a.ship) =< 50 + 50 * n
    BY <1>4 DEF Gathered
  <2>2. /\ 100 * (a.total - a.ship - a.shown) =< 50 * (n + 2) + a.size
        /\ 100 * (a.shown - (a.total - a.ship)) =< 50 * (n + 2) + a.size
    BY <1>4, <1>7, <2>1 DEF Gathered
  <2> QED BY <1>4, <1>7, <2>2 DEF Abs, Gathered
<1> QED BY <1>4, <1>5, <1>6, <1>8

\* The sums of numbers paid by each seller, when nothing else is known of them.
LEMMA PaidSums ==
  ASSUME NEW p \in Int, NEW c \in Int, NEW s \in Int, NEW d \in Int, NEW h \in Int
  PROVE  p + c \in Int /\ s - d + h \in Int
OBVIOUS

\* An order made of its seller orders.
Composed(o) ==
  /\ o.orders = [k \in Parts |-> o.orders[k]] /\ o.total = TotalAmount(o.orders)
  /\ \A k \in Parts : \E live : /\ live # InHouseOnly => live \in Nat
                                /\ o.orders[k] = SellerOrder(k, live)

\* The figures of an order made of such seller orders agree.
LEMMA OrderAgrees ==
  ASSUME basket \in Baskets, offer \in Offers, config \in Configs, NEW o, Composed(o), Covered(o)
  PROVE  Agree(o)
<1> DEFINE n   == Len(basket)
           sos == o.orders
<1>1. n \in Nat /\ Parts = 1 .. n
  BY BasketLines
<1>2. DOMAIN sos = 1 .. n /\ Len(sos) = n
  <2>1. sos = [k \in 1 .. n |-> sos[k]]
    BY <1>1 DEF Composed
  <2> HIDE DEF sos, n
  <2> QED BY <1>1, <2>1
<1> HIDE DEF n
<1>3. ASSUME NEW k \in 1 .. n PROVE PartFits(k, sos[k])
  <2>1. PICK live : /\ live # InHouseOnly => live \in Nat
                    /\ o.orders[k] = SellerOrder(k, live)
    BY <1>1 DEF Composed
  <2>2. k \in Parts /\ SellerOrder(k, live).lines = LinesOf(k)
    BY <1>1 DEF SellerOrder, SellerOrderOf
  <2>3. \A j \in DOMAIN basket[k] : LinesOf(k)[j].discount =< basket[k][j].price
    BY <2>1, <2>2 DEF Covered
  <2>4. PartFits(k, SellerOrder(k, live))
    BY <2>1, <2>2, <2>3, PartAgrees
  <2> QED BY <2>1, <2>4
<1>4. ASSUME NEW k \in 1 .. n
      PROVE  SellerOrderTotal(sos[k])
               = sos[k].subtotal - sos[k].discount + sos[k].shipping + sos[k].tax
  <2>1. /\ sos[k].subtotal \in Int /\ sos[k].discount \in Int
        /\ sos[k].shipping \in Int /\ sos[k].tax \in Int
    BY <1>3 DEF PartFits
  <2>2. SellerOrderTotal(sos[k]) = sos[k].subtotal + sos[k].tax + sos[k].shipping - sos[k].discount
    BY DEF SellerOrderTotal
  <2> HIDE DEF sos
  <2> QED BY <2>1, <2>2
<1> HIDE DEF sos
<1> DEFINE kept    == [k \in 1 .. n |-> sos[k].payout + sos[k].commission]
           charged == [k \in 1 .. n |-> sos[k].subtotal - sos[k].discount + sos[k].shipping]
           tax     == [k \in 1 .. n |-> sos[k].tax]
           extra   == [k \in 1 .. n |-> sos[k].shippingTax]
           inv     == [k \in 1 .. n |-> Invoiced(sos[k])]
           ship    == [k \in 1 .. n |-> sos[k].shipping]
           cost    == [k \in 1 .. n |-> Costs(sos[k].lines)]
           size    == [k \in 1 .. n |-> Len(sos[k].lines)]
           all     == [k \in 1 .. n |-> charged[k] + tax[k]]
           due     == [k \in 1 .. n |-> 100 * all[k] - extra[k]]
           goods   == [k \in 1 .. n |-> inv[k] - 100 * ship[k]]
           hall    == [k \in 1 .. n |-> 100 * all[k]]
           hkept   == [k \in 1 .. n |-> 100 * kept[k]]
           hship   == [k \in 1 .. n |-> 100 * ship[k]]
           hgoods  == [k \in 1 .. n |-> 100 * goods[k]]
           hsize   == [k \in 1 .. n |-> 100 * size[k]]
           c50     == [k \in 1 .. n |-> 50]
           c102    == [k \in 1 .. n |-> 102]
<1>5. \A k \in 1 .. n :
        /\ kept[k] = sos[k].payout + sos[k].commission
        /\ charged[k] = sos[k].subtotal - sos[k].discount + sos[k].shipping
        /\ tax[k] = sos[k].tax /\ extra[k] = sos[k].shippingTax /\ inv[k] = Invoiced(sos[k])
        /\ ship[k] = sos[k].shipping /\ cost[k] = Costs(sos[k].lines) /\ size[k] = Len(sos[k].lines)
  OBVIOUS
<1>6. \A k \in 1 .. n :
        /\ all[k] = charged[k] + tax[k] /\ due[k] = 100 * all[k] - extra[k]
        /\ goods[k] = inv[k] - 100 * ship[k] /\ hall[k] = 100 * all[k] /\ hkept[k] = 100 * kept[k]
        /\ hship[k] = 100 * ship[k] /\ hgoods[k] = 100 * goods[k] /\ hsize[k] = 100 * size[k]
        /\ c50[k] = 50 /\ c102[k] = 102
  OBVIOUS
<1>7. /\ Total([k \in DOMAIN sos |-> sos[k].payout + sos[k].commission]) = Total(kept)
      /\ Total([k \in DOMAIN sos |-> sos[k].subtotal - sos[k].discount + sos[k].shipping]) = Total(charged)
      /\ Total([k \in DOMAIN sos |-> sos[k].tax]) = Total(tax)
      /\ Total([k \in DOMAIN sos |-> sos[k].shippingTax]) = Total(extra)
      /\ Total([k \in DOMAIN sos |-> Invoiced(sos[k])]) = Total(inv)
      /\ Total([k \in DOMAIN sos |-> sos[k].shipping]) = Total(ship)
      /\ Total([k \in DOMAIN sos |-> Len(sos[k].lines)]) = Total(size)
  BY <1>2 DEF sos
<1>8. Previewed = Over(Total(cost), 10000)
  <2>1. Previewed = Over(Total([k \in Parts |-> Costs(LinesOf(k))]), 10000)
    BY DEF Previewed, Costs, Cost
  <2>2. [k \in Parts |-> Costs(LinesOf(k))] = cost
    BY <1>1, <1>3 DEF PartFits
  <2> HIDE DEF cost
  <2> QED BY <2>1, <2>2
<1> HIDE DEF kept, charged, tax, extra, inv, ship, cost, size
<1>9. \A k \in 1 .. n :
         /\ kept[k] \in Int /\ charged[k] \in Int /\ tax[k] \in Int /\ extra[k] \in Int
         /\ inv[k] \in Int /\ ship[k] \in Int /\ cost[k] \in Int /\ size[k] \in Int
  <2> TAKE k \in 1 .. n
  <2>1. PartFits(k, sos[k])
    BY <1>3
  <2>2. /\ sos[k].payout + sos[k].commission \in Int /\ sos[k].tax \in Int
        /\ sos[k].subtotal - sos[k].discount + sos[k].shipping \in Int
        /\ sos[k].shippingTax \in Int /\ sos[k].shipping \in Int /\ Invoiced(sos[k]) \in Int
        /\ Costs(sos[k].lines) \in Int /\ Len(sos[k].lines) \in Int
    <3>1. /\ sos[k].payout \in Int /\ sos[k].commission \in Int /\ sos[k].tax \in Int
          /\ sos[k].subtotal \in Int /\ sos[k].discount \in Int
          /\ sos[k].shippingTax \in Int /\ sos[k].shipping \in Int /\ Invoiced(sos[k]) \in Int
          /\ Costs(sos[k].lines) \in Int /\ Len(sos[k].lines) \in Nat
      BY <2>1 DEF PartFits
    <3>2. /\ sos[k].payout + sos[k].commission \in Int
          /\ sos[k].subtotal - sos[k].discount + sos[k].shipping \in Int
      BY <3>1, PaidSums
    <3> QED BY <3>1, <3>2
  <2> QED BY <1>5, <2>2
<1> HIDE DEF all, due, goods, hall, hkept, hship, hgoods, hsize, c50, c102
<1>10. \A k \in 1 .. n :
         /\ all[k] \in Int /\ due[k] \in Int /\ goods[k] \in Int /\ hall[k] \in Int
         /\ hkept[k] \in Int /\ hship[k] \in Int /\ hgoods[k] \in Int /\ hsize[k] \in Int
         /\ c50[k] \in Int /\ c102[k] \in Int
  BY <1>6, <1>9
<1>11. \A k \in 1 .. n : due[k] - inv[k] =< c50[k] /\ inv[k] - due[k] =< c50[k]
  <2> TAKE k \in 1 .. n
  <2>1. SellerOrderTotal(sos[k]) = all[k]
    BY <1>4, <1>5, <1>6
  <2>3. PartFits(k, sos[k]) /\ extra[k] = sos[k].shippingTax /\ inv[k] = Invoiced(sos[k])
    BY <1>3, <1>5
  <2>2. 100 * all[k] - inv[k] - extra[k] =< 50 /\ inv[k] + extra[k] - 100 * all[k] =< 50
    BY <2>1, <2>3 DEF PartFits
  <2> QED BY <1>6, <1>9, <1>10, <2>2
<1>12. \A k \in 1 .. n : hkept[k] - due[k] =< c102[k] /\ due[k] - hkept[k] =< c102[k]
  <2> TAKE k \in 1 .. n
  <2>1. hkept[k] - inv[k] =< 52 /\ inv[k] - hkept[k] =< 52
    <3>0. PartFits(k, sos[k]) /\ kept[k] = sos[k].payout + sos[k].commission /\ inv[k] = Invoiced(sos[k])
      BY <1>3, <1>5
    <3>1. 100 * kept[k] - inv[k] =< 52 /\ inv[k] - 100 * kept[k] =< 52
      BY <3>0 DEF PartFits
    <3> QED BY <3>1, <1>6
  <2>2. due[k] - inv[k] =< 50 /\ inv[k] - due[k] =< 50
    BY <1>6, <1>11
  <2> QED BY <1>6, <1>9, <1>10, <2>1, <2>2
<1>13. \A k \in 1 .. n : hgoods[k] - cost[k] =< hsize[k] /\ cost[k] - hgoods[k] =< hsize[k]
  <2> TAKE k \in 1 .. n
  <2>1. /\ 100 * (inv[k] - 100 * ship[k]) - cost[k] =< 100 * size[k]
        /\ cost[k] - 100 * (inv[k] - 100 * ship[k]) =< 100 * size[k]
    BY <1>3, <1>5 DEF PartFits
  <2> QED BY <2>1, <1>6
<1> DEFINE I == 1 .. n
           Add(f) == SumFunctionOnSet(f, I)
<1>14. IsFiniteSet(I) /\ Cardinality(I) = n
  BY <1>1, Indexes
<1>15. /\ Total(kept) = Add(kept) /\ Total(charged) = Add(charged) /\ Total(tax) = Add(tax)
       /\ Total(extra) = Add(extra) /\ Total(inv) = Add(inv) /\ Total(ship) = Add(ship)
       /\ Total(cost) = Add(cost) /\ Total(size) = Add(size)
  <2>1. /\ kept \in [I -> Int] /\ charged \in [I -> Int] /\ tax \in [I -> Int] /\ extra \in [I -> Int]
        /\ inv \in [I -> Int] /\ ship \in [I -> Int] /\ cost \in [I -> Int] /\ size \in [I -> Int]
    <3>1. kept \in [I -> Int] /\ charged \in [I -> Int]
      BY <1>9 DEF kept, charged
    <3>2. tax \in [I -> Int] /\ extra \in [I -> Int]
      BY <1>9 DEF tax, extra
    <3>3. inv \in [I -> Int] /\ ship \in [I -> Int]
      BY <1>9 DEF inv, ship
    <3>4. cost \in [I -> Int] /\ size \in [I -> Int]
      BY <1>9 DEF cost, size
    <3> QED BY <3>1, <3>2, <3>3, <3>4
  <2> HIDE DEF I
  <2>2. Total(kept) = Add(kept) /\ Total(charged) = Add(charged)
    BY <2>1, TotalSum
  <2>3. Total(tax) = Add(tax) /\ Total(extra) = Add(extra)
    BY <2>1, TotalSum
  <2>4. Total(inv) = Add(inv) /\ Total(ship) = Add(ship)
    BY <2>1, TotalSum
  <2>5. Total(cost) = Add(cost) /\ Total(size) = Add(size)
    BY <2>1, TotalSum
  <2> QED BY <2>2, <2>3, <2>4, <2>5
<1>16. /\ Add(kept) \in Int /\ Add(charged) \in Int /\ Add(tax) \in Int /\ Add(extra) \in Int
       /\ Add(inv) \in Int /\ Add(ship) \in Int /\ Add(cost) \in Int /\ Add(size) \in Int
  <2>1. /\ \A k \in I : kept[k] \in Int
        /\ \A k \in I : charged[k] \in Int
        /\ \A k \in I : tax[k] \in Int
        /\ \A k \in I : extra[k] \in Int
        /\ \A k \in I : inv[k] \in Int
        /\ \A k \in I : ship[k] \in Int
        /\ \A k \in I : cost[k] \in Int
        /\ \A k \in I : size[k] \in Int
    BY <1>9
  <2> HIDE DEF I
  <2>2. Add(kept) \in Int
    BY <1>14, <2>1, SumType
  <2>3. Add(charged) \in Int
    BY <1>14, <2>1, SumType
  <2>4. Add(tax) \in Int
    BY <1>14, <2>1, SumType
  <2>5. Add(extra) \in Int
    BY <1>14, <2>1, SumType
  <2>6. Add(inv) \in Int
    BY <1>14, <2>1, SumType
  <2>7. Add(ship) \in Int
    BY <1>14, <2>1, SumType
  <2>8. Add(cost) \in Int
    BY <1>14, <2>1, SumType
  <2>9. Add(size) \in Int
    BY <1>14, <2>1, SumType
  <2> QED BY <2>2, <2>3, <2>4, <2>5, <2>6, <2>7, <2>8, <2>9
<1>17. /\ Add(all) = Add(charged) + Add(tax) /\ Add(hall) = Add(due) + Add(extra)
       /\ Add(inv) = Add(goods) + Add(hship)
  <2>1. \A k \in I : charged[k] \in Int /\ tax[k] \in Int /\ all[k] = charged[k] + tax[k]
    BY <1>6, <1>9
  <2>2. \A k \in I : due[k] \in Int /\ extra[k] \in Int /\ hall[k] = due[k] + extra[k]
    BY <1>6, <1>9, <1>10
  <2>3. \A k \in I : goods[k] \in Int /\ hship[k] \in Int /\ inv[k] = goods[k] + hship[k]
    BY <1>6, <1>9, <1>10
  <2> HIDE DEF I
  <2>4. Add(all) = Add(charged) + Add(tax)
    BY <1>14, <2>1, SumPlus
  <2>5. Add(hall) = Add(due) + Add(extra)
    BY <1>14, <2>2, SumPlus
  <2>6. Add(inv) = Add(goods) + Add(hship)
    BY <1>14, <2>3, SumPlus
  <2> QED BY <2>4, <2>5, <2>6
<1>18. /\ Add(hall) = 100 * Add(all) /\ Add(hkept) = 100 * Add(kept) /\ Add(hship) = 100 * Add(ship)
       /\ Add(hgoods) = 100 * Add(goods) /\ Add(hsize) = 100 * Add(size)
  <2>1. /\ \A k \in I : all[k] \in Int /\ hall[k] = 100 * all[k]
        /\ \A k \in I : kept[k] \in Int /\ hkept[k] = 100 * kept[k]
        /\ \A k \in I : ship[k] \in Int /\ hship[k] = 100 * ship[k]
        /\ \A k \in I : goods[k] \in Int /\ hgoods[k] = 100 * goods[k]
        /\ \A k \in I : size[k] \in Int /\ hsize[k] = 100 * size[k]
    BY <1>6, <1>9, <1>10
  <2> HIDE DEF I
  <2>2. Add(hall) = 100 * Add(all)
    BY <1>14, <2>1, SumHundred
  <2>3. Add(hkept) = 100 * Add(kept)
    BY <1>14, <2>1, SumHundred
  <2>4. Add(hship) = 100 * Add(ship)
    BY <1>14, <2>1, SumHundred
  <2>5. Add(hgoods) = 100 * Add(goods)
    BY <1>14, <2>1, SumHundred
  <2>6. Add(hsize) = 100 * Add(size)
    BY <1>14, <2>1, SumHundred
  <2> QED BY <2>2, <2>3, <2>4, <2>5, <2>6
<1>19. Add(c50) = 50 * n /\ Add(c102) = 102 * n
  <2>1. /\ \A k \in I : c50[k] = 50
        /\ \A k \in I : c102[k] = 102
        /\ 50 \in Int /\ 102 \in Int
    BY <1>6
  <2> HIDE DEF I
  <2>2. Add(c50) = 50 * Cardinality(I)
    BY <1>14, <2>1, SumConst
  <2>3. Add(c102) = 102 * Cardinality(I)
    BY <1>14, <2>1, SumConst
  <2> QED BY <1>14, <2>2, <2>3
<1>20. /\ Add(due) - Add(inv) =< Add(c50) /\ Add(inv) - Add(due) =< Add(c50)
       /\ Add(hkept) - Add(due) =< Add(c102) /\ Add(due) - Add(hkept) =< Add(c102)
       /\ Add(hgoods) - Add(cost) =< Add(hsize) /\ Add(cost) - Add(hgoods) =< Add(hsize)
  <2>1. \A k \in I : /\ due[k] \in Int /\ inv[k] \in Int /\ c50[k] \in Int
                     /\ due[k] - inv[k] =< c50[k] /\ inv[k] - due[k] =< c50[k]
    BY <1>9, <1>10, <1>11
  <2>2. \A k \in I : /\ hkept[k] \in Int /\ due[k] \in Int /\ c102[k] \in Int
                     /\ hkept[k] - due[k] =< c102[k] /\ due[k] - hkept[k] =< c102[k]
    BY <1>10, <1>12
  <2>3. \A k \in I : /\ hgoods[k] \in Int /\ cost[k] \in Int /\ hsize[k] \in Int
                     /\ hgoods[k] - cost[k] =< hsize[k] /\ cost[k] - hgoods[k] =< hsize[k]
    BY <1>9, <1>10, <1>13
  <2> HIDE DEF I
  <2>4. Add(due) - Add(inv) =< Add(c50) /\ Add(inv) - Add(due) =< Add(c50)
    BY <1>14, <2>1, SumWithin
  <2>5. Add(hkept) - Add(due) =< Add(c102) /\ Add(due) - Add(hkept) =< Add(c102)
    BY <1>14, <2>2, SumWithin
  <2>6. Add(hgoods) - Add(cost) =< Add(hsize) /\ Add(cost) - Add(hgoods) =< Add(hsize)
    BY <1>14, <2>3, SumWithin
  <2> QED BY <2>4, <2>5, <2>6
<1> HIDE DEF Add
<1>21. /\ Add(all) \in Int /\ Add(due) \in Int /\ Add(goods) \in Int
  <2>1. \A k \in I : due[k] \in Int /\ goods[k] \in Int
    BY <1>10
  <2> HIDE DEF I
  <2>2. Add(due) \in Int
    BY <1>14, <2>1, SumType DEF Add
  <2>3. Add(goods) \in Int
    BY <1>14, <2>1, SumType DEF Add
  <2> QED BY <1>16, <1>17, <2>2, <2>3
<1> DEFINE total == o.total
<1>22. total = Add(charged) + Paise(100 * Add(tax) - Add(extra))
  <2>1. total = Total([k \in DOMAIN sos |-> sos[k].subtotal - sos[k].discount + sos[k].shipping])
                + Paise(100 * Total([k \in DOMAIN sos |-> sos[k].tax])
                        - Total([k \in DOMAIN sos |-> sos[k].shippingTax]))
    BY DEF Composed, TotalAmount, MerchandiseTax, Sum, Tax, ShippingTax, sos
  <2> QED BY <2>1, <1>7, <1>15
<1> DEFINE preview == Previewed
<1>23. preview = Over(Add(cost), 10000)
  BY <1>8, <1>15
<1> HIDE DEF total, preview
<1> DEFINE a == [charged |-> Add(charged), tax |-> Add(tax), extra |-> Add(extra), due |-> Add(due),
                  inv |-> Add(inv), kept |-> Add(kept), ship |-> Add(ship), goods |-> Add(goods),
                  cost |-> Add(cost), size |-> Add(size), total |-> total, shown |-> preview]
<1>24. /\ a.charged = Add(charged) /\ a.tax = Add(tax) /\ a.extra = Add(extra) /\ a.due = Add(due)
       /\ a.inv = Add(inv) /\ a.kept = Add(kept) /\ a.ship = Add(ship) /\ a.goods = Add(goods)
       /\ a.cost = Add(cost) /\ a.size = Add(size) /\ a.total = total /\ a.shown = preview
  OBVIOUS
<1> HIDE DEF a
<1>25. /\ a.charged \in Int /\ a.tax \in Int /\ a.extra \in Int /\ a.due \in Int /\ a.inv \in Int
       /\ a.kept \in Int /\ a.ship \in Int /\ a.goods \in Int /\ a.cost \in Int /\ a.size \in Int
  BY <1>16, <1>21, <1>24
<1>26. /\ a.due - a.inv =< 50 * n /\ a.inv - a.due =< 50 * n
       /\ 100 * a.kept - a.due =< 102 * n /\ a.due - 100 * a.kept =< 102 * n
       /\ 100 * a.goods - a.cost =< 100 * a.size /\ a.cost - 100 * a.goods =< 100 * a.size
       /\ a.total = a.charged + Paise(100 * a.tax - a.extra) /\ a.shown = Over(a.cost, 10000)
       /\ a.inv = a.goods + 100 * a.ship
  BY <1>17, <1>18, <1>19, <1>20, <1>22, <1>23, <1>24
<1>27. a.due = 100 * (a.charged + a.tax) - a.extra
  <2>1. a.due + a.extra = 100 * (a.charged + a.tax)
    BY <1>17, <1>18, <1>24
  <2> QED BY <2>1, <1>25
<1>28. /\ 100 * Abs(a.total - a.kept) =< 102 * n + 50
       /\ Abs(100 * a.total - a.inv) =< 50 * (n + 1)
       /\ 100 * Abs(a.total - a.ship - a.shown) =< 50 * (n + 2) + a.size
  <2>1. Gathered(a, n)
    BY <1>25, <1>26, <1>27 DEF Gathered
  <2> QED BY <1>1, <2>1, Roundings
<1>29. /\ 100 * Abs(total - Add(kept)) =< 102 * n + 50
       /\ Abs(100 * total - Add(inv)) =< 50 * (n + 1)
       /\ 100 * Abs(total - Add(ship) - Previewed) =< 50 * (n + 2) + Add(size)
  BY <1>24, <1>28 DEF preview
<1>30. ASSUME NEW k \in Parts
       PROVE  LET g == Invoiced(sos[k]) - 100 * sos[k].shipping IN
              /\ Abs(100 * ReturnedGoods(sos[k]) - g) =< 50 * Len(sos[k].lines)
              /\ Abs(100 * SellerOrderTotal(sos[k]) - Invoiced(sos[k]) - sos[k].shippingTax) =< 50
  <2> DEFINE v == Invoiced(sos[k])
             s == sos[k].shipping
             r == ReturnedGoods(sos[k])
             st == SellerOrderTotal(sos[k])
             x == sos[k].shippingTax
             l == Len(sos[k].lines)
  <2>1. k \in 1 .. n
    BY <1>1
  <2>2. /\ v \in Int /\ s \in Int /\ r \in Int /\ x \in Int /\ l \in Nat
        /\ 100 * st - v - x =< 50 /\ v + x - 100 * st =< 50
        /\ 100 * r - (v - 100 * s) =< 50 * l /\ (v - 100 * s) - 100 * r =< 50 * l
    BY <1>3, <2>1 DEF PartFits
  <2>3. st \in Int
    <3>1. /\ sos[k].subtotal \in Int /\ sos[k].discount \in Int
          /\ sos[k].shipping \in Int /\ sos[k].tax \in Int
      BY <1>3, <2>1 DEF PartFits
    <3>2. st = sos[k].subtotal - sos[k].discount + sos[k].shipping + sos[k].tax
      BY <1>4, <2>1
    <3> HIDE DEF st
    <3> QED BY <3>1, <3>2
  <2> HIDE DEF v, s, r, st, x, l
  <2>4. Abs(100 * r - (v - 100 * s)) =< 50 * l
    BY <2>2 DEF Abs
  <2>5. Abs(100 * st - v - x) =< 50
    BY <2>2, <2>3 DEF Abs
  <2> QED BY <2>4, <2>5 DEF v, s, r, st, x, l
<1>31. /\ Sum(sos, LAMBDA so : so.payout + so.commission) = Add(kept)
       /\ Sum(sos, Invoiced) = Add(inv)
       /\ Sum(sos, LAMBDA so : so.shipping) = Add(ship)
       /\ Sum(sos, LAMBDA so : Len(so.lines)) = Add(size)
  BY <1>7, <1>15 DEF Sum
<1>32. Agree(o) <=>
         /\ 100 * Abs(total - Sum(sos, LAMBDA so : so.payout + so.commission)) =< 102 * n + 50
         /\ Abs(100 * total - Sum(sos, Invoiced)) =< 50 * (n + 1)
         /\ offer.kind # "none" =>
              100 * Abs(total - Sum(sos, LAMBDA so : so.shipping) - Previewed)
                =< 50 * (n + 2) + Sum(sos, LAMBDA so : Len(so.lines))
         /\ \A k \in Parts :
              LET g == Invoiced(sos[k]) - 100 * sos[k].shipping IN
              /\ Abs(100 * ReturnedGoods(sos[k]) - g) =< 50 * Len(sos[k].lines)
              /\ Abs(100 * SellerOrderTotal(sos[k]) - Invoiced(sos[k]) - sos[k].shippingTax) =< 50
  BY <1>2 DEF Agree, total, sos
<1> QED BY <1>29, <1>30, <1>31, <1>32

\* The lines of a seller order are those of the cart and the coupon.
LEMMA LinesStay ==
  ASSUME UNCHANGED <<basket, offer>>
  PROVE  Parts' = Parts /\ \A k \in Parts : LinesOf(k)' = LinesOf(k)
<1>1. Parts' = Parts
  BY DEF Parts
<1>2. ASSUME NEW k PROVE PricesOf(k)' = PricesOf(k)
  BY DEF PricesOf
<1>3. ASSUME NEW k PROVE Subtotal(k)' = Subtotal(k)
  BY <1>2 DEF Subtotal
<1>4. [k \in Parts |-> Subtotal(k)]' = [k \in Parts |-> Subtotal(k)]
  BY <1>1, <1>3
<1>5. Goods' = Goods
  BY <1>4 DEF Goods
<1>6. Discount' = Discount
  BY <1>5 DEF Discount, DiscountOn
<1>7. PerStore' = PerStore
  BY <1>4, <1>6 DEF PerStore
<1>8. ASSUME NEW k, NEW cut PROVE LinesCut(k, cut)' = LinesCut(k, cut)
  BY DEF LinesCut
<1>9. ASSUME NEW k \in Parts PROVE LinesOf(k)' = LinesOf(k)
  <2> DEFINE cut == Shares(PerStore[k], PricesOf(k))
  <2>1. cut' = cut
    BY <1>2, <1>7
  <2>2. LinesOf(k)' = LinesCut(k, cut)' /\ LinesOf(k) = LinesCut(k, cut)
    BY DEF LinesOf
  <2> QED BY <2>1, <2>2, <1>8
<1> QED BY <1>1, <1>9

\* An order goes on agreeing with the cart and the coupon it was made of.
LEMMA AgreeStays ==
  ASSUME UNCHANGED <<basket, offer>>, NEW o
  PROVE  (Covered(o)' <=> Covered(o)) /\ (Agree(o)' <=> Agree(o))
<1>1. Parts' = Parts /\ \A k \in Parts : LinesOf(k)' = LinesOf(k)
  BY LinesStay
<1>2. Previewed' = Previewed
  <2> DEFINE costs == [k \in Parts |-> Costs(LinesOf(k))]
  <2>1. Previewed = Over(Total(costs), 10000)
    BY DEF Previewed, Costs, Cost
  <2>2. Previewed' = Over(Total(costs'), 10000)
    BY DEF Previewed, Costs, Cost
  <2>3. costs' = costs
    BY <1>1
  <2> QED BY <2>1, <2>2, <2>3
<1>3. Covered(o)' <=> Covered(o)
  BY <1>1 DEF Covered
<1>4. Agree(o)' <=> Agree(o)
  BY <1>1, <1>2 DEF Agree, Sum
<1> QED BY <1>3, <1>4

\* What was quoted last is what the rates that are remembered come to.
Quoted ==
  order = {} /\ quote # <<>> =>
    \A k \in Parts : cached[k][FALSE] # Unset =>
      quote[k] = IF cached[k][FALSE] = InHouseOnly THEN InHouse(k) ELSE cached[k][FALSE]

\* The figures of an order agree, and it is charged what was quoted.
PricingInv == PricingTypeOK /\ Quoted /\ QuoteHonoured /\ FiguresAgree
\* What a seller's courier may answer.
FareSet == {NoFare} \union [charge : Fares, cash : BOOLEAN]
\* What may be remembered of it.
RateSet == {Unset, InHouseOnly} \union Fares

\* Nothing is quoted or placed at first.
LEMMA PricingStart == PricingInit => PricingInv
<1> SUFFICES ASSUME PricingInit PROVE PricingInv
  OBVIOUS
<1>1. order = {} /\ quote = <<>> /\ swings \in 0 .. MaxSwings
  BY PricingConstantsOK DEF PricingInit
<1>2. basket \in Baskets /\ offer \in Offers /\ config \in Configs
      /\ fare \in [Parts -> FareSet]
  BY DEF PricingInit, Parts, FareSet
<1>3. cached \in [Parts -> [BOOLEAN -> RateSet]]
  BY DEF PricingInit, Parts, RateSet
<1>4. PricingTypeOK
  BY <1>1, <1>2, <1>3 DEF PricingTypeOK, FareSet, RateSet
<1>5. Quoted /\ QuoteHonoured /\ FiguresAgree
  BY <1>1 DEF Quoted, QuoteHonoured, FiguresAgree
<1> QED BY <1>4, <1>5 DEF PricingInv

\* What an answer comes to, and what is remembered of it.
LEMMA Rates ==
  ASSUME PricingTypeOK, NEW cod \in BOOLEAN, NEW lost, Remember(cod, lost)
  PROVE  /\ cached' \in [Parts -> [BOOLEAN -> RateSet]]
         /\ \A k \in Parts : /\ cached'[k][cod] # Unset => cached'[k][cod] = LiveRate(k, cod, lost)
                             /\ LiveRate(k, cod, lost) \in {InHouseOnly} \union Fares
<1>1. /\ cached \in [Parts -> [BOOLEAN -> RateSet]] /\ fare \in [Parts -> FareSet]
  BY DEF PricingTypeOK, RateSet, FareSet
<1>2. \A k \in Parts : Answer(k, cod) \in {InHouseOnly} \union Fares
  BY <1>1 DEF Answer, FareSet
<1>3. \A k \in Parts : Answer(k, cod) # Unset
  BY <1>2, PricingConstantsOK DEF Unset, InHouseOnly
<1> DEFINE Kept(k) == IF k \in Unknown(cod) \ lost
                      THEN [cached[k] EXCEPT ![cod] = Answer(k, cod)] ELSE cached[k]
<1>4. ASSUME NEW k \in Parts PROVE Kept(k) \in [BOOLEAN -> RateSet]
  BY <1>1, <1>2 DEF RateSet
<1>5. cached' = [k \in Parts |-> Kept(k)]
  BY DEF Remember
<1> HIDE DEF Kept
<1>6. cached' \in [Parts -> [BOOLEAN -> RateSet]]
  BY <1>4, <1>5
<1>7. ASSUME NEW k \in Parts
      PROVE  /\ cached'[k][cod] # Unset => cached'[k][cod] = LiveRate(k, cod, lost)
             /\ LiveRate(k, cod, lost) \in {InHouseOnly} \union Fares
  <2>1. cached'[k] = Kept(k) /\ cached[k] \in [BOOLEAN -> RateSet]
    BY <1>1, <1>5
  <2>2. CASE k \notin Unknown(cod)
    <3>1. cached'[k] = cached[k] /\ cached[k][cod] # Unset /\ LiveRate(k, cod, lost) = cached[k][cod]
      BY <2>1, <2>2 DEF Kept, Unknown, LiveRate
    <3> QED BY <2>1, <3>1 DEF RateSet
  <2>3. CASE k \in Unknown(cod) /\ k \in lost
    <3>1. cached'[k] = cached[k] /\ cached[k][cod] = Unset /\ LiveRate(k, cod, lost) = InHouseOnly
      BY <2>1, <2>3 DEF Kept, Unknown, LiveRate
    <3> QED BY <3>1
  <2>4. CASE k \in Unknown(cod) /\ k \notin lost
    <3>1. cached'[k][cod] = Answer(k, cod) /\ LiveRate(k, cod, lost) = Answer(k, cod)
      BY <2>1, <2>4 DEF Kept, LiveRate
    <3> QED BY <3>1, <1>2
  <2> QED BY <2>2, <2>3, <2>4
<1> QED BY <1>6, <1>7

\* A quote is what its rates come to.
LEMMA QuoteKeeps ==
  ASSUME PricingInv, Quote
  PROVE  PricingInv'
<1>0. PricingTypeOK
  BY DEF PricingInv
<1>1. PICK lost \in SUBSET Unknown(FALSE) :
        /\ quote' = [k \in Parts |-> LET r == LiveRate(k, FALSE, lost)
                                     IN  IF r = InHouseOnly THEN InHouse(k) ELSE r]
        /\ Remember(FALSE, lost)
  BY DEF Quote
<1>2. order = {} /\ UNCHANGED <<basket, offer, config, fare, order, swings>>
  BY DEF Quote
<1>3. /\ cached' \in [Parts -> [BOOLEAN -> RateSet]]
      /\ \A k \in Parts : /\ cached'[k][FALSE] # Unset => cached'[k][FALSE] = LiveRate(k, FALSE, lost)
                          /\ LiveRate(k, FALSE, lost) \in {InHouseOnly} \union Fares
  BY <1>0, <1>1, Rates
<1>4. \A k \in Parts : InHouse(k) \in Nat
  BY <1>0, InHouseNat DEF PricingTypeOK
<1>5. Parts' = Parts /\ \A k \in Parts : InHouse(k)' = InHouse(k)
  BY <1>2 DEF Parts, InHouse, Subtotal, Weight, PricesOf
<1>6. quote' \in [Parts -> Nat]
  <2>1. \A k \in Parts : LiveRate(k, FALSE, lost) # InHouseOnly => LiveRate(k, FALSE, lost) \in Nat
    BY <1>3, PricingConstantsOK
  <2> QED BY <1>1, <1>4, <2>1
<1>7. Quoted'
  BY <1>1, <1>3, <1>5 DEF Quoted
<1>8. PricingTypeOK' /\ QuoteHonoured' /\ FiguresAgree'
  BY <1>0, <1>2, <1>3, <1>5, <1>6 DEF PricingTypeOK, QuoteHonoured, FiguresAgree, RateSet
<1> QED BY <1>7, <1>8 DEF PricingInv

\* The order of a cart whose rates are all remembered charges what was quoted.
LEMMA PlaceKeeps ==
  ASSUME PricingInv, NEW cod \in BOOLEAN, PlaceOrder(cod)
  PROVE  PricingInv'
<1>0. PricingTypeOK /\ Quoted
  BY DEF PricingInv
<1>1. PICK lost \in SUBSET Unknown(cod) :
        /\ order' = {[cod |-> cod, orders |-> [k \in Parts |-> SellerOrder(k, LiveRate(k, cod, lost))],
                      total |-> TotalAmount([k \in Parts |-> SellerOrder(k, LiveRate(k, cod, lost))]),
                      asked |-> Unknown(cod) # {}]}
        /\ Remember(cod, lost)
  BY DEF PlaceOrder
<1>2. order = {} /\ UNCHANGED <<basket, offer, config, fare, quote, swings>>
  BY DEF PlaceOrder
<1>3. /\ cached' \in [Parts -> [BOOLEAN -> RateSet]]
      /\ \A k \in Parts : LiveRate(k, cod, lost) \in {InHouseOnly} \union Fares
  BY <1>0, <1>1, Rates
<1>4. Parts' = Parts
  BY <1>2 DEF Parts
<1> DEFINE sos == [k \in Parts |-> SellerOrder(k, LiveRate(k, cod, lost))]
<1>5. ASSUME NEW k \in Parts PROVE sos[k].shipping \in Nat /\ sos[k].payout \in Nat
  <2>1. basket \in Baskets /\ offer \in Offers /\ config \in Configs
    BY <1>0 DEF PricingTypeOK
  <2>2. LiveRate(k, cod, lost) # InHouseOnly => LiveRate(k, cod, lost) \in Nat
    BY <1>3, PricingConstantsOK
  <2>3. sos[k] = SellerOrder(k, LiveRate(k, cod, lost))
    OBVIOUS
  <2> HIDE DEF sos
  <2> QED BY <2>1, <2>2, <2>3, PartNat
<1>6. \A k \in Parts : sos[k].shipping = IF LiveRate(k, cod, lost) = InHouseOnly THEN InHouse(k)
                                         ELSE LiveRate(k, cod, lost)
  BY DEF SellerOrder, SellerOrderOf
<1>7. \A o \in order' : o.orders = sos /\ o.cod = cod /\ (o.asked <=> Unknown(cod) # {})
  <2> DEFINE asks  == Unknown(cod) # {}
             total == TotalAmount(sos)
  <2>1. order' = {[cod |-> cod, orders |-> sos, total |-> total, asked |-> asks]}
    BY <1>1
  <2> HIDE DEF sos, total
  <2>2. \A o \in order' : o.orders = sos /\ o.cod = cod /\ o.asked = asks
    BY <2>1
  <2> QED BY <2>2
<1>11. \A o \in order' : Composed(o)
  <2> TAKE o \in order'
  <2> DEFINE asks  == Unknown(cod) # {}
             total == TotalAmount(sos)
  <2>1. order' = {[cod |-> cod, orders |-> sos, total |-> total, asked |-> asks]}
    BY <1>1
  <2>2. sos = [k \in Parts |-> sos[k]]
    OBVIOUS
  <2>3. ASSUME NEW k \in Parts
        PROVE  \E live : (live # InHouseOnly => live \in Nat) /\ sos[k] = SellerOrder(k, live)
    <3>1. LiveRate(k, cod, lost) # InHouseOnly => LiveRate(k, cod, lost) \in Nat
      BY <1>3, PricingConstantsOK
    <3>2. sos[k] = SellerOrder(k, LiveRate(k, cod, lost))
      OBVIOUS
    <3> HIDE DEF sos
    <3> QED BY <3>1, <3>2
  <2> HIDE DEF sos, total
  <2>4. o.orders = sos /\ o.total = total
    BY <2>1
  <2>5. o.orders = [k \in Parts |-> o.orders[k]]
    BY <2>2, <2>4
  <2>6. o.total = TotalAmount(o.orders)
    BY <2>4 DEF total
  <2>7. \A k \in Parts : \E live : /\ live # InHouseOnly => live \in Nat
                                   /\ o.orders[k] = SellerOrder(k, live)
    BY <2>3, <2>4
  <2> QED BY <2>5, <2>6, <2>7 DEF Composed
<1>12. FiguresAgree'
  <2> SUFFICES ASSUME NEW o \in order', Covered(o)' PROVE Agree(o)'
    BY DEF FiguresAgree
  <2>1. UNCHANGED <<basket, offer>>
    BY <1>2
  <2>2. Covered(o)
    BY <2>1, AgreeStays
  <2>3. basket \in Baskets /\ offer \in Offers /\ config \in Configs
    BY <1>0 DEF PricingTypeOK
  <2>4. Agree(o)
    BY <1>11, <2>2, <2>3, OrderAgrees
  <2> QED BY <2>1, <2>4, AgreeStays
<1> HIDE DEF sos
<1>8. PricingTypeOK'
  <2>1. \A o \in order', k \in Parts' : {o.orders[k].shipping, o.orders[k].payout} \subseteq Nat
    BY <1>4, <1>5, <1>7
  <2> QED BY <1>0, <1>2, <1>3, <1>4, <2>1 DEF PricingTypeOK, RateSet
<1>9. QuoteHonoured'
  <2> SUFFICES ASSUME NEW o \in order', quote' # <<>>, ~o.cod, ~o.asked, NEW k \in Parts'
               PROVE  o.orders[k].shipping = quote'[k]
    BY DEF QuoteHonoured
  <2>1. cod = FALSE /\ Unknown(cod) = {} /\ k \in Parts /\ o.orders[k] = sos[k]
    BY <1>4, <1>7
  <2>2. cached[k][FALSE] # Unset /\ LiveRate(k, cod, lost) = cached[k][FALSE]
    BY <2>1 DEF Unknown, LiveRate
  <2>3. quote[k] = IF cached[k][FALSE] = InHouseOnly THEN InHouse(k) ELSE cached[k][FALSE]
    BY <1>0, <1>2, <2>1, <2>2 DEF Quoted
  <2> QED BY <1>2, <1>6, <2>1, <2>2, <2>3
<1>10. Quoted'
  BY <1>1 DEF Quoted
<1> QED BY <1>8, <1>9, <1>10, <1>12 DEF PricingInv

\* Every step towards an order keeps what was quoted.
LEMMA PricingGoesOn ==
  ASSUME PricingInv, [PricingNext]_pricingVars
  PROVE  PricingInv'
<1>1. CASE UNCHANGED pricingVars
  <2>1. Parts' = Parts /\ \A k \in Parts : InHouse(k)' = InHouse(k)
    BY <1>1 DEF pricingVars, Parts, InHouse, Subtotal, Weight, PricesOf
  <2>2. FiguresAgree'
    <3> SUFFICES ASSUME NEW o \in order', Covered(o)' PROVE Agree(o)'
      BY DEF FiguresAgree
    <3>1. UNCHANGED <<basket, offer>> /\ o \in order
      BY <1>1 DEF pricingVars
    <3>2. Covered(o)
      BY <3>1, AgreeStays
    <3>3. Agree(o)
      BY <3>1, <3>2 DEF PricingInv, FiguresAgree
    <3> QED BY <3>1, <3>3, AgreeStays
  <2>3. PricingTypeOK' /\ Quoted' /\ QuoteHonoured'
    BY <1>1, <2>1 DEF pricingVars, PricingInv, PricingTypeOK, Quoted, QuoteHonoured
  <2> QED BY <2>2, <2>3 DEF PricingInv
<1>2. CASE FareChanges
  <2>1. Parts' = Parts /\ \A k \in Parts : InHouse(k)' = InHouse(k)
    BY <1>2 DEF FareChanges, Parts, InHouse, Subtotal, Weight, PricesOf
  <2>2. UNCHANGED <<basket, offer, config, cached, quote, order>>
    BY <1>2 DEF FareChanges
  <2>3. fare' \in [Parts -> FareSet]
    BY <1>2 DEF FareChanges, PricingInv, PricingTypeOK, FareSet
  <2>4. swings' \in 0 .. MaxSwings
    BY <1>2, PricingConstantsOK DEF FareChanges, PricingInv, PricingTypeOK
  <2>5. PricingTypeOK'
    BY <2>1, <2>2, <2>3, <2>4 DEF PricingInv, PricingTypeOK, FareSet
  <2>6. FiguresAgree'
    BY <1>2, <2>2 DEF FareChanges, FiguresAgree
  <2> QED BY <2>1, <2>2, <2>5, <2>6 DEF PricingInv, Quoted, QuoteHonoured
<1>3. CASE RateExpires
  <2>1. Parts' = Parts /\ \A k \in Parts : InHouse(k)' = InHouse(k)
    BY <1>3 DEF RateExpires, Parts, InHouse, Subtotal, Weight, PricesOf
  <2>2. order = {} /\ UNCHANGED <<basket, offer, config, fare, quote, order, swings>>
    BY <1>3 DEF RateExpires
  <2>3. PICK k \in Parts, cod \in BOOLEAN : cached' = [cached EXCEPT ![k][cod] = Unset]
    BY <1>3 DEF RateExpires
  <2>4. cached \in [Parts -> [BOOLEAN -> RateSet]]
    BY DEF PricingInv, PricingTypeOK, RateSet
  <2>5. cached' \in [Parts -> [BOOLEAN -> RateSet]]
    BY <2>3, <2>4 DEF RateSet
  <2>6. \A i \in Parts : cached'[i][FALSE] # Unset => cached'[i][FALSE] = cached[i][FALSE]
    BY <2>3, <2>4
  <2>7. PricingTypeOK'
    BY <2>1, <2>2, <2>5 DEF PricingInv, PricingTypeOK, RateSet
  <2>8. Quoted'
    BY <2>1, <2>2, <2>6 DEF PricingInv, Quoted
  <2> QED BY <2>1, <2>2, <2>7, <2>8 DEF PricingInv, QuoteHonoured, FiguresAgree
<1> QED BY <1>1, <1>2, <1>3, QuoteKeeps, PlaceKeeps DEF PricingNext

-----------------------------------------------------------------------------
(***************************************************************************)
(* Invoices.                                                               *)
(***************************************************************************)
JobSet == [do : {"idle", "reserve", "render", "link"}, of : SellerOrders \cup {"none"},
           bound : Numbers \cup {NoNumber}]

\* A job that renders or links has an order, and a job that does has the number of one.
InvoiceInv ==
  /\ InvoiceTypeOK /\ NumbersGapless
  /\ \A c \in Clerks : /\ ijob[c].do # "idle" => ijob[c].of \in SellerOrders
                       /\ ijob[c].do \in {"render", "link"} => ijob[c].bound \in Numbers

\* A seller starts with no invoices.
LEMMA InvoicesStart == InvoiceInit => InvoiceInv
<1> SUFFICES ASSUME InvoiceInit PROVE InvoiceInv
  OBVIOUS
<1>1. ijob \in [Clerks -> JobSet] /\ \A c \in Clerks : ijob[c].do = "idle"
  BY DEF InvoiceInit, JobSet, IdleJob
<1>2. \A o \in SellerOrders : number[o] = NoNumber
  BY DEF InvoiceInit
<1>3. NumbersGapless
  <2>1. ASSUME NEW v \in Vendors, NEW y \in Years
        PROVE  {number[o].seq : o \in {p \in SellerOrders : SellerOf[p] = v /\ number[p].year = y}}
                 = 1 .. (nextSeq[v][y] - 1)
    <3>1. \A p \in SellerOrders : number[p].year # y
      BY <1>2, InvoiceConstantsOK DEF NoNumber
    <3>2. nextSeq[v][y] = 1
      BY DEF InvoiceInit
    <3>3. 1 .. (nextSeq[v][y] - 1) = {}
      BY <3>2
    <3> QED BY <3>1, <3>3
  <2> QED BY <1>2, <2>1 DEF NumbersGapless
<1>4. InvoiceTypeOK
  BY <1>1, InvoiceConstantsOK DEF InvoiceInit, InvoiceTypeOK, JobSet
<1> QED BY <1>1, <1>3, <1>4 DEF InvoiceInv

\* What a job is given, it has, and no other is disturbed.
LEMMA JobTakes ==
  ASSUME ijob \in [Clerks -> JobSet], NEW c \in Clerks, NEW t \in JobSet, ijob' = [ijob EXCEPT ![c] = t]
  PROVE  /\ ijob' \in [Clerks -> JobSet] /\ ijob'[c] = t
         /\ \A d \in Clerks : d # c => ijob'[d] = ijob[d]
OBVIOUS

\* A job at rest has a task of the right kind.
LEMMA JobRests == IdleJob \in JobSet /\ IdleJob.do = "idle"
BY DEF IdleJob, JobSet

\* The type of the invoices, with a name for that of the tasks.
LEMMA InvoiceTyped ==
  InvoiceTypeOK <=> /\ year \in Years /\ nextSeq \in [Vendors -> [Years -> Nat \ {0}]]
                    /\ {number, stored} \subseteq [SellerOrders -> Numbers \cup {NoNumber}]
                    /\ files \subseteq Vendors \X Numbers
                    /\ ijob \in [Clerks -> JobSet] /\ renders \in Nat
BY DEF InvoiceTypeOK, JobSet

\* The type of the invoices after a step.
LEMMA StaysTyped ==
  ASSUME year' \in Years, nextSeq' \in [Vendors -> [Years -> Nat \ {0}]],
         {number', stored'} \subseteq [SellerOrders -> Numbers \cup {NoNumber}],
         files' \subseteq Vendors \X Numbers, ijob' \in [Clerks -> JobSet], renders' \in Nat
  PROVE  InvoiceTypeOK'
BY DEF InvoiceTypeOK, JobSet

\* The task of a job, and what it is about.
JobFits(t) == /\ t.do # "idle" => t.of \in SellerOrders
              /\ t.do \in {"render", "link"} => t.bound \in Numbers

\* A job that goes on to another task.
LEMMA JobGoesOn ==
  ASSUME InvoiceInv, NEW c \in Clerks, NEW t \in JobSet, JobFits(t), ijob' = [ijob EXCEPT ![c] = t]
  PROVE  /\ ijob' \in [Clerks -> JobSet]
         /\ \A d \in Clerks : /\ ijob'[d].do # "idle" => ijob'[d].of \in SellerOrders
                              /\ ijob'[d].do \in {"render", "link"} => ijob'[d].bound \in Numbers
<1>1. ijob \in [Clerks -> JobSet] /\ \A d \in Clerks : JobFits(ijob[d])
  BY InvoiceTyped DEF InvoiceInv, JobFits
<1>2. ijob' \in [Clerks -> JobSet] /\ \A d \in Clerks : JobFits(ijob'[d])
  BY <1>1, JobTakes
<1> QED BY <1>2 DEF JobFits

\* A task of a job is of the right kind.
LEMMA StepFits ==
  ASSUME NEW d \in {"reserve", "render", "link"}, NEW o \in SellerOrders,
         NEW n \in Numbers \cup {NoNumber}, d # "reserve" => n \in Numbers
  PROVE  [do |-> d, of |-> o, bound |-> n] \in JobSet /\ JobFits([do |-> d, of |-> o, bound |-> n])
BY DEF JobSet, JobFits

\* No number counts as one without its seller's order.
LEMMA NotANumber == NoNumber \notin Numbers
BY DEF NoNumber, Numbers

\* Allocation keeps the numbers consecutive.
LEMMA AllocateKeeps ==
  ASSUME InvoiceTypeOK, NumbersGapless, NEW o \in SellerOrders, Allocate(o), UNCHANGED year
  PROVE  /\ nextSeq' \in [Vendors -> [Years -> Nat \ {0}]]
         /\ number' \in [SellerOrders -> Numbers \cup {NoNumber}] /\ NumbersGapless'
<1>1. /\ nextSeq \in [Vendors -> [Years -> Nat \ {0}]] /\ year \in Years
      /\ number \in [SellerOrders -> Numbers \cup {NoNumber}]
  BY DEF InvoiceTypeOK
<1> DEFINE v == SellerOf[o]  k == nextSeq[v][year]
<1>2. CASE UNCHANGED <<nextSeq, number>>
  BY <1>1, <1>2 DEF NumbersGapless
<1>3. CASE /\ number[o] = NoNumber /\ ~Taken(Printed(v))
           /\ nextSeq' = [nextSeq EXCEPT ![v][year] = @ + 1]
           /\ number' = [number EXCEPT ![o] = Printed(v)]
  <2>1. v \in Vendors /\ k \in Nat \ {0}
    BY <1>1, InvoiceConstantsOK DEF Vendors
  <2>2. /\ Printed(v) \in Numbers /\ Printed(v).seq = k /\ Printed(v).year = year
    BY <1>1, <2>1 DEF Printed, Numbers, Codes
  <2>3. /\ number' \in [SellerOrders -> Numbers \cup {NoNumber}]
        /\ number'[o] = Printed(v) /\ \A p \in SellerOrders \ {o} : number'[p] = number[p]
    BY <1>1, <1>3, <2>2
  <2>4. /\ nextSeq' \in [Vendors -> [Years -> Nat \ {0}]] /\ nextSeq'[v][year] = k + 1
        /\ \A u \in Vendors, y \in Years : u # v \/ y # year => nextSeq'[u][y] = nextSeq[u][y]
    BY <1>1, <1>3, <2>1
  <2>5. number[o].year = "none" /\ year # "none"
    BY <1>1, <1>3, InvoiceConstantsOK DEF NoNumber
  <2>6. \A p \in SellerOrders : number[p] # Printed(v)
    BY <1>3 DEF Taken
  <2> HIDE DEF v, k
  <2>7. ASSUME NEW u \in Vendors, NEW y \in Years
        PROVE  {number'[p].seq : p \in {q \in SellerOrders : SellerOf[q] = u /\ number'[q].year = y}}
                 = 1 .. (nextSeq'[u][y] - 1)
    <3> DEFINE before == {q \in SellerOrders : SellerOf[q] = u /\ number[q].year = y}
               after  == {q \in SellerOrders : SellerOf[q] = u /\ number'[q].year = y}
    <3>1. {number[p].seq : p \in before} = 1 .. (nextSeq[u][y] - 1)
      BY DEF NumbersGapless
    <3>2. o \notin before
      BY <2>5, InvoiceConstantsOK
    <3>3. CASE u = v /\ y = year
      <4>1. after = before \cup {o}
        BY <2>2, <2>3, <3>3 DEF v
      <4>2. \A p \in before : number'[p].seq = number[p].seq
        BY <2>3, <3>2
      <4>3. number'[o].seq = k
        BY <2>2, <2>3
      <4> HIDE DEF before, after
      <4>4. {number'[p].seq : p \in after} = {number[p].seq : p \in before} \cup {k}
        BY <4>1, <4>2, <4>3
      <4>5. 1 .. (nextSeq'[u][y] - 1) = (1 .. (nextSeq[u][y] - 1)) \cup {k}
        <5>1. nextSeq[u][y] = k /\ nextSeq'[u][y] = k + 1
          BY <2>4, <3>3 DEF k
        <5> QED BY <2>1, <5>1
      <4> QED BY <3>1, <4>4, <4>5 DEF after
    <3>4. CASE u # v \/ y # year
      <4>1. o \notin after
        BY <2>2, <2>3, <3>4 DEF v
      <4>2. after = before
        BY <2>3, <3>2, <4>1
      <4>3. \A p \in before : number'[p].seq = number[p].seq
        BY <2>3, <3>2
      <4>4. nextSeq'[u][y] = nextSeq[u][y]
        BY <2>4, <3>4
      <4> HIDE DEF before, after
      <4>5. {number'[p].seq : p \in after} = {number[p].seq : p \in before}
        BY <4>2, <4>3
      <4> QED BY <3>1, <4>4, <4>5 DEF after
    <3> QED BY <3>3, <3>4
  <2>8. \A p, q \in SellerOrders : p # q /\ number'[p] = number'[q] => number'[p] = NoNumber
    BY <2>3, <2>6 DEF NumbersGapless
  <2> QED BY <2>3, <2>4, <2>7, <2>8 DEF NumbersGapless
<1> QED BY <1>2, <1>3 DEF Allocate

\* Every step of a job keeps the numbers consecutive.
LEMMA InvoicesGoOn ==
  ASSUME InvoiceInv, [InvoiceNext]_invoiceVars
  PROVE  InvoiceInv'
<1>0. /\ year \in Years /\ nextSeq \in [Vendors -> [Years -> Nat \ {0}]]
      /\ number \in [SellerOrders -> Numbers \cup {NoNumber}]
      /\ stored \in [SellerOrders -> Numbers \cup {NoNumber}]
      /\ files \subseteq Vendors \X Numbers
      /\ ijob \in [Clerks -> JobSet] /\ renders \in Nat
      /\ InvoiceTypeOK /\ NumbersGapless
      /\ \A d \in Clerks : JobFits(ijob[d])
  BY InvoiceTyped DEF InvoiceInv, JobFits
<1>91. ASSUME UNCHANGED <<number, nextSeq>> PROVE NumbersGapless'
  BY <1>0, <1>91 DEF NumbersGapless
<1>92. ASSUME NEW c \in Clerks, IRest(c)
      PROVE  /\ ijob' \in [Clerks -> JobSet]
             /\ \A d \in Clerks : /\ ijob'[d].do # "idle" => ijob'[d].of \in SellerOrders
                                  /\ ijob'[d].do \in {"render", "link"} => ijob'[d].bound \in Numbers
  BY <1>92, JobGoesOn, JobRests DEF IRest, JobFits
<1>93. ASSUME NEW c \in Clerks, NEW d \in {"reserve", "render", "link"}, NEW o \in SellerOrders,
             NEW n \in Numbers \cup {NoNumber}, d # "reserve" => n \in Numbers, IStep(c, d, o, n)
      PROVE  /\ ijob' \in [Clerks -> JobSet]
             /\ \A e \in Clerks : /\ ijob'[e].do # "idle" => ijob'[e].of \in SellerOrders
                                  /\ ijob'[e].do \in {"render", "link"} => ijob'[e].bound \in Numbers
  BY <1>93, JobGoesOn, StepFits DEF IStep
<1>1. CASE UNCHANGED invoiceVars
  BY <1>1 DEF invoiceVars, InvoiceInv, InvoiceTypeOK, NumbersGapless
<1>2. ASSUME NEW y \in Years, NewYear(y) PROVE InvoiceInv'
  <2>1. year' \in Years /\ UNCHANGED <<nextSeq, number, stored, files, ijob, renders>>
    BY <1>2 DEF NewYear
  <2> QED BY <1>91, <2>1 DEF InvoiceInv, InvoiceTypeOK
<1>3. ASSUME NEW c \in Clerks, NEW o \in SellerOrders, Generate(c, o) PROVE InvoiceInv'
  <2>1. IStep(c, "reserve", o, NoNumber) /\ UNCHANGED <<year, nextSeq, number, stored, files, renders>>
    BY <1>3 DEF Generate
  <2>2. InvoiceTypeOK'
    BY <1>0, <1>93, <2>1, StaysTyped
  <2> QED BY <1>91, <1>93, <2>1, <2>2 DEF InvoiceInv
<1>4. ASSUME NEW c \in Clerks, NEW o \in SellerOrders, Regenerate(c, o) PROVE InvoiceInv'
  <2>1. UNCHANGED <<year, nextSeq, number, files, renders>>
    BY <1>4 DEF Regenerate
  <2>2. CASE number[o] = NoNumber
    <3>1. /\ stored' = [stored EXCEPT ![o] = NoNumber] /\ IStep(c, "reserve", o, NoNumber)
      BY <1>4, <2>2 DEF Regenerate
    <3>2. stored' \in [SellerOrders -> Numbers \cup {NoNumber}]
      BY <1>0, <3>1
    <3>3. InvoiceTypeOK'
      BY <1>0, <1>93, <2>1, <3>1, <3>2, StaysTyped
    <3> QED BY <1>91, <1>93, <2>1, <3>1, <3>3 DEF InvoiceInv
  <2>3. CASE number[o] # NoNumber
    <3>1. stored' = stored /\ IStep(c, "render", o, number[o])
      BY <1>4, <2>3 DEF Regenerate
    <3>2. number[o] \in Numbers
      BY <1>0, <2>3
    <3>3. InvoiceTypeOK'
      BY <1>0, <1>93, <2>1, <3>1, <3>2, StaysTyped
    <3> QED BY <1>91, <1>93, <2>1, <3>1, <3>2, <3>3 DEF InvoiceInv
  <2> QED BY <2>2, <2>3
<1>5. ASSUME NEW c \in Clerks, Reserve(c) PROVE InvoiceInv'
  <2> DEFINE o == ijob[c].of
  <2>1. /\ Allocate(o) /\ UNCHANGED <<year, stored, files, renders>> /\ ijob[c].do = "reserve"
    BY <1>5 DEF Reserve
  <2>2. o \in SellerOrders
    BY <1>0, <2>1 DEF JobFits
  <2>3. /\ nextSeq' \in [Vendors -> [Years -> Nat \ {0}]]
        /\ number' \in [SellerOrders -> Numbers \cup {NoNumber}] /\ NumbersGapless'
    BY <1>0, <2>1, <2>2, AllocateKeeps
  <2>4. CASE number'[o] = NoNumber
    <3>1. IRest(c)
      BY <1>5, <2>4 DEF Reserve
    <3>2. InvoiceTypeOK'
      BY <1>0, <1>92, <2>1, <2>3, <3>1, StaysTyped
    <3> QED BY <1>92, <2>3, <3>1, <3>2 DEF InvoiceInv
  <2>5. CASE number'[o] # NoNumber
    <3>1. IStep(c, "render", o, number'[o]) /\ number'[o] \in Numbers
      BY <1>5, <2>2, <2>3, <2>5 DEF Reserve
    <3>2. InvoiceTypeOK'
      BY <1>0, <1>93, <2>1, <2>2, <2>3, <3>1, StaysTyped
    <3> QED BY <1>93, <2>2, <2>3, <3>1, <3>2 DEF InvoiceInv
  <2> QED BY <2>4, <2>5
<1>6. ASSUME NEW c \in Clerks, Render(c) PROVE InvoiceInv'
  <2>1. /\ renders' \in Nat /\ UNCHANGED <<year, nextSeq, number, stored>> /\ ijob[c].do = "render"
    BY <1>0, <1>6 DEF Render
  <2>2. ijob[c].of \in SellerOrders /\ ijob[c].bound \in Numbers
    BY <1>0, <2>1 DEF JobFits
  <2>3. CASE IRest(c) /\ UNCHANGED files
    <3>1. InvoiceTypeOK'
      BY <1>0, <1>92, <2>1, <2>3, StaysTyped
    <3> QED BY <1>91, <1>92, <2>1, <2>3, <3>1 DEF InvoiceInv
  <2>4. CASE /\ files' = files \cup {<<SellerOf[ijob[c].of], ijob[c].bound>>}
             /\ IStep(c, "link", ijob[c].of, ijob[c].bound)
    <3>1. SellerOf[ijob[c].of] \in Vendors
      BY <2>2, InvoiceConstantsOK DEF Vendors
    <3>2. files' \subseteq Vendors \X Numbers
      BY <1>0, <2>2, <2>4, <3>1
    <3>3. InvoiceTypeOK'
      BY <1>0, <1>93, <2>1, <2>2, <2>4, <3>2, StaysTyped
    <3> QED BY <1>91, <1>93, <2>1, <2>2, <2>4, <3>3 DEF InvoiceInv
  <2> QED BY <1>6, <2>3, <2>4 DEF Render
<1>7. ASSUME NEW c \in Clerks, LinkFile(c) PROVE InvoiceInv'
  <2>1. /\ stored' = [stored EXCEPT ![ijob[c].of] = ijob[c].bound] /\ IRest(c)
        /\ UNCHANGED <<year, nextSeq, number, files, renders>> /\ ijob[c].do = "link"
    BY <1>7 DEF LinkFile
  <2>2. ijob[c].of \in SellerOrders /\ ijob[c].bound \in Numbers
    BY <1>0, <2>1 DEF JobFits
  <2>3. stored' \in [SellerOrders -> Numbers \cup {NoNumber}]
    BY <1>0, <2>1, <2>2
  <2>4. InvoiceTypeOK'
    BY <1>0, <1>92, <2>1, <2>3, StaysTyped
  <2> QED BY <1>91, <1>92, <2>1, <2>4 DEF InvoiceInv
<1>8. ASSUME NEW c \in Clerks, InvoiceCrash(c) PROVE InvoiceInv'
  <2>1. IRest(c) /\ UNCHANGED <<year, nextSeq, number, stored, files, renders>>
    BY <1>8 DEF InvoiceCrash
  <2>2. InvoiceTypeOK'
    BY <1>0, <1>92, <2>1, StaysTyped
  <2> QED BY <1>91, <1>92, <2>1, <2>2 DEF InvoiceInv
<1> QED BY <1>1, <1>2, <1>3, <1>4, <1>5, <1>6, <1>7, <1>8 DEF InvoiceNext

-----------------------------------------------------------------------------
(***************************************************************************)
(* What is owed to the tax office.                                         *)
(***************************************************************************)
\* What a request at its desk is doing.
DeskSet == [do : {"idle", "sum", "upsert", "then", "totals", "report"},
            why : {"mark", "remind"}, of : Months \union {0}, early : BOOLEAN,
            owed : BOOLEAN, total : Int, detail : [Suppliers -> Int]]

\* A request is about a month that has begun; one that began after the month's end still has
\* what it read in the ledger.
KeeperFits(t) ==
  /\ t.do # "idle" => t.of \in Months /\ t.of =< month
  /\ t.do # "idle" /\ ~t.early => t.of < month
  /\ t.do # "idle" /\ t.why = "remind" => ~t.early
  /\ t.owed => t.do = "then"
  /\ ~t.early /\ t.of \notin late =>
       /\ t.do \in {"upsert", "report"} => t.total = Balance(withheld[t.of])
       /\ t.do \in {"totals", "report"} => t.detail = withheld[t.of]
       /\ t.owed => Balance(withheld[t.of]) > 0
       /\ t.do = "then" /\ t.of \notin straddled => deposit[t.of].total = Balance(withheld[t.of])

\* What is marked, and what was reminded of.
MonthFits(p) ==
  /\ deposit[p].is = "DEPOSITED" => \/ p \in straddled
                                    \/ p < month /\ (p \notin late => deposit[p].total = Balance(withheld[p]))
  /\ p \in reminders => p < month /\ (p \notin late => Balance(withheld[p]) > 0)

\* What was deposited, and what is being reported, is what the ledger said.
DepositInv ==
  /\ DepositTypeOK
  /\ posting = Posted \/ (posting.in \in Months /\ posting.in =< month)
  /\ \A p \in Months : MonthFits(p)
  /\ \A k \in Keepers : KeeperFits(keeper[k])

\* The type of the deposits, with a name for that of the tasks.
LEMMA DepositTyped ==
  DepositTypeOK <=> /\ month \in 1 .. MaxMonths /\ withheld \in [Months -> [Suppliers -> Int]]
                    /\ posting \in [in : Months \union {0}, of : Suppliers \union {"nobody"}, amount : {-1, 0, 1}]
                    /\ deposit \in [Months -> [is : {"none", "PENDING", "DEPOSITED"}, total : Int]]
                    /\ keeper \in [Keepers -> DeskSet]
                    /\ {reminders, straddled, late} \subseteq SUBSET Months /\ entries \in 0 .. MaxEntries
BY DEF DepositTypeOK, DeskSet

\* The type of the deposits after a step.
LEMMA LedgerStaysTyped ==
  ASSUME month' \in 1 .. MaxMonths, withheld' \in [Months -> [Suppliers -> Int]],
         posting' \in [in : Months \union {0}, of : Suppliers \union {"nobody"}, amount : {-1, 0, 1}],
         deposit' \in [Months -> [is : {"none", "PENDING", "DEPOSITED"}, total : Int]],
         keeper' \in [Keepers -> DeskSet],
         {reminders', straddled', late'} \subseteq SUBSET Months, entries' \in 0 .. MaxEntries
  PROVE  DepositTypeOK'
BY DEF DepositTypeOK, DeskSet

\* A balance over the sellers.
LEMMA BalanceInt == ASSUME NEW f \in [Suppliers -> Int] PROVE Balance(f) \in Int
<1>1. Balance(f) = SumFunctionOnSet(f, Suppliers)
  BY DEF Balance, FoldFunction, SumFunctionOnSet
<1> QED BY <1>1, SumType, DepositConstantsOK

\* A request at rest has a task of the right kind.
LEMMA AtDeskIn == AtDesk \in DeskSet /\ AtDesk.do = "idle" /\ ~AtDesk.owed /\ ~AtDesk.early
BY DEF AtDesk, DeskSet, NoEntries

\* The ledger starts empty.
LEMMA DepositsStart == DepositInit => DepositInv
<1> SUFFICES ASSUME DepositInit PROVE DepositInv
  OBVIOUS
<1>1. /\ keeper \in [Keepers -> DeskSet] /\ \A k \in Keepers : keeper[k] = AtDesk
  BY AtDeskIn DEF DepositInit
<1>2. /\ month \in 1 .. MaxMonths /\ entries \in 0 .. MaxEntries
  BY DepositConstantsOK DEF DepositInit
<1>3. withheld \in [Months -> [Suppliers -> Int]]
  BY DEF DepositInit, NoEntries
<1>4. deposit \in [Months -> [is : {"none", "PENDING", "DEPOSITED"}, total : Int]]
      /\ \A p \in Months : deposit[p].is = "none"
  BY DEF DepositInit
<1>5. posting \in [in : Months \union {0}, of : Suppliers \union {"nobody"}, amount : {-1, 0, 1}]
      /\ posting = Posted
  BY DEF DepositInit, Posted
<1>6. {reminders, straddled, late} \subseteq SUBSET Months /\ reminders = {}
  BY DEF DepositInit
<1>7. DepositTypeOK
  BY <1>1, <1>2, <1>3, <1>4, <1>5, <1>6, DepositTyped
<1>8. \A k \in Keepers : KeeperFits(keeper[k])
  BY <1>1, AtDeskIn DEF KeeperFits
<1>9. \A p \in Months : MonthFits(p)
  BY <1>4, <1>6 DEF MonthFits
<1> QED BY <1>5, <1>7, <1>8, <1>9 DEF DepositInv

\* What is kept of the deposits is what is claimed of them.
LEMMA DepositsAgree == DepositInv => DepositsAddUp
<1> SUFFICES ASSUME DepositInv PROVE DepositsAddUp
  OBVIOUS
<1>1. /\ keeper \in [Keepers -> DeskSet] /\ reminders \subseteq Months
      /\ \A k \in Keepers : KeeperFits(keeper[k])
      /\ \A p \in Months : MonthFits(p)
  BY DepositTyped DEF DepositInv
<1> DEFINE Settled == {p \in Months : p < month} \ late
<1>2. \A p \in Settled \ straddled : deposit[p].is = "DEPOSITED" => deposit[p].total = Balance(withheld[p])
  BY <1>1 DEF MonthFits
<1>3. ASSUME NEW k \in Keepers, KeeperDoes(k, "report"), keeper[k].of \in Settled, ~keeper[k].early
      PROVE  /\ keeper[k].detail = withheld[keeper[k].of]
             /\ keeper[k].total = Balance(withheld[keeper[k].of])
  BY <1>1, <1>3 DEF KeeperFits, KeeperDoes
<1>4. \A p \in reminders : p < month /\ (p \notin late => Balance(withheld[p]) > 0)
  BY <1>1 DEF MonthFits
<1> QED BY <1>2, <1>3, <1>4 DEF DepositsAddUp

\* A request that goes on to another task has it, and no other is disturbed.
LEMMA DeskTakes ==
  ASSUME keeper \in [Keepers -> DeskSet], NEW k \in Keepers, NEW t \in DeskSet,
         keeper' = [keeper EXCEPT ![k] = t]
  PROVE  /\ keeper' \in [Keepers -> DeskSet] /\ keeper'[k] = t
         /\ \A j \in Keepers : j # k => keeper'[j] = keeper[j]
OBVIOUS

\* A request that reads or leaves disturbs neither the ledger nor what was deposited.
LEMMA DeskReads ==
  ASSUME DepositInv, NEW k \in Keepers, NEW t \in DeskSet, KeeperFits(t),
         keeper' = [keeper EXCEPT ![k] = t],
         UNCHANGED <<month, withheld, posting, deposit, reminders, straddled, late, entries>>
  PROVE  DepositInv'
<1>1. /\ keeper' \in [Keepers -> DeskSet] /\ keeper'[k] = t
      /\ \A j \in Keepers : j # k => keeper'[j] = keeper[j]
  BY DeskTakes, DepositTyped DEF DepositInv
<1>2. DepositTypeOK'
  BY <1>1, DepositTyped, LedgerStaysTyped DEF DepositInv
<1>3. \A p \in Months : MonthFits(p)'
  BY DEF DepositInv, MonthFits
<1>4. \A j \in Keepers : KeeperFits(keeper[j])'
  BY <1>1 DEF DepositInv, KeeperFits
<1> QED BY <1>2, <1>3, <1>4 DEF DepositInv

\* Every step keeps the ledger, what was deposited and what is being reported together.
LEMMA DepositsGoOn ==
  ASSUME DepositInv, [DepositNext]_depositVars
  PROVE  DepositInv'
<1>0. /\ month \in 1 .. MaxMonths /\ withheld \in [Months -> [Suppliers -> Int]]
      /\ posting \in [in : Months \union {0}, of : Suppliers \union {"nobody"}, amount : {-1, 0, 1}]
      /\ deposit \in [Months -> [is : {"none", "PENDING", "DEPOSITED"}, total : Int]]
      /\ keeper \in [Keepers -> DeskSet]
      /\ {reminders, straddled, late} \subseteq SUBSET Months /\ entries \in 0 .. MaxEntries
      /\ \A p \in Months : MonthFits(p)
      /\ \A k \in Keepers : KeeperFits(keeper[k])
      /\ month \in Nat
  BY DepositTyped, DepositConstantsOK DEF DepositInv
<1>1. CASE UNCHANGED depositVars
  BY <1>1, <1>0 DEF depositVars, DepositInv, DepositTypeOK, MonthFits, KeeperFits
<1>2. ASSUME NEW s \in Suppliers, NEW amount \in {1, -1}, DateEntry(s, amount) PROVE DepositInv'
  <2>1. /\ entries < MaxEntries /\ entries' = entries + 1
        /\ posting' = [in |-> month, of |-> s, amount |-> amount]
        /\ UNCHANGED <<month, withheld, deposit, keeper, reminders, straddled, late>>
    BY <1>2 DEF DateEntry
  <2>2. month \in Months
    BY <1>0 DEF Months
  <2>3. posting' \in [in : Months \union {0}, of : Suppliers \union {"nobody"}, amount : {-1, 0, 1}]
        /\ posting'.in = month
    BY <2>1, <2>2
  <2>4. entries' \in 0 .. MaxEntries
    BY <1>0, <2>1, DepositConstantsOK
  <2>5. DepositTypeOK'
    BY <1>0, <2>1, <2>3, <2>4, LedgerStaysTyped
  <2>6. (\A p \in Months : MonthFits(p)') /\ (\A k \in Keepers : KeeperFits(keeper[k])')
    BY <1>0, <2>1 DEF MonthFits, KeeperFits
  <2> QED BY <1>0, <2>1, <2>2, <2>3, <2>5, <2>6 DEF DepositInv
<1>3. CASE PostEntry
  <2>1. /\ posting # Posted /\ posting' = Posted
        /\ withheld' = [withheld EXCEPT ![posting.in][posting.of] = @ + posting.amount]
        /\ late' = IF posting.in < month THEN late \union {posting.in} ELSE late
        /\ UNCHANGED <<month, deposit, keeper, reminders, straddled, entries>>
    BY <1>3 DEF PostEntry
  <2>2. posting.in \in Months /\ posting.in =< month /\ posting.amount \in Int
    BY <1>0, <2>1 DEF DepositInv
  <2>3. withheld' \in [Months -> [Suppliers -> Int]]
    <3> DEFINE f == withheld[posting.in]
               g == [f EXCEPT ![posting.of] = f[posting.of] + posting.amount]
    <3>1. f \in [Suppliers -> Int]
      BY <1>0, <2>2
    <3> HIDE DEF f
    <3>2. g \in [Suppliers -> Int]
      <4>1. \A s \in Suppliers : f[s] \in Int /\ f[s] + posting.amount \in Int
        BY <3>1, <2>2
      <4>2. \A s \in Suppliers : g[s] \in Int
        BY <3>1, <4>1
      <4>3. g = [s \in Suppliers |-> g[s]]
        BY <3>1
      <4> QED BY <4>2, <4>3
    <3>3. withheld' = [withheld EXCEPT ![posting.in] = g]
      BY <1>0, <2>1, <2>2 DEF f
    <3> HIDE DEF g
    <3> QED BY <3>2, <3>3, <1>0
  <2>4. \A p \in Months \ {posting.in} : withheld'[p] = withheld[p]
    BY <1>0, <2>1
  <2>5. late \subseteq late' /\ late' \subseteq Months
    BY <1>0, <2>1, <2>2
  <2>6. \A p \in Months : p < month /\ p \notin late' => withheld'[p] = withheld[p]
    <3> TAKE p \in Months
    <3>1. CASE p = posting.in
      BY <3>1, <2>1
    <3> QED BY <3>1, <2>4
  <2>7. Posted \in [in : Months \union {0}, of : Suppliers \union {"nobody"}, amount : {-1, 0, 1}]
    BY DEF Posted
  <2>8. DepositTypeOK'
    BY <1>0, <2>1, <2>3, <2>5, <2>7, LedgerStaysTyped
  <2>9. \A p \in Months : MonthFits(p)'
    BY <1>0, <2>1, <2>5, <2>6 DEF MonthFits
  <2>10. \A k \in Keepers : KeeperFits(keeper[k])'
    BY <1>0, <2>1, <2>5, <2>6 DEF KeeperFits
  <2> QED BY <2>1, <2>8, <2>9, <2>10 DEF DepositInv
<1>4. CASE MonthEnds
  <2>1. /\ month < MaxMonths /\ month' = month + 1
        /\ UNCHANGED <<withheld, posting, deposit, keeper, reminders, straddled, late, entries>>
    BY <1>4 DEF MonthEnds
  <2>2. month' \in 1 .. MaxMonths
    BY <1>0, <2>1, DepositConstantsOK
  <2>3. DepositTypeOK'
    BY <1>0, <2>1, <2>2, LedgerStaysTyped
  <2>4. \A p \in Months : p \in Nat
    BY DEF Months
  <2>5. \A p \in Months : p < month => p < month'
    BY <1>0, <2>1, <2>4
  <2>6. \A p \in Months : p =< month => p =< month'
    BY <1>0, <2>1, <2>4
  <2>7. \A p \in Months : MonthFits(p)'
    BY <1>0, <2>1, <2>5 DEF MonthFits
  <2>8. \A k \in Keepers : KeeperFits(keeper[k])'
    BY <1>0, <2>1, <2>5, <2>6 DEF KeeperFits
  <2>9. (posting = Posted \/ (posting.in \in Months /\ posting.in =< month))'
    BY <2>1, <2>6 DEF DepositInv
  <2> QED BY <2>3, <2>7, <2>8, <2>9 DEF DepositInv
<1>5. ASSUME NEW k \in Keepers, NEW p \in Months, NEW why \in {"mark", "remind"}, AskDeposit(k, p, why)
      PROVE  DepositInv'
  <2> DEFINE is == IF deposit[p].is = "DEPOSITED" THEN "then" ELSE "sum"
             ends == p = month
             t == [AtDesk EXCEPT !.do = is, !.why = why, !.of = p, !.early = ends]
  <2>1. /\ p =< month /\ (why = "remind" => p = month - 1) /\ keeper' = [keeper EXCEPT ![k] = t]
        /\ UNCHANGED <<month, withheld, posting, deposit, reminders, straddled, late, entries>>
    BY <1>5 DEF AskDeposit
  <2>2. /\ t.do = is /\ t.why = why /\ t.of = p /\ t.early = ends /\ t.owed = FALSE
        /\ t \in DeskSet
    <3>1. is \in {"then", "sum"} /\ ends \in BOOLEAN
      OBVIOUS
    <3> HIDE DEF is, ends
    <3> QED BY <3>1, AtDeskIn DEF DeskSet, AtDesk
  <2> HIDE DEF t
  <2>3. /\ p \in Nat /\ (~ends => p < month) /\ (why = "remind" => ~ends)
    BY <1>0, <2>1 DEF Months
  <2>4. /\ is \in {"then", "sum"}
        /\ is = "then" /\ p \notin late /\ p \notin straddled => deposit[p].total = Balance(withheld[p])
    BY <1>0 DEF MonthFits
  <2> HIDE DEF is, ends
  <2>5. KeeperFits(t)
    BY <2>1, <2>2, <2>3, <2>4 DEF KeeperFits
  <2> QED BY <2>1, <2>2, <2>5, DeskReads
<1>6. ASSUME NEW k \in Keepers, NEW p \in Months, AskReport(k, p) PROVE DepositInv'
  <2> DEFINE ends == p = month
             held == withheld[p]
             t == [AtDesk EXCEPT !.do = "totals", !.of = p, !.early = ends, !.detail = held]
  <2>1. /\ p =< month /\ keeper' = [keeper EXCEPT ![k] = t]
        /\ UNCHANGED <<month, withheld, posting, deposit, reminders, straddled, late, entries>>
    BY <1>6 DEF AskReport
  <2>2. /\ t.do = "totals" /\ t.why = "mark" /\ t.of = p /\ t.early = ends /\ t.owed = FALSE
        /\ t.detail = held /\ t \in DeskSet
    <3>1. ends \in BOOLEAN /\ held \in [Suppliers -> Int]
      BY <1>0
    <3> HIDE DEF held, ends
    <3> QED BY <3>1, AtDeskIn DEF DeskSet, AtDesk
  <2> HIDE DEF t
  <2>3. p \in Nat /\ (~ends => p < month)
    BY <1>0, <2>1 DEF Months
  <2> HIDE DEF ends
  <2>5. KeeperFits(t)
    BY <2>1, <2>2, <2>3 DEF KeeperFits
  <2> QED BY <2>1, <2>2, <2>5, DeskReads
<1>7. ASSUME NEW k \in Keepers, SumPeriod(k) PROVE DepositInv'
  <2> DEFINE sum == Balance(withheld[keeper[k].of])
             t == [keeper[k] EXCEPT !.do = "upsert", !.total = sum]
  <2>1. /\ keeper[k].do = "sum" /\ keeper' = [keeper EXCEPT ![k] = t]
        /\ UNCHANGED <<month, withheld, posting, deposit, reminders, straddled, late, entries>>
    BY <1>7 DEF SumPeriod, KeeperDoes
  <2>2. keeper[k] \in DeskSet /\ KeeperFits(keeper[k]) /\ keeper[k].of \in Months
    BY <1>0, <2>1 DEF KeeperFits
  <2>3. sum \in Int
    BY <1>0, <2>2, BalanceInt
  <2> DEFINE was == keeper[k]
  <2>4. /\ t.do = "upsert" /\ t.why = was.why /\ t.of = was.of /\ t.early = was.early
        /\ t.owed = was.owed /\ t.total = sum /\ t \in DeskSet
    <3> HIDE DEF sum
    <3> QED BY <2>2, <2>3 DEF DeskSet
  <2> HIDE DEF t
  <2>5. KeeperFits(t)
    BY <2>1, <2>2, <2>4 DEF KeeperFits
  <2> QED BY <2>1, <2>4, <2>5, DeskReads
<1>8. ASSUME NEW k \in Keepers, BuildReport(k) PROVE DepositInv'
  <2> DEFINE sum == Balance(withheld[keeper[k].of])
             t == [keeper[k] EXCEPT !.do = "report", !.total = sum]
  <2>1. /\ keeper[k].do = "totals" /\ keeper' = [keeper EXCEPT ![k] = t]
        /\ UNCHANGED <<month, withheld, posting, deposit, reminders, straddled, late, entries>>
    BY <1>8 DEF BuildReport, KeeperDoes
  <2>2. keeper[k] \in DeskSet /\ KeeperFits(keeper[k]) /\ keeper[k].of \in Months
    BY <1>0, <2>1 DEF KeeperFits
  <2>3. sum \in Int
    BY <1>0, <2>2, BalanceInt
  <2> DEFINE was == keeper[k]
  <2>4. /\ t.do = "report" /\ t.why = was.why /\ t.of = was.of /\ t.early = was.early
        /\ t.owed = was.owed /\ t.total = sum /\ t.detail = was.detail /\ t \in DeskSet
    <3> HIDE DEF sum
    <3> QED BY <2>2, <2>3 DEF DeskSet
  <2> HIDE DEF t
  <2>5. KeeperFits(t)
    BY <2>1, <2>2, <2>4 DEF KeeperFits
  <2> QED BY <2>1, <2>4, <2>5, DeskReads
<1>9. ASSUME NEW k \in Keepers, LeaveDesk(k) PROVE DepositInv'
  <2>1. KeeperFits(AtDesk)
    BY AtDeskIn DEF KeeperFits
  <2> QED BY <1>9, <2>1, AtDeskIn, DeskReads DEF LeaveDesk, LeavesDesk
<1>10. ASSUME NEW k \in Keepers, UpsertDeposit(k) PROVE DepositInv'
  <2> DEFINE was == keeper[k]
             p == was.of
             is == IF deposit[p].is = "none" THEN "PENDING" ELSE deposit[p].is
             owes == was.why = "remind" /\ is = "PENDING" /\ was.total > 0
             t == [was EXCEPT !.do = "then", !.total = 0, !.owed = owes]
             row == [is |-> is, total |-> was.total]
  <2>1. /\ was.do = "upsert" /\ deposit' = [deposit EXCEPT ![p] = row]
        /\ straddled' = IF was.early /\ p < month THEN straddled \union {p} ELSE straddled
        /\ keeper' = [keeper EXCEPT ![k] = t]
        /\ UNCHANGED <<month, withheld, posting, reminders, late, entries>>
    BY <1>10 DEF UpsertDeposit, KeeperDoes, Straddles
  <2>2. was \in DeskSet /\ KeeperFits(was) /\ p \in Months
    BY <1>0, <2>1 DEF KeeperFits
  <2>3. /\ is \in {"none", "PENDING", "DEPOSITED"} /\ owes \in BOOLEAN
        /\ is = "DEPOSITED" => deposit[p].is = "DEPOSITED"
    BY <1>0, <2>2
  <2>4. owes => was.why = "remind" /\ was.total > 0
    OBVIOUS
  <2> HIDE DEF owes, is, was
  <2>5. /\ t.do = "then" /\ t.why = was.why /\ t.of = p /\ t.early = was.early /\ t.owed = owes
        /\ t \in DeskSet
    <3>1. was \in DeskSet /\ owes \in BOOLEAN /\ 0 \in Int
      BY <2>2, <2>3
    <3>2. t \in DeskSet
      BY <3>1, ZenonT(60) DEF DeskSet
    <3>3. /\ t.do = "then" /\ t.why = was.why /\ t.of = p /\ t.early = was.early /\ t.owed = owes
      BY <3>1 DEF DeskSet
    <3> QED BY <3>2, <3>3
  <2>6. row.is = is /\ row.total = was.total
        /\ row \in [is : {"none", "PENDING", "DEPOSITED"}, total : Int]
    BY <2>2, <2>3 DEF DeskSet
  <2> HIDE DEF t, row, was
  <2>7. /\ deposit' \in [Months -> [is : {"none", "PENDING", "DEPOSITED"}, total : Int]]
        /\ deposit'[p] = row /\ \A q \in Months : q # p => deposit'[q] = deposit[q]
    BY <1>0, <2>1, <2>2, <2>6
  <2>8. /\ keeper' \in [Keepers -> DeskSet] /\ keeper'[k] = t
        /\ \A j \in Keepers : j # k => keeper'[j] = keeper[j]
    BY <1>0, <2>1, <2>5, DeskTakes
  <2>9. straddled' \subseteq Months /\ straddled \subseteq straddled'
    BY <1>0, <2>1, <2>2
  <2>10. DepositTypeOK'
    BY <1>0, <2>1, <2>7, <2>8, <2>9, LedgerStaysTyped
  <2>11. /\ p =< month /\ (~was.early => p < month) /\ (was.why = "remind" => ~was.early)
         /\ was.early \in BOOLEAN /\ p \in Nat
         /\ ~was.early /\ p \notin late => was.total = Balance(withheld[p])
    BY <2>1, <2>2 DEF KeeperFits, Months, DeskSet
  <2>12. p \notin straddled' /\ p < month /\ p \notin late => row.total = Balance(withheld[p])
    BY <2>1, <2>6, <2>11
  <2>13. ASSUME NEW q \in Months PROVE MonthFits(q)'
    <3>1. MonthFits(q)
      BY <1>0
    <3>2. CASE q # p
      BY <3>1, <3>2, <2>1, <2>7, <2>9 DEF MonthFits
    <3>3. CASE q = p
      <4>1. deposit'[p].is = "DEPOSITED" => p \in straddled \/ p < month
        BY <3>1, <3>3, <2>3, <2>6, <2>7 DEF MonthFits
      <4>2. deposit'[p].is = "DEPOSITED" => \/ p \in straddled'
                                            \/ p < month /\ (p \notin late => deposit'[p].total = Balance(withheld[p]))
        BY <4>1, <2>7, <2>9, <2>12
      <4> QED BY <3>1, <3>3, <4>2, <2>1 DEF MonthFits
    <3> QED BY <3>2, <3>3
  <2>14. ASSUME NEW j \in Keepers PROVE KeeperFits(keeper[j])'
    <3>1. KeeperFits(keeper[j])
      BY <1>0
    <3>2. CASE j # k
      <4>1. keeper'[j] = keeper[j]
        BY <3>2, <2>8
      <4>2. CASE keeper[j].do = "then" /\ ~keeper[j].early /\ keeper[j].of \notin late /\ keeper[j].of \notin straddled'
        <5>1. keeper[j].of \in Months /\ keeper[j].of < month
              /\ deposit[keeper[j].of].total = Balance(withheld[keeper[j].of])
          BY <3>1, <4>2, <2>9 DEF KeeperFits
        <5>2. deposit'[keeper[j].of].total = Balance(withheld[keeper[j].of])
          BY <5>1, <4>2, <2>7, <2>12
        <5> QED BY <3>1, <4>1, <5>2, <2>1 DEF KeeperFits
      <4>3. CASE ~(keeper[j].do = "then" /\ ~keeper[j].early /\ keeper[j].of \notin late /\ keeper[j].of \notin straddled')
        BY <3>1, <4>1, <4>3, <2>1 DEF KeeperFits
      <4> QED BY <4>2, <4>3
    <3>3. CASE j = k
      <4>1. keeper'[j] = t
        BY <3>3, <2>8
      <4>2. t.owed => ~was.early /\ (p \notin late => Balance(withheld[p]) > 0)
        BY <2>4, <2>5, <2>11
      <4>3. ~was.early /\ p \notin late /\ p \notin straddled' => deposit'[p].total = Balance(withheld[p])
        BY <2>7, <2>11, <2>12
      <4> QED BY <4>1, <4>2, <4>3, <2>1, <2>2, <2>5, <2>11 DEF KeeperFits
    <3> QED BY <3>2, <3>3
  <2> QED BY <2>1, <2>10, <2>13, <2>14 DEF DepositInv
<1>11. ASSUME NEW k \in Keepers, MarkDeposited(k) PROVE DepositInv'
  <2> DEFINE was == keeper[k]
             p == was.of
  <2>1. /\ was.do = "then" /\ deposit' = [deposit EXCEPT ![p].is = "DEPOSITED"]
        /\ straddled' = IF was.early THEN straddled \union {p} ELSE straddled
        /\ keeper' = [keeper EXCEPT ![k] = AtDesk]
        /\ UNCHANGED <<month, withheld, posting, reminders, late, entries>>
    BY <1>11 DEF MarkDeposited, KeeperDoes, Straddles, LeavesDesk
  <2>2. was \in DeskSet /\ KeeperFits(was) /\ p \in Months
    BY <1>0, <2>1 DEF KeeperFits
  <2> HIDE DEF was
  <2>7. /\ deposit' \in [Months -> [is : {"none", "PENDING", "DEPOSITED"}, total : Int]]
        /\ deposit'[p].total = deposit[p].total /\ \A q \in Months : q # p => deposit'[q] = deposit[q]
    BY <1>0, <2>1, <2>2
  <2>8. /\ keeper' \in [Keepers -> DeskSet] /\ keeper'[k] = AtDesk
        /\ \A j \in Keepers : j # k => keeper'[j] = keeper[j]
    BY <1>0, <2>1, AtDeskIn, DeskTakes
  <2>9. straddled' \subseteq Months /\ straddled \subseteq straddled'
    BY <1>0, <2>1, <2>2
  <2>10. DepositTypeOK'
    BY <1>0, <2>1, <2>7, <2>8, <2>9, LedgerStaysTyped
  <2>11. \/ p \in straddled'
         \/ p < month /\ (p \notin late => deposit[p].total = Balance(withheld[p]))
    BY <2>1, <2>2, <2>9 DEF KeeperFits
  <2>12. \A q \in Months : deposit'[q].total = deposit[q].total
    BY <2>7
  <2>13. ASSUME NEW q \in Months PROVE MonthFits(q)'
    <3>1. MonthFits(q)
      BY <1>0
    <3>2. CASE q # p
      BY <3>1, <3>2, <2>1, <2>7, <2>9 DEF MonthFits
    <3>3. CASE q = p
      BY <3>1, <3>3, <2>1, <2>11, <2>12 DEF MonthFits
    <3> QED BY <3>2, <3>3
  <2>14. ASSUME NEW j \in Keepers PROVE KeeperFits(keeper[j])'
    <3>1. CASE j = k
      BY <3>1, <2>8, AtDeskIn DEF KeeperFits
    <3>2. CASE j # k
      BY <3>2, <1>0, <2>1, <2>8, <2>9, <2>12 DEF KeeperFits
    <3> QED BY <3>1, <3>2
  <2> QED BY <2>1, <2>10, <2>13, <2>14 DEF DepositInv
<1>12. ASSUME NEW k \in Keepers, Remind(k) PROVE DepositInv'
  <2> DEFINE was == keeper[k]
             p == was.of
  <2>1. /\ was.do = "then" /\ was.why = "remind"
        /\ reminders' = reminders \union (IF was.owed THEN {p} ELSE {})
        /\ keeper' = [keeper EXCEPT ![k] = AtDesk]
        /\ UNCHANGED <<month, withheld, posting, deposit, straddled, late, entries>>
    BY <1>12 DEF Remind, KeeperDoes, LeavesDesk
  <2>2. was \in DeskSet /\ KeeperFits(was) /\ p \in Months
    BY <1>0, <2>1 DEF KeeperFits
  <2> HIDE DEF was
  <2>3. /\ keeper' \in [Keepers -> DeskSet] /\ keeper'[k] = AtDesk
        /\ \A j \in Keepers : j # k => keeper'[j] = keeper[j]
    BY <1>0, <2>1, AtDeskIn, DeskTakes
  <2>4. reminders' \subseteq Months
    BY <1>0, <2>1, <2>2
  <2>5. DepositTypeOK'
    BY <1>0, <2>1, <2>3, <2>4, LedgerStaysTyped
  <2>6. was.owed => p < month /\ (p \notin late => Balance(withheld[p]) > 0)
    BY <2>1, <2>2 DEF KeeperFits
  <2>7. \A q \in Months : MonthFits(q)'
    <3> TAKE q \in Months
    <3>1. q \in reminders' => q < month /\ (q \notin late => Balance(withheld[q]) > 0)
      BY <1>0, <2>1, <2>6 DEF MonthFits
    <3> QED BY <1>0, <2>1, <3>1 DEF MonthFits
  <2>8. ASSUME NEW j \in Keepers PROVE KeeperFits(keeper[j])'
    <3>1. CASE j = k
      BY <3>1, <2>3, AtDeskIn DEF KeeperFits
    <3>2. CASE j # k
      BY <3>2, <1>0, <2>1, <2>3 DEF KeeperFits
    <3> QED BY <3>1, <3>2
  <2> QED BY <2>1, <2>5, <2>7, <2>8 DEF DepositInv
<1> QED BY <1>1, <1>2, <1>3, <1>4, <1>5, <1>6, <1>7, <1>8, <1>9, <1>10, <1>11, <1>12 DEF DepositNext

-----------------------------------------------------------------------------
(***************************************************************************)
(* All parts.                                                              *)
(***************************************************************************)
\* Where rows are marked one by one, one of the rows that are there is the default.
LEMMA OneMark == SiteInv => OneDefault
<1> SUFFICES ASSUME SiteInv, "mark" \notin raced PROVE Cardinality(marked \cap LiveRows) =< 1
  BY DEF SiteInv, StockInv, OneDefault
<1>1. \A x, y \in marked \cap LiveRows : x = y
  BY DEF SiteInv, MarksInv
<1> QED BY <1>1, AtMostOne

\* What is kept of the terms is what is claimed of them.
LEMMA TermsKept == TermInv => TermsStand
BY DEF TermInv, PricesInv, PromiseInv, TermsStand

\* What is kept of roles is what is claimed of them.
LEMMA GrantsKept == RoleInv => AuthorityKept
BY DEF RoleInv, Authority, AuthorityKept

\* No more units lie in the carts of a customer and the guests than were asked for.
THEOREM NoUnitAppears == PeopleSpec => [](CartTypeOK /\ NothingAppears)
<1>1. PeopleInit => CartInv
  BY CartsStart DEF PeopleInit
<1>2. CartInv /\ [PeopleNext]_peopleVars => CartInv'
  BY CartsGoOn, OneAtWork
<1>3. CartInv => CartTypeOK /\ NothingAppears
  BY CartMeans DEF CartInv
<1> QED BY <1>1, <1>2, <1>3, PTL DEF PeopleSpec

\* One address of a customer is the default at most, and one is when there are addresses.
THEOREM DefaultsStay == PeopleSpec => [](AddressTypeOK /\ OneDefaultAddress)
<1>1. PeopleInit => AddressInv
  BY AddressesStart DEF PeopleInit
<1>2. AddressInv /\ [PeopleNext]_peopleVars => AddressInv'
  BY AddressesGoOn, OneAtWork
<1>3. AddressInv => AddressTypeOK /\ OneDefaultAddress
  BY DefaultKept DEF AddressInv
<1> QED BY <1>1, <1>2, <1>3, PTL DEF PeopleSpec

\* A session that is open goes under the password of today.
THEOREM SessionsEnd == PeopleSpec => [](SessionTypeOK /\ SessionsFollowPassword)
<1>1. PeopleInit => SessionInv
  BY SessionsStart DEF PeopleInit
<1>2. SessionInv /\ [PeopleNext]_peopleVars => SessionInv'
  BY SessionInvGoesOn, OneAtWork
<1>3. SessionInv => SessionTypeOK /\ SessionsFollowPassword
  BY PasswordsFollowed DEF SessionInv
<1> QED BY <1>1, <1>2, <1>3, PTL DEF PeopleSpec

\* Nobody grants a permission without holding it: one that nobody holds any more is not granted.
THEOREM NoPowerReturns == PeopleSpec => [](RoleTypeOK /\ AuthorityKept)
<1>1. PeopleInit => RoleInv
  BY RolesStart DEF PeopleInit
<1>2. RoleInv /\ [PeopleNext]_peopleVars => RoleInv'
  BY RolesGoOn, OneAtWork
<1>3. RoleInv => RoleTypeOK /\ AuthorityKept
  BY GrantsKept DEF RoleInv
<1> QED BY <1>1, <1>2, <1>3, PTL DEF PeopleSpec

\* A seller who is barred stays so until somebody decides otherwise.
THEOREM RulingsHold == PeopleSpec => [](SellerTypeOK /\ RulingsStand)
<1>1. PeopleInit => SellerInv
  BY SellersStart DEF PeopleInit
<1>2. SellerInv /\ [PeopleNext]_peopleVars => SellerInv'
  BY SellersGoOn, OneAtWork
<1>3. SellerInv => SellerTypeOK /\ RulingsStand
  BY DEF SellerInv, SellerTyped, RulingsInv
<1> QED BY <1>1, <1>2, <1>3, PTL DEF PeopleSpec

\* One warehouse is the default, stock lies where there is a warehouse, and the currency and
\* the shipping rates of a store are those its owner settled.
THEOREM StoresHold == PeopleSpec => [](StoreTypeOK /\ OneDefault /\ TermsStand)
<1>1. PeopleInit => SiteInv /\ TermInv
  BY SiteStart, TermsStart DEF PeopleInit
<1>2. SiteInv /\ TermInv /\ [PeopleNext]_peopleVars => (SiteInv /\ TermInv)'
  BY SiteGoesOn, TermsGoOn, OneAtWork
<1>3. SiteInv /\ TermInv => StoreTypeOK /\ OneDefault /\ TermsStand
  <2>1. SiteInv /\ TermInv => StoreTypeOK
    BY DEF SiteInv, SiteTyped, SiteTasks, TermInv, TermTyped, TermTasks, StoreTypeOK
  <2> QED BY <2>1, OneMark, TermsKept
<1> QED BY <1>1, <1>2, <1>3, PTL DEF PeopleSpec

\* A complaint is answered in its order and time.
THEOREM ComplaintsStayInOrder == PeopleSpec => [](GrievanceTypeOK /\ ComplaintsInOrder)
<1>1. PeopleInit => GrievanceInv
  BY GrievancesStart DEF PeopleInit
<1>2. GrievanceInv /\ [PeopleNext]_peopleVars => GrievanceInv'
  BY GrievancesGoOn, OneAtWork
<1>3. GrievanceInv => GrievanceTypeOK /\ ComplaintsInOrder
  BY DEF GrievanceInv
<1> QED BY <1>1, <1>2, <1>3, PTL DEF PeopleSpec

\* Personal data goes when its owner asks, after the days of grace, and only then.
THEOREM ErasureStaysAsAsked == PeopleSpec => [](PrivacyTypeOK /\ ErasureAsAsked)
<1>1. PeopleInit => PrivacyInv
  BY PrivacyStarts DEF PeopleInit
<1>2. PrivacyInv /\ [PeopleNext]_peopleVars => PrivacyInv'
  BY PrivacyGoesOn, OneAtWork
<1>3. PrivacyInv => PrivacyTypeOK /\ ErasureAsAsked
  BY ErasureKept DEF PrivacyInv
<1> QED BY <1>1, <1>2, <1>3, PTL DEF PeopleSpec

\* What belongs to an account stays as its owner, or an administrator, left it.
THEOREM AccountsStay == PeopleSpec => []AccountsKept
<1>1. /\ CartTypeOK /\ NothingAppears /\ AddressTypeOK /\ OneDefaultAddress
      /\ SessionTypeOK /\ SessionsFollowPassword /\ RoleTypeOK /\ AuthorityKept
      /\ SellerTypeOK /\ RulingsStand /\ StoreTypeOK /\ OneDefault /\ TermsStand
      => AccountsKept
  BY DEF AccountsKept, Of
<1> QED BY <1>1, NoUnitAppears, DefaultsStay, SessionsEnd, NoPowerReturns, RulingsHold, StoresHold, PTL

\* The law's clocks are kept.
THEOREM DutiesStay == PeopleSpec => []DutiesKept
<1>1. GrievanceTypeOK /\ ComplaintsInOrder /\ PrivacyTypeOK /\ ErasureAsAsked => DutiesKept
  BY DEF DutiesKept, Of
<1> QED BY <1>1, ComplaintsStayInOrder, ErasureStaysAsAsked, PTL

\* What a customer is told of the cart is what an order would meet.
THEOREM AdviceStaysTrue == PeopleSpec => [](ViewTypeOK /\ AdviceHolds)
<1>1. PeopleInit => ViewInv
  BY ViewsStart DEF PeopleInit
<1>2. ViewInv /\ [PeopleNext]_peopleVars => ViewInv'
  BY ViewsGoOn, OneAtWork
<1>3. ViewInv => ViewTypeOK /\ AdviceHolds
  BY AdviceTrue DEF ViewInv
<1> QED BY <1>1, <1>2, <1>3, PTL DEF PeopleSpec

\* A coupon is not redeemed beyond its limits, but for placements that overlap.
THEOREM LimitsHold == PeopleSpec => [](CouponTypeOK /\ LimitHeld)
<1>1. PeopleInit => CouponInv
  BY CouponsStart DEF PeopleInit
<1>2. CouponInv /\ [PeopleNext]_peopleVars => CouponInv'
  BY CouponsGoOn, OneAtWork
<1>3. CouponInv => CouponTypeOK /\ LimitHeld
  BY DEF CouponInv
<1> QED BY <1>1, <1>2, <1>3, PTL DEF PeopleSpec

\* The lines, taxes and discounts of an order add up, and it costs what was quoted.
THEOREM FiguresStay == PeopleSpec => [](PricingTypeOK /\ FiguresAgree /\ QuoteHonoured)
<1>1. PeopleInit => PricingInv
  BY PricingStart DEF PeopleInit
<1>2. PricingInv /\ [PeopleNext]_peopleVars => PricingInv'
  BY PricingGoesOn, OneAtWork
<1>3. PricingInv => PricingTypeOK /\ FiguresAgree /\ QuoteHonoured
  BY DEF PricingInv
<1> QED BY <1>1, <1>2, <1>3, PTL DEF PeopleSpec

\* A seller's invoice numbers have no gap.
THEOREM NumbersStayGapless == PeopleSpec => [](InvoiceTypeOK /\ NumbersGapless)
<1>1. PeopleInit => InvoiceInv
  BY InvoicesStart DEF PeopleInit
<1>2. InvoiceInv /\ [PeopleNext]_peopleVars => InvoiceInv'
  BY InvoicesGoOn, OneAtWork
<1>3. InvoiceInv => InvoiceTypeOK /\ NumbersGapless
  BY DEF InvoiceInv
<1> QED BY <1>1, <1>2, <1>3, PTL DEF PeopleSpec

\* The ledger of what is owed to the tax office agrees with what was deposited.
THEOREM DepositsStayTrue == PeopleSpec => [](DepositTypeOK /\ DepositsAddUp)
<1>1. PeopleInit => DepositInv
  BY DepositsStart DEF PeopleInit
<1>2. DepositInv /\ [PeopleNext]_peopleVars => DepositInv'
  BY DepositsGoOn, OneAtWork
<1>3. DepositInv => DepositTypeOK /\ DepositsAddUp
  BY DepositsAgree DEF DepositInv
<1> QED BY <1>1, <1>2, <1>3, PTL DEF PeopleSpec

\* The figures hold together.
THEOREM MoneyStays == PeopleSpec => []MoneyAddsUp
<1>1. /\ ViewTypeOK /\ AdviceHolds /\ CouponTypeOK /\ LimitHeld
      /\ PricingTypeOK /\ FiguresAgree /\ QuoteHonoured
      /\ InvoiceTypeOK /\ NumbersGapless /\ DepositTypeOK /\ DepositsAddUp
      => MoneyAddsUp
  BY DEF MoneyAddsUp, Of
<1> QED BY <1>1, AdviceStaysTrue, LimitsHold, FiguresStay, NumbersStayGapless, DepositsStayTrue, PTL

\* Every variable keeps its type.
THEOREM PeopleTyped == PeopleSpec => []PeopleTypeOK
<1>1. PeopleInit => focus \in Focuses
  BY DEF PeopleInit
<1>2. focus \in Focuses /\ [PeopleNext]_peopleVars => (focus \in Focuses)'
  BY OneAtWork
<1>3. PeopleSpec => [](focus \in Focuses)
  BY <1>1, <1>2, PTL DEF PeopleSpec
<1>4. /\ focus \in Focuses
      /\ CartTypeOK /\ NothingAppears /\ AddressTypeOK /\ OneDefaultAddress
      /\ SessionTypeOK /\ SessionsFollowPassword /\ RoleTypeOK /\ AuthorityKept
      /\ SellerTypeOK /\ RulingsStand /\ StoreTypeOK /\ OneDefault /\ TermsStand
      /\ GrievanceTypeOK /\ ComplaintsInOrder /\ PrivacyTypeOK /\ ErasureAsAsked
      /\ ViewTypeOK /\ AdviceHolds /\ CouponTypeOK /\ LimitHeld
      /\ PricingTypeOK /\ FiguresAgree /\ QuoteHonoured
      /\ InvoiceTypeOK /\ NumbersGapless /\ DepositTypeOK /\ DepositsAddUp
      => PeopleTypeOK
  BY DEF PeopleTypeOK, Of
<1> QED BY <1>3, <1>4, NoUnitAppears, DefaultsStay, SessionsEnd, NoPowerReturns, RulingsHold, StoresHold,
           ComplaintsStayInOrder, ErasureStaysAsAsked, AdviceStaysTrue, LimitsHold, FiguresStay,
           NumbersStayGapless, DepositsStayTrue, PTL
=============================================================================
