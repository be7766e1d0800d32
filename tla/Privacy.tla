------------------------------ MODULE Privacy ------------------------------
(***************************************************************************)
(* PrivacyService, with CustomerService and UserService where they touch   *)
(* the same account: a customer asks to be erased, may take it back during *)
(* a grace period, and an hourly sweep anonymizes whom it finds due.  The  *)
(* sweep lists the due requests first and claims, later, whatever request  *)
(* of that user is in grace by then.                                       *)
(*                                                                         *)
(* Personal data are one bit, and so are the newsletter and the sessions   *)
(* ended with them.  The dry run, which changes nothing, is left out.      *)
(*                                                                         *)
(* The second half are the addresses of a customer.                        *)
(***************************************************************************)
EXTENDS Integers, FiniteSets

CONSTANTS
  Hands,        \* requests and sweeps handled at the same time
  MaxRequests,  \* bound: deletion requests created
  MaxRestores   \* bound: statuses set by administrators

ASSUME PrivacyConstantsOK == MaxRequests \in Nat /\ MaxRestores \in Nat

RequestIds == 1 .. MaxRequests

VARIABLES
  personal,   \* the user row and the addresses hold personal data
  acct,       \* User.status: "active", "inactive", "anonymized"
  archived,   \* Customer.deletedAt is set
  signedIn,   \* the customer holds an access token that has not expired
  erasure,    \* AccountDeletionRequest rows
  export,     \* the DataExportRequest: "none", "PENDING", "PROCESSING", "READY", "EXPIRED", "FAILED"
  hand,       \* what each request is about to do, and what it read
  wish,       \* history: what the user was last told: "delete", "keep"
  excuses,    \* history: "doubled" when two requests were created at once, "hasty" when one
              \* was created during a sweep
  erasedAs,   \* history: the wish at the last erasure, "none" before one
  restores

privacyVars == <<personal, acct, archived, signedIn, erasure, export, hand, wish, excuses,
                 erasedAs, restores>>
subjectVars == <<personal, acct, archived, signedIn>>

NoHand   == [do |-> "idle", id |-> 0]
HandsBusy(h, what) == hand[h].do = what
HandRests(h)      == hand' = [hand EXCEPT ![h] = NoHand]
Takes(h, what, id) ==
  HandsBusy(h, "idle") /\ hand' = [hand EXCEPT ![h] = [do |-> what, id |-> id]]
InGrace  == {i \in RequestIds : erasure[i].is = "GRACE"}
Made     == {i \in RequestIds : erasure[i].is # "none"}
Latest(is) == CHOOSE i \in is : \A j \in is : j =< i

PrivacyInit ==
  /\ personal = TRUE /\ acct = "active" /\ archived = FALSE /\ signedIn = TRUE
  /\ erasure = [i \in RequestIds |-> [is |-> "none", due |-> FALSE]]
  /\ export = "none"
  /\ hand = [h \in Hands |-> NoHand]
  /\ wish = "keep" /\ excuses = {} /\ erasedAs = "none" /\ restores = 0

(***************************************************************************)
(* The customer's requests.  JwtStrategy looks at the token only: an       *)
(* erasure ends the refresh tokens, the access token lives until it        *)
(* expires.                                                                *)
(***************************************************************************)
TokenExpires ==
  /\ signedIn /\ erasedAs # "none" /\ signedIn' = FALSE
  /\ UNCHANGED <<personal, acct, archived, erasure, export, hand, wish, excuses, erasedAs, restores>>

\* requestDeletion looks for a request in grace, and creates one if there is none.
AskErasure(h) ==
  /\ signedIn /\ InGrace = {} /\ Cardinality(Made) < MaxRequests
  /\ Takes(h, "ask", 0)
  /\ excuses' = IF \E o \in Hands : HandsBusy(o, "ask") THEN excuses \union {"doubled"} ELSE excuses
  /\ UNCHANGED <<subjectVars, erasure, export, wish, erasedAs, restores>>

CreateErasure(h) ==
  LET i == 1 + Cardinality(Made) IN
  /\ HandsBusy(h, "ask") /\ i \in RequestIds
  /\ erasure' = [erasure EXCEPT ![i].is = "GRACE"]
  /\ wish' = "delete"
  /\ excuses' = IF \E o \in Hands : HandsBusy(o, "erase") THEN excuses \union {"hasty"} ELSE excuses
  /\ HandRests(h)
  /\ UNCHANGED <<subjectVars, export, erasedAs, restores>>

\* The grace period of a request ends.
GraceEnds(i) ==
  /\ i \in InGrace /\ ~erasure[i].due
  /\ erasure' = [erasure EXCEPT ![i].due = TRUE]
  /\ UNCHANGED <<subjectVars, export, hand, wish, excuses, erasedAs, restores>>

\* cancelDeletion takes the latest request in grace,
AskCancel(h) ==
  /\ signedIn /\ InGrace # {}
  /\ Takes(h, "cancel", Latest(InGrace))
  /\ UNCHANGED <<subjectVars, erasure, export, wish, excuses, erasedAs, restores>>

StillInGrace(i) == i \in InGrace

\* and cancels it if it still is; the user is told when it is too late.
CancelErasure(h) ==
  LET i == hand[h].id IN
  /\ HandsBusy(h, "cancel")
  /\ IF StillInGrace(i)
     THEN erasure' = [erasure EXCEPT ![i].is = "CANCELLED"] /\ wish' = "keep"
     ELSE UNCHANGED <<erasure, wish>>
  /\ HandRests(h)
  /\ UNCHANGED <<subjectVars, export, excuses, erasedAs, restores>>

\* updateMyProfile, and the addresses: the customer is looked up, then the row is written.
EditProfile(h) ==
  /\ signedIn /\ ~archived
  /\ Takes(h, "profile", 0)
  /\ UNCHANGED <<subjectVars, erasure, export, wish, excuses, erasedAs, restores>>

WriteProfile(h) ==
  /\ HandsBusy(h, "profile")
  /\ personal' = TRUE
  /\ HandRests(h)
  /\ UNCHANGED <<acct, archived, signedIn, erasure, export, wish, excuses, erasedAs, restores>>

(***************************************************************************)
(* The sweep: PrivacyErasureCron.                                          *)
(***************************************************************************)
\* findDueDeletions; each user is read before the transaction.
SweepErasures(h, i) ==
  /\ i \in InGrace /\ erasure[i].due
  /\ Takes(h, "erase", i)
  /\ UNCHANGED <<subjectVars, erasure, export, wish, excuses, erasedAs, restores>>

\* anonymizeUser claims every request of the user that is in grace; with none, it is skipped.
Anonymize(h) ==
  /\ HandsBusy(h, "erase")
  /\ IF InGrace = {} THEN UNCHANGED <<erasure, personal, acct, erasedAs>>
     ELSE /\ erasure' = [i \in RequestIds |->
               IF i \in InGrace THEN [erasure[i] EXCEPT !.is = "ANONYMIZED"] ELSE erasure[i]]
          /\ personal' = FALSE /\ acct' = "anonymized" /\ erasedAs' = wish
  /\ HandRests(h)
  /\ UNCHANGED <<archived, signedIn, export, wish, excuses, restores>>

(***************************************************************************)
(* Exports.                                                                *)
(***************************************************************************)
RequestExport ==
  /\ signedIn /\ export = "none"
  /\ export' = "PENDING"
  /\ UNCHANGED <<subjectVars, erasure, hand, wish, excuses, erasedAs, restores>>

\* buildAndSendDataExport, whenever the outbox delivers: READY ends it, every other status,
\* even EXPIRED or FAILED, begins it again; the data are assembled, or a tombstone,
BuildExport(h) ==
  /\ export \notin {"none", "READY"}
  /\ export' = "PROCESSING"
  /\ Takes(h, "bundle", 0)
  /\ UNCHANGED <<subjectVars, erasure, wish, excuses, erasedAs, restores>>

\* stored, and a link to them is e-mailed to the address the user has by then.
StoreExport(h) ==
  /\ HandsBusy(h, "bundle")
  /\ export' = "READY"
  /\ HandRests(h)
  /\ UNCHANGED <<subjectVars, erasure, wish, excuses, erasedAs, restores>>

\* sweepExports: a link expires, a stale request fails.
SweepExports ==
  /\ \/ export = "READY" /\ export' = "EXPIRED"
     \/ export \in {"PENDING", "PROCESSING"} /\ export' = "FAILED"
  /\ UNCHANGED <<subjectVars, erasure, hand, wish, excuses, erasedAs, restores>>

(***************************************************************************)
(* Administrators: softDelete and restore of the customer, setUserStatus   *)
(* of the user.  None of them looks whether the user was erased.           *)
(***************************************************************************)
AdminArchive ==
  /\ ~archived /\ restores < MaxRestores /\ restores' = restores + 1
  /\ archived' = TRUE /\ acct' = "inactive"
  /\ UNCHANGED <<personal, signedIn, erasure, export, hand, wish, excuses, erasedAs>>

AdminRestore ==
  /\ restores < MaxRestores /\ restores' = restores + 1
  /\ archived' = FALSE
  /\ acct' = "active"
  /\ UNCHANGED <<personal, signedIn, erasure, export, hand, wish, excuses, erasedAs>>

-----------------------------------------------------------------------------
PrivacyNext ==
  \/ TokenExpires \/ RequestExport \/ SweepExports \/ AdminArchive \/ AdminRestore
  \/ \E i \in RequestIds : GraceEnds(i)
  \/ \E h \in Hands :
       \/ AskErasure(h) \/ CreateErasure(h) \/ AskCancel(h) \/ CancelErasure(h)
       \/ EditProfile(h) \/ WriteProfile(h) \/ Anonymize(h) \/ BuildExport(h) \/ StoreExport(h)
       \/ \E i \in RequestIds : SweepErasures(h, i)

PrivacySpec == PrivacyInit /\ [][PrivacyNext]_privacyVars

-----------------------------------------------------------------------------
\* Every variable has its type.
PrivacyTypeOK ==
  /\ personal \in BOOLEAN /\ acct \in {"active", "inactive", "anonymized"} /\ archived \in BOOLEAN
  /\ signedIn \in BOOLEAN
  /\ erasure \in [RequestIds -> [is : {"none", "GRACE", "CANCELLED", "ANONYMIZED"}, due : BOOLEAN]]
  /\ export \in {"none", "PENDING", "PROCESSING", "READY", "EXPIRED", "FAILED"}
  /\ hand \in [Hands -> [do : {"idle", "ask", "cancel", "profile", "erase", "bundle"},
                         id : RequestIds \union {0}]]
  /\ wish \in {"delete", "keep"} /\ excuses \subseteq {"doubled", "hasty"}
  /\ erasedAs \in {"none", "delete", "keep"}
  /\ restores \in 0 .. MaxRestores

\* Nobody is erased who was last told that the account is kept, unless two requests for erasure
\* were created at once, so that only one was taken back; and an erasure waits for the grace
\* period, unless the request was renewed while a sweep was under way.
ErasureAsAsked ==
  LET erased == {i \in RequestIds : erasure[i].is = "ANONYMIZED"} IN
  /\ erasedAs = "keep" => "doubled" \in excuses
  /\ excuses = {} => \A i \in erased : erasure[i].due

-----------------------------------------------------------------------------
(***************************************************************************)
(* AddressService: the addresses of one user, of which one is the default. *)
(* Promoting one demotes the others in a transaction; but creating an      *)
(* address counts them first, and deleting the default one looks for its   *)
(* successor afterwards.                                                   *)
(*                                                                         *)
(* The promotions of two requests lock each other's rows: one waits for    *)
(* the other or is the victim of a deadlock, so that each is one step.     *)
(***************************************************************************)
CONSTANTS
  Browsers,      \* requests of the user handled at the same time
  MaxAddresses,  \* bound: addresses created
  MaxFaults     \* bound: crashes, deadlock victims

ASSUME AddressConstantsOK == MaxAddresses \in Nat \ {0} /\ MaxFaults \in Nat

AddressIds == 1 .. MaxAddresses

VARIABLES
  address,   \* UserAddress rows: "none", "live", "gone"
  defaults,  \* the rows with isDefault
  breq,      \* what each request is about to do
  waived,    \* history: the user unset the default, and chose no other since
  muddled,   \* history: requests overlapped, or one died, and no promotion set it right
  faults

addressVars == <<address, defaults, breq, waived, muddled, faults>>

NoWork     == [do |-> "idle", id |-> 1, first |-> FALSE]
LiveAds    == {i \in AddressIds : address[i] = "live"}
NoAddressWork(b)   == breq[b].do = "idle"
Lone(b)    == \A o \in Browsers \ {b} : NoAddressWork(o)
Plans(b, what, i, first) ==
  /\ NoAddressWork(b)
  /\ breq' = [breq EXCEPT ![b] = [do |-> what, id |-> i, first |-> first]]
  /\ muddled' = (muddled \/ ~Lone(b))
  /\ UNCHANGED <<address, defaults, waived, faults>>
Ends(b) == breq' = [breq EXCEPT ![b] = NoWork]

AddressInit ==
  /\ address = [i \in AddressIds |-> "none"] /\ defaults = {}
  /\ breq = [b \in Browsers |-> NoWork]
  /\ waived = FALSE /\ muddled = FALSE /\ faults = 0

\* create counts the addresses: the first one is the default.
CountAddresses(b) == Plans(b, "create", 1, LiveAds = {})

\* It is created as the default before the others are demoted.
CreateAddress(b, chosen) ==
  LET i == 1 + Cardinality({j \in AddressIds : address[j] # "none"}) IN
  /\ breq[b].do = "create" /\ i \in AddressIds
  /\ address' = [address EXCEPT ![i] = "live"]
  /\ defaults' = IF chosen \/ breq[b].first THEN defaults \union {i} ELSE defaults
  /\ waived' = (waived /\ ~breq[b].first)
  /\ breq' = [breq EXCEPT ![b] = IF chosen /\ ~breq[b].first
                                 THEN [NoWork EXCEPT !.do = "promote", !.id = i] ELSE NoWork]
  /\ UNCHANGED <<muddled, faults>>

\* update and setDefault promote an address that was not the default.
AskDefault(b, i) == i \in LiveAds \ defaults /\ Plans(b, "promote", i, FALSE)

Promoted(i) == {i}

\* promoteToDefault; it throws, and changes nothing, if the address has gone.
Promote(b) ==
  LET i == breq[b].id IN
  /\ breq[b].do = "promote"
  /\ IF i \in LiveAds
     THEN defaults' = Promoted(i) /\ waived' = FALSE /\ muddled' = (muddled /\ ~Lone(b))
     ELSE UNCHANGED <<defaults, waived, muddled>>
  /\ Ends(b)
  /\ UNCHANGED <<address, faults>>

\* update with isDefault = false, unless it is the only address: nobody succeeds it.
AskNoDefault(b, i) ==
  /\ i \in LiveAds \cap defaults /\ LiveAds \ {i} # {}
  /\ Plans(b, "demote", i, FALSE)

Demote(b) ==
  LET i == breq[b].id IN
  /\ breq[b].do = "demote"
  /\ defaults' = defaults \ {i}
  /\ waived' = (waived \/ i \in LiveAds)
  /\ Ends(b)
  /\ UNCHANGED <<address, muddled, faults>>

\* remove; for the default one a successor is looked for,
AskRemoval(b, i) == i \in LiveAds /\ Plans(b, "remove", i, i \in defaults)

RemoveAddress(b) ==
  LET i == breq[b].id IN
  /\ breq[b].do = "remove"
  /\ address' = [address EXCEPT ![i] = "gone"]
  /\ defaults' = defaults \ {i}
  /\ breq' = [breq EXCEPT ![b] = IF i \in LiveAds /\ breq[b].first
                                 THEN [NoWork EXCEPT !.do = "succeed"] ELSE NoWork]
  /\ UNCHANGED <<waived, muddled, faults>>

\* the last one by id, which says nothing about its age,
FindSuccessor(b) ==
  /\ breq[b].do = "succeed"
  /\ \/ \E i \in LiveAds : breq' = [breq EXCEPT ![b].do = "crown", ![b].id = i]
     \/ LiveAds = {} /\ Ends(b)
  /\ UNCHANGED <<address, defaults, waived, muddled, faults>>

\* and marked.
Crown(b) ==
  /\ breq[b].do = "crown"
  /\ defaults' = IF breq[b].id \in LiveAds THEN defaults \union {breq[b].id} ELSE defaults
  /\ Ends(b)
  /\ UNCHANGED <<address, waived, muddled, faults>>

AddressCrash(b) ==
  /\ ~NoAddressWork(b) /\ faults < MaxFaults
  /\ faults' = faults + 1 /\ muddled' = TRUE
  /\ Ends(b)
  /\ UNCHANGED <<address, defaults, waived>>

-----------------------------------------------------------------------------
AddressNext ==
  \E b \in Browsers :
    \/ CountAddresses(b) \/ Promote(b) \/ Demote(b) \/ RemoveAddress(b) \/ FindSuccessor(b)
    \/ Crown(b) \/ AddressCrash(b)
    \/ \E chosen \in BOOLEAN : CreateAddress(b, chosen)
    \/ \E i \in AddressIds : AskDefault(b, i) \/ AskNoDefault(b, i) \/ AskRemoval(b, i)

AddressSpec == AddressInit /\ [][AddressNext]_addressVars

-----------------------------------------------------------------------------
\* Every variable has its type.
AddressTypeOK ==
  /\ address \in [AddressIds -> {"none", "live", "gone"}] /\ defaults \subseteq AddressIds
  /\ breq \in [Browsers -> [do : {"idle", "create", "promote", "demote", "remove", "succeed",
                                  "crown"}, id : AddressIds, first : BOOLEAN]]
  /\ waived \in BOOLEAN /\ muddled \in BOOLEAN /\ faults \in 0 .. MaxFaults

\* When no request is under way a user with addresses has exactly one default among them,
\* unless the user unset it, or requests overlapped or died and nothing was promoted since.
OneDefaultAddress ==
  (\A b \in Browsers : NoAddressWork(b)) /\ ~muddled =>
    /\ defaults \subseteq LiveAds /\ Cardinality(defaults) =< 1
    /\ LiveAds # {} /\ ~waived => defaults # {}
=============================================================================
