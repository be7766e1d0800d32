------------------------------- MODULE Logins -------------------------------
(***************************************************************************)
(* A seller's account with a courier and the calls made with it:           *)
(* CourierAccountService keeps the sealed credentials and a cached login   *)
(* token, ShiprocketProvider sends the requests, and with-resilience       *)
(* bounds their time and repeats those that only read.                     *)
(*                                                                         *)
(* One account in one server process, whose map of logins under way lets   *)
(* one request log in for all.  A set of credentials is a number, and a    *)
(* token the number of the credentials it was issued for.  The bodies of   *)
(* requests, rates and labels are left out; what becomes of the parcels is *)
(* Courier's, the sealing Secrets'.                                        *)
(***************************************************************************)
EXTENDS Integers, FiniteSets

CONSTANTS
  Callers,        \* requests handled at the same time
  Operations,     \* bound: the operations the requests ask for
  MaxConnections  \* bound: times the seller connects the account

\* The mode each operation sends its request in; a label is a read although it is a POST.
ReadOps  == {"getRates", "getLabel", "track", "listPickupLocations"}
WriteOps == {"createShipment", "createReturnShipment", "assignAwb", "schedulePickup", "cancel",
             "registerPickupLocation"}

ASSUME LoginConstantsOK == MaxConnections \in Nat /\ Operations \subseteq ReadOps \cup WriteOps

VARIABLES
  courierAccount,  \* CourierAccount: status, isEnabled, credentials, encryptedToken and its age
  leading,         \* inflightLogins: the request whose login the others wait for
  call,            \* what each request is doing, with what it read
  mixed          \* history: a connection replaced credentials that another request was using

loginVars == <<courierAccount, leading, call, mixed>>

Given  == 0 .. MaxConnections
Hung   == [do |-> "idle", op |-> "none", why |-> "none", given |-> 0, token |-> 0,
           tries |-> 0, ran |-> 0]
Calling(w, what) == call[w].do = what
HangUp(w)        == call' = [call EXCEPT ![w] = Hung]

LoginInit ==
  /\ courierAccount = [status |-> "NONE", enabled |-> FALSE, given |-> 0, token |-> 0, fresh |-> FALSE]
  /\ leading = {}
  /\ call = [w \in Callers |-> Hung]
  /\ mixed = FALSE

(***************************************************************************)
(* connect stores the credentials with the account disabled, logs in with  *)
(* them and stores the token or the error; test logs in with the stored    *)
(* ones.                                                                   *)
(***************************************************************************)
Using(v) == call[v].given # 0

ConnectCourier(w) ==
  LET n == courierAccount.given + 1
  IN /\ Calling(w, "idle") /\ n \in Given
     /\ courierAccount' = [status |-> "PENDING", enabled |-> FALSE, given |-> n, token |-> 0,
                           fresh |-> FALSE]
     /\ call' = [call EXCEPT ![w] = [Hung EXCEPT !.do = "login", !.why = "connect", !.given = n]]
     /\ mixed' = (mixed \/ \E v \in Callers \ {w} : Using(v))
     /\ UNCHANGED leading

TestCourier(w) ==
  /\ Calling(w, "idle") /\ courierAccount.given # 0
  /\ call' = [call EXCEPT ![w] = [Hung EXCEPT !.do = "login", !.why = "test",
                                     !.given = courierAccount.given]]
  /\ UNCHANGED <<courierAccount, leading, mixed>>

\* login, repeated when it fails for a while; it returns a token or throws.
LogIn(w) ==
  /\ Calling(w, "login")
  /\ \E n \in {0, call[w].given} : call' = [call EXCEPT ![w].do = "store", ![w].token = n]
  /\ UNCHANGED <<courierAccount, leading, mixed>>

StoreLogin(w) ==
  LET c == call[w]  a == courierAccount
  IN /\ Calling(w, "store") /\ c.why \in {"connect", "test"}
     /\ courierAccount' =
          IF c.token # 0
          THEN [a EXCEPT !.status = "CONNECTED", !.token = c.token, !.fresh = TRUE,
                         !.enabled = IF c.why = "connect" THEN TRUE ELSE @]
          ELSE [a EXCEPT !.status = "ERROR", !.enabled = IF c.why = "connect" THEN FALSE ELSE @]
     /\ HangUp(w)
     /\ UNCHANGED <<leading, mixed>>

SwitchCourier(on) ==
  /\ courierAccount.given # 0
  /\ courierAccount' = [courierAccount EXCEPT !.enabled = on,
                                   !.status = IF on THEN "CONNECTED" ELSE "DISABLED"]
  /\ UNCHANGED <<leading, call, mixed>>

\* The token comes within six hours of its end.
TokenAges ==
  /\ courierAccount.fresh /\ courierAccount' = [courierAccount EXCEPT !.fresh = FALSE]
  /\ UNCHANGED <<leading, call, mixed>>

(***************************************************************************)
(* getValidContext: a fresh token is used; else the request logs in, or    *)
(* waits for the one that does.                                            *)
(***************************************************************************)
\* Slip: a login under way is not looked for.
EachLeads == TRUE

MayLead == leading = {}

GetContext(w, op) ==
  LET a == courierAccount
      c == [Hung EXCEPT !.op = op, !.given = a.given, !.why = "refresh"]
  IN /\ Calling(w, "idle") /\ a.enabled
     /\ \/ /\ a.fresh /\ UNCHANGED leading
           /\ call' = [call EXCEPT ![w] = [c EXCEPT !.do = "call", !.token = a.token]]
        \/ /\ ~a.fresh /\ leading # {} /\ UNCHANGED leading
           /\ call' = [call EXCEPT ![w] = [c EXCEPT !.do = "wait"]]
        \/ /\ ~a.fresh /\ MayLead /\ leading' = leading \cup {w}
           /\ call' = [call EXCEPT ![w] = [c EXCEPT !.do = "login"]]
     /\ UNCHANGED <<courierAccount, mixed>>

\* refreshToken ends: the token is stored, and the leader and those who wait go on with it;
\* or all of them throw.
Refreshed(w) ==
  LET n == call[w].token
      all == {w} \cup {v \in Callers : Calling(v, "wait")}
  IN /\ Calling(w, "store") /\ call[w].why = "refresh"
     /\ courierAccount' = IF n = 0 THEN courierAccount
                          ELSE [courierAccount EXCEPT !.token = n, !.fresh = TRUE]
     /\ call' = [v \in Callers |-> IF v \notin all THEN call[v]
                                   ELSE IF n = 0 THEN Hung
                                   ELSE [call[v] EXCEPT !.do = "call", !.token = n]]
     /\ leading' = {}
     /\ UNCHANGED mixed

(***************************************************************************)
(* One request to the courier.  It may be carried out whether or not its   *)
(* answer arrives in time; "only IDEMPOTENT reads may use withResilience". *)
(***************************************************************************)
Retries(op) == IF op \in ReadOps THEN 2 ELSE 0

\* How an attempt fails, and whether it is worth another.
Failures      == {"refused", "limited", "server", "timeout", "network"}
Transient(f)  == f # "refused"
Carried(f)    == IF f \in {"refused", "limited"} THEN {0} ELSE {0, 1}

\* An answer, or a failure that repeating would not mend, or the last attempt.
CallReturns(w) ==
  /\ Calling(w, "call")
  /\ HangUp(w)
  /\ UNCHANGED <<courierAccount, leading, mixed>>

\* Again, after a while.
CallAgain(w) ==
  /\ Calling(w, "call") /\ call[w].tries < Retries(call[w].op)
  /\ \E f \in {g \in Failures : Transient(g)} : \E n \in Carried(f) :
       call' = [call EXCEPT ![w].tries = @ + 1, ![w].ran = @ + n]
  /\ UNCHANGED <<courierAccount, leading, mixed>>

-----------------------------------------------------------------------------
LoginNext ==
  \/ \E w \in Callers :
       \/ ConnectCourier(w) \/ TestCourier(w) \/ LogIn(w) \/ StoreLogin(w)
       \/ \E op \in Operations : GetContext(w, op)
       \/ Refreshed(w) \/ CallReturns(w) \/ CallAgain(w)
  \/ \E on \in BOOLEAN : SwitchCourier(on)
  \/ TokenAges

LoginSpec == LoginInit /\ [][LoginNext]_loginVars

-----------------------------------------------------------------------------
\* Every variable has its type.
LoginTypeOK ==
  /\ courierAccount \in [status : {"NONE", "PENDING", "CONNECTED", "ERROR", "DISABLED"},
                         enabled : BOOLEAN, given : Given, token : Given, fresh : BOOLEAN]
  /\ leading \subseteq Callers /\ Cardinality(leading) =< 1
  /\ call \in [Callers -> [do : {"idle", "login", "store", "wait", "call"},
                           op : Operations \cup {"none"},
                           why : {"none", "connect", "test", "refresh"}, given : Given,
                           token : Given, tries : 0 .. 2, ran : 0 .. 2]]
  /\ mixed \in BOOLEAN

\* The cached token belongs to the stored credentials, unless the seller connected another
\* account while a request was using the old ones; one request at a time logs in for all, and
\* nobody waits for a login that is not under way; and a request that changes something at
\* the courier is sent again never after it may have been carried out.
LoginsKept ==
  /\ ~mixed => courierAccount.token \in {0, courierAccount.given}
  /\ {w \in Callers : call[w].why = "refresh" /\ call[w].do \in {"login", "store"}} = leading
  /\ (\E w \in Callers : Calling(w, "wait")) => leading # {}
  /\ \A w \in Callers : call[w].op \in WriteOps => call[w].ran = 0
=============================================================================
