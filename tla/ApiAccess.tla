------------------------------ MODULE ApiAccess ------------------------------
(***************************************************************************)
(* ApiKeyService with its guard, and the AuditService that keeps the trail *)
(* of what was done to the keys, as of all else.  A key is shown once and  *)
(* only its hash is kept; a request presents it and is let through, or     *)
(* refused without being told why.                                         *)
(*                                                                         *)
(* The scopes of a key are left out: nothing reads them yet; and so is the *)
(* hash: a presented key is the minted one or it is not.  The trail is     *)
(* listed by createdAt, here the order in which the rows were inserted.    *)
(***************************************************************************)
EXTENDS Integers, FiniteSets, Sequences

CONSTANTS
  ApiKeys,     \* API keys that are ever minted
  Machines,    \* requests about them handled at the same time
  MaxDays,     \* bound: days
  PageSize,    \* rows on a page of the trail
  MaxTrail     \* bound: rows of the trail

ASSUME KeyConstantsOK == MaxDays \in Nat \ {0} /\ PageSize \in Nat \ {0} /\ MaxTrail \in Nat

VARIABLES
  apiKey,    \* the ApiKey rows: what became of each, when it expires, whether it was used
  today,
  mreq,      \* what each request is about to do, and with which key
  trail,     \* the AuditLog rows about keys, oldest first
  auditor,   \* the reader of the trail: the page asked for next, the rows seen so far
  revokers   \* history: revocations answered as done, by key

keyVars == <<apiKey, today, mreq, trail, auditor, revokers>>

Never    == 0
Unminted == [is |-> "none", expires |-> Never, used |-> FALSE]
NoMreq   == [do |-> "idle", key |-> "none", genuine |-> FALSE, dead |-> FALSE]
Away     == [page |-> 0, seen |-> {}, since |-> 0]

KeyInit ==
  /\ apiKey = [k \in ApiKeys |-> Unminted] /\ today = 1
  /\ mreq = [m \in Machines |-> NoMreq]
  /\ trail = <<>> /\ auditor = Away /\ revokers = [k \in ApiKeys |-> 0]

Machine(m, what) == mreq[m].do = what
Lapsed(row)      == row.expires # Never /\ row.expires =< today

\* create: the row; its audit record comes after it.
MintKey(m, k, until) ==
  /\ Machine(m, "idle") /\ apiKey[k].is = "none"
  /\ apiKey' = [apiKey EXCEPT ![k] = [Unminted EXCEPT !.is = "live", !.expires = until]]
  /\ mreq' = [mreq EXCEPT ![m] = [NoMreq EXCEPT !.do = "create", !.key = k]]
  /\ UNCHANGED <<today, trail, auditor, revokers>>

\* revoke: an updateMany of the rows without revokedAt; who changes none is told so.
Revocable(k) == apiKey[k].is = "live"

RevokeKey(m, k) ==
  /\ Machine(m, "idle") /\ apiKey[k].is # "none" /\ Revocable(k)
  /\ apiKey' = [apiKey EXCEPT ![k].is = "revoked"]
  /\ revokers' = [revokers EXCEPT ![k] = @ + 1]
  /\ mreq' = [mreq EXCEPT ![m] = [NoMreq EXCEPT !.do = "revoke", !.key = k]]
  /\ UNCHANGED <<today, trail, auditor>>

\* AuditService.record: one insert, which may fail and then is only logged.
RecordAudit(m) ==
  /\ mreq[m].do \in {"create", "revoke"}
  /\ mreq' = [mreq EXCEPT ![m] = NoMreq]
  /\ \/ /\ Len(trail) < MaxTrail
        /\ trail' = Append(trail, [of |-> mreq[m].key, act |-> mreq[m].do])
     \/ UNCHANGED trail
  /\ UNCHANGED <<apiKey, today, auditor, revokers>>

\* ApiKeyGuard.canActivate with a key that has the prefix of k, and its secret if genuine;
\* a secret is known once it is minted.
PresentKey(m, k, genuine) ==
  /\ Machine(m, "idle") /\ (genuine => apiKey[k].is # "none")
  /\ mreq' = [mreq EXCEPT ![m] = [do |-> "look", key |-> k, genuine |-> genuine,
                                  dead |-> apiKey[k].is # "live" \/ Lapsed(apiKey[k])]]
  /\ UNCHANGED <<apiKey, today, trail, auditor, revokers>>

Accepts(row, genuine) == row.is = "live" /\ ~Lapsed(row) /\ genuine

\* verify: the row, and the tests of it.
LookUpKey(m) ==
  /\ Machine(m, "look")
  /\ mreq' = [mreq EXCEPT ![m] = IF Accepts(apiKey[mreq[m].key], mreq[m].genuine)
                                  THEN [@ EXCEPT !.do = "stamp"] ELSE NoMreq]
  /\ UNCHANGED <<apiKey, today, trail, auditor, revokers>>

\* lastUsedAt, which may fail; the request is let through in any case.
StampKey(m) ==
  /\ Machine(m, "stamp")
  /\ \/ apiKey' = [apiKey EXCEPT ![mreq[m].key].used = TRUE]
     \/ UNCHANGED apiKey
  /\ mreq' = [mreq EXCEPT ![m] = NoMreq]
  /\ UNCHANGED <<today, trail, auditor, revokers>>

\* A request dies between two of its steps.
KillMachine(m) ==
  /\ ~Machine(m, "idle")
  /\ mreq' = [mreq EXCEPT ![m] = NoMreq]
  /\ UNCHANGED <<apiKey, today, trail, auditor, revokers>>

DayPasses ==
  /\ today < MaxDays /\ today' = today + 1
  /\ UNCHANGED <<apiKey, mreq, trail, auditor, revokers>>

\* AuditService.list, newest first: the rows of a page.  Whoever reads the trail through
\* starts at the first page.
PageOf(p) == {i \in 1 .. Len(trail) : /\ i =< Len(trail) - (p - 1) * PageSize
                                      /\ i > Len(trail) - p * PageSize}

OpenTrail ==
  /\ auditor = Away
  /\ auditor' = [page |-> 1, seen |-> {}, since |-> Len(trail)]
  /\ UNCHANGED <<apiKey, today, mreq, trail, revokers>>

LastPage(total) == (total + PageSize - 1) \div PageSize

\* Who has read the last page that there is reads no other.
TurnPage ==
  /\ auditor.page > 0 /\ (auditor.page = 1 \/ auditor.page =< LastPage(Len(trail)))
  /\ auditor' = [auditor EXCEPT !.page = @ + 1, !.seen = @ \union PageOf(auditor.page)]
  /\ UNCHANGED <<apiKey, today, mreq, trail, revokers>>

-----------------------------------------------------------------------------
KeyNext ==
  \/ DayPasses \/ OpenTrail \/ TurnPage
  \/ \E m \in Machines :
       \/ RecordAudit(m) \/ LookUpKey(m) \/ StampKey(m) \/ KillMachine(m)
       \/ \E k \in ApiKeys :
            \/ RevokeKey(m, k)
            \/ \E until \in {Never, 2} : MintKey(m, k, until)
            \/ \E genuine \in BOOLEAN : PresentKey(m, k, genuine)

KeySpec == KeyInit /\ [][KeyNext]_keyVars

-----------------------------------------------------------------------------
\* Every variable has its type.
KeyTypeOK ==
  /\ apiKey \in [ApiKeys -> [is : {"none", "live", "revoked"}, expires : Nat, used : BOOLEAN]]
  /\ today \in 1 .. MaxDays /\ revokers \in [ApiKeys -> Nat]
  /\ mreq \in [Machines -> [do : {"idle", "create", "revoke", "look", "stamp"},
                             key : ApiKeys \union {"none"}, genuine : BOOLEAN, dead : BOOLEAN]]
  /\ trail \in Seq([of : ApiKeys, act : {"create", "revoke"}]) /\ Len(trail) =< MaxTrail
  /\ auditor \in [page : Nat, seen : SUBSET (1 .. MaxTrail), since : 0 .. MaxTrail]

Audited(k, act) == Cardinality({i \in DOMAIN trail : trail[i] = [of |-> k, act |-> act]})

\* No key serves a request that came after it was revoked or had expired, or without its
\* secret; each key is revoked at most once, whoever else tries, and the trail, which may lack
\* a row, has none for what did not happen; and who reads the trail through, while rows are
\* added to it, misses none that was there at the start.
KeysHold ==
  /\ \A m \in Machines : Machine(m, "stamp") => mreq[m].genuine /\ ~mreq[m].dead
  /\ \A k \in ApiKeys :
       /\ revokers[k] =< 1 /\ (revokers[k] = 1 <=> apiKey[k].is = "revoked")
       /\ Audited(k, "revoke") =< revokers[k]
       /\ Audited(k, "create") =< IF apiKey[k].is = "none" THEN 0 ELSE 1
  /\ auditor.page > LastPage(Len(trail)) => 1 .. auditor.since \subseteq auditor.seen
=============================================================================
