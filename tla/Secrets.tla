------------------------------ MODULE Secrets ------------------------------
(***************************************************************************)
(* What the server keeps encrypted: the credentials of the payment         *)
(* gateways (PaymentConfigService) and the SMTP password                   *)
(* (EmailConfigService), both sealed by CryptoService with one key, and    *)
(* the script that moves the gateways to a new key before the server is    *)
(* restarted with it.                                                      *)
(*                                                                         *)
(* An administrator's request reads, clears and writes in calls of its     *)
(* own; no transaction holds them together, and the script does not stop   *)
(* the server.  A ciphertext is the key it was made with and the secret it *)
(* holds: it opens under that key only.  The descriptive columns, isEnabled *)
(* with its toggle, the audit trail and the masked hints are left out.     *)
(***************************************************************************)
EXTENDS Integers, FiniteSets

CONSTANTS
  Wardens,    \* requests of administrators handled at the same time
  Gateways,   \* PaymentGateway: at most one row each
  MaxSecrets  \* bound: secrets entered

ASSUME SecretsConstantsOK == MaxSecrets \in Nat

Keys == {"old", "new"}

\* Ciphertext; nothing is sealed when the version is 0.
Ciphers == [key : Keys, secret : 0 .. MaxSecrets]
Empty   == [key |-> "old", secret |-> 0]
Opens(cipher, key) == cipher.secret = 0 \/ cipher.key = key

VARIABLES
  gatewayRow,  \* PaymentGatewayConfig: exists, isDefault, credentials
  mailRow,     \* EmailSetting: host and the other names are set, passwordEnc, isConfigured
  keyInUse,    \* PAYMENT_ENCRYPTION_KEY of the running server
  rotation,    \* the script: what it has read, and whether it has committed
  vtask,       \* what each request is about to do
  entered,     \* history: the last secret entered for a gateway
  lastSecret,  \* secrets entered so far
  sealedLate,  \* history: gateways saved after the script read them
  defaultRaced, mailRaced  \* history: a write that another request's steps surround

secretsVars == <<gatewayRow, mailRow, keyInUse, rotation, vtask, entered, lastSecret,
                 sealedLate, defaultRaced, mailRaced>>
mailVars    == <<mailRow, mailRaced>>
rotationVars == <<keyInUse, rotation>>

Row0 == [exists |-> FALSE, default |-> FALSE, credentials |-> Empty]
NoMail == [named |-> FALSE, password |-> Empty, configured |-> FALSE]

Unasked == [do |-> "idle", op |-> "none", gateway |-> "none", default |-> "leave",
            secret |-> FALSE, named |-> FALSE, configured |-> FALSE]
VTasks == [do : {"idle", "clear", "write", "mail"}, op : {"none", "create", "update", "default"},
           gateway : Gateways \cup {"none"}, default : {"yes", "no", "leave"}, secret : BOOLEAN,
           named : BOOLEAN, configured : BOOLEAN]

SecretsInit ==
  /\ gatewayRow = [g \in Gateways |-> Row0]
  /\ mailRow = NoMail
  /\ keyInUse = "old"
  /\ rotation = [at |-> "waiting", read |-> [g \in Gateways |-> Empty]]
  /\ vtask = [w \in Wardens |-> Unasked]
  /\ entered = [g \in Gateways |-> 0] /\ lastSecret = 0
  /\ sealedLate = {} /\ defaultRaced = FALSE /\ mailRaced = FALSE

Answer1(w) == vtask' = [vtask EXCEPT ![w] = Unasked]
Seal       == [key |-> keyInUse, secret |-> lastSecret + 1]
SealedNow(g) == sealedLate' = IF rotation.at = "waiting" THEN sealedLate
                              ELSE IF keyInUse = "new" THEN sealedLate \ {g}
                              ELSE sealedLate \cup {g}

(***************************************************************************)
(* The gateways: create, update and setDefault.  Each clears the other     *)
(* defaults, then writes its own row.                                      *)
(***************************************************************************)
Asked(w, op, g, default, secret) ==
  /\ vtask[w] = Unasked
  /\ op = "create" => ~gatewayRow[g].exists /\ default # "leave"
  /\ op = "update" => gatewayRow[g].exists
  /\ op = "default" => default = "yes" /\ ~secret
  /\ secret => lastSecret < MaxSecrets
  /\ vtask' = [vtask EXCEPT ![w] = [Unasked EXCEPT !.do = IF default = "yes" THEN "clear" ELSE "write",
                                        !.op = op, !.gateway = g, !.default = default,
                                        !.secret = secret]]
  /\ UNCHANGED <<gatewayRow, mailVars, rotationVars, entered, lastSecret, sealedLate,
                 defaultRaced>>

\* updateMany; update leaves its own row alone.
ClearedOthers(w) ==
  [g \in Gateways |-> IF vtask[w].op = "update" /\ g = vtask[w].gateway THEN gatewayRow[g]
                      ELSE [gatewayRow[g] EXCEPT !.default = FALSE]]

ClearDefaults(w) ==
  /\ vtask[w].do = "clear"
  /\ gatewayRow' = ClearedOthers(w)
  /\ vtask' = [vtask EXCEPT ![w].do = "write"]
  /\ UNCHANGED <<mailVars, rotationVars, entered, lastSecret, sealedLate, defaultRaced>>

\* Another default was set since this request cleared them.
Raced(w) == \E g \in Gateways : gatewayRow[g].default /\ g # vtask[w].gateway

SavedSecret(g, secret) ==
  IF secret
  THEN /\ lastSecret < MaxSecrets /\ lastSecret' = lastSecret + 1
       /\ entered' = [entered EXCEPT ![g] = lastSecret + 1]
       /\ SealedNow(g)
  ELSE UNCHANGED <<entered, lastSecret, sealedLate>>

\* The unique index refuses a second row, and an update the row that is not there:
\* the defaults stay cleared.
RowRefused(w) ==
  /\ vtask[w].do = "write"
  /\ gatewayRow[vtask[w].gateway].exists = (vtask[w].op = "create")
  /\ Answer1(w)
  /\ UNCHANGED <<gatewayRow, mailVars, rotationVars, entered, lastSecret, sealedLate,
                 defaultRaced>>

RowWritten(w) ==
  LET t == vtask[w]  g == t.gateway  r == gatewayRow[g]
  IN /\ t.do = "write" /\ r.exists # (t.op = "create")
     /\ gatewayRow' = [gatewayRow EXCEPT ![g] =
             [exists |-> TRUE,
              default |-> IF t.default = "leave" THEN r.default ELSE t.default = "yes",
              credentials |-> IF t.secret THEN Seal ELSE r.credentials]]
     /\ SavedSecret(g, t.secret)
     /\ defaultRaced' = (defaultRaced \/ (t.default = "yes" /\ Raced(w)))
     /\ Answer1(w)
     /\ UNCHANGED <<mailVars, rotationVars>>

(***************************************************************************)
(* The e-mail settings: what the row will hold is read before it is        *)
(* written, and decides isConfigured.                                      *)
(***************************************************************************)
Configured(named, password) == named /\ password.secret # 0

UpdateMail(w, named, secret) ==
  /\ vtask[w] = Unasked
  /\ secret => lastSecret < MaxSecrets
  /\ vtask' = [vtask EXCEPT ![w] =
        [Unasked EXCEPT !.do = "mail", !.named = named, !.secret = secret,
                        !.configured = Configured(named, IF secret THEN Seal ELSE mailRow.password)]]
  /\ UNCHANGED <<gatewayRow, mailVars, rotationVars, entered, lastSecret, sealedLate,
                 defaultRaced>>

WriteMail(w) ==
  LET t == vtask[w]
      password == IF t.secret THEN Seal ELSE mailRow.password
  IN /\ t.do = "mail" /\ (t.secret => lastSecret < MaxSecrets)
     /\ mailRow' = [named |-> t.named, password |-> password, configured |-> t.configured]
     /\ mailRaced' = (mailRaced \/ \E v \in Wardens \ {w} : vtask[v].do = "mail")
     /\ lastSecret' = IF t.secret THEN lastSecret + 1 ELSE lastSecret
     /\ Answer1(w)
     /\ UNCHANGED <<gatewayRow, rotationVars, entered, sealedLate, defaultRaced>>

\* A request is cut off between two of its steps.
DropRequest(w) ==
  /\ vtask[w] # Unasked
  /\ Answer1(w)
  /\ UNCHANGED <<gatewayRow, mailVars, rotationVars, entered, lastSecret, sealedLate,
                 defaultRaced>>

(***************************************************************************)
(* reencrypt-gateway-credentials: every row is read and re-encrypted, and  *)
(* the script ends without a write when one does not open; then all are    *)
(* written in one transaction.  A dry run stops before it.                 *)
(***************************************************************************)
SealedRows == {g \in Gateways : gatewayRow[g].credentials.secret # 0}

ReadRows ==
  /\ rotation.at = "waiting"
  /\ \A g \in SealedRows : Opens(gatewayRow[g].credentials, "old")
  /\ rotation' = [at |-> "prepared",
                  read |-> [g \in Gateways |-> IF g \in SealedRows THEN gatewayRow[g].credentials
                                               ELSE Empty]]
  /\ UNCHANGED <<gatewayRow, mailVars, keyInUse, vtask, entered, lastSecret, sealedLate,
                 defaultRaced>>

Reencrypt(cipher) == [cipher EXCEPT !.key = "new"]

WriteRows ==
  /\ rotation.at = "prepared"
  /\ gatewayRow' = [g \in Gateways |->
        IF rotation.read[g].secret # 0
        THEN [gatewayRow[g] EXCEPT !.credentials = Reencrypt(rotation.read[g])]
        ELSE gatewayRow[g]]
  /\ rotation' = [rotation EXCEPT !.at = "committed"]
  /\ UNCHANGED <<mailVars, keyInUse, vtask, entered, lastSecret, sealedLate, defaultRaced>>

\* A dry run, or a failure of the transaction.
StopScript ==
  /\ rotation.at = "prepared"
  /\ rotation' = [rotation EXCEPT !.at = "waiting"]
  /\ sealedLate' = {}
  /\ UNCHANGED <<gatewayRow, mailVars, keyInUse, vtask, entered, lastSecret, defaultRaced>>

\* "ONLY AFTER a clean real run do you set PAYMENT_ENCRYPTION_KEY and restart": requests
\* under way are cut off.
RestartServer ==
  /\ rotation.at = "committed" /\ keyInUse' = "new"
  /\ vtask' = [w \in Wardens |-> Unasked]
  /\ UNCHANGED <<gatewayRow, mailVars, rotation, entered, lastSecret, sealedLate, defaultRaced>>

-----------------------------------------------------------------------------
GatewayNext ==
  \/ \E w \in Wardens :
       \/ \E op \in {"create", "update", "default"}, g \in Gateways,
             default \in {"yes", "no", "leave"}, secret \in BOOLEAN : Asked(w, op, g, default, secret)
       \/ ClearDefaults(w) \/ RowRefused(w) \/ RowWritten(w) \/ DropRequest(w)
  \/ ReadRows \/ WriteRows \/ StopScript \/ RestartServer

MailNext ==
  \E w \in Wardens :
    \/ \E named, secret \in BOOLEAN : UpdateMail(w, named, secret)
    \/ WriteMail(w) \/ DropRequest(w)

SecretsSpec == SecretsInit /\ [][GatewayNext \/ MailNext]_secretsVars

-----------------------------------------------------------------------------
\* Every variable has its type.
SecretsTypeOK ==
  /\ gatewayRow \in [Gateways -> [exists : BOOLEAN, default : BOOLEAN,
                                  credentials : Ciphers]]
  /\ mailRow \in [named : BOOLEAN, password : Ciphers, configured : BOOLEAN]
  /\ keyInUse \in Keys
  /\ rotation \in [at : {"waiting", "prepared", "committed"}, read : [Gateways -> Ciphers]]
  /\ vtask \in [Wardens -> VTasks]
  /\ entered \in [Gateways -> 0 .. MaxSecrets] /\ lastSecret \in 0 .. MaxSecrets
  /\ sealedLate \subseteq Gateways
  /\ defaultRaced \in BOOLEAN /\ mailRaced \in BOOLEAN

Defaults == {g \in Gateways : gatewayRow[g].default}

\* A rotation loses no gateway's credentials: on the new key each opens, and holds what
\* was entered last, unless it was saved with the old key after the script had read it.
\* Two gateways are the default only when two requests chose one at the same time, and
\* the mail settings say "configured" only when they are, unless two updates overlapped.
SecretsKept ==
  /\ keyInUse = "new" => \A g \in Gateways \ sealedLate :
        /\ Opens(gatewayRow[g].credentials, keyInUse)
        /\ gatewayRow[g].credentials.secret = entered[g]
  /\ ~defaultRaced => Cardinality(Defaults) =< 1
  /\ ~mailRaced => (mailRow.configured <=> mailRow.named /\ mailRow.password.secret # 0)
=============================================================================
