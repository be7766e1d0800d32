------------------------------ MODULE Notices ------------------------------
(***************************************************************************)
(* What a user is told: NotificationService with its push and SMS          *)
(* channels, EmailService, and the outbox handlers that use them for       *)
(* orders, refunds, returns, parcels, complaints, verifications and        *)
(* restocks.  A handler rings the bell, once for each key; only the row    *)
(* that was really inserted is fanned out to the user's devices and phone; *)
(* then the e-mail goes, and one that fails brings the event back.         *)
(*                                                                         *)
(* One user, and one event, or two events about one subject where the      *)
(* handler's key does not tell them apart.  An event may be handled again, *)
(* or by two workers at once: the outbox promises at least once (Outbox).  *)
(* Texts, templates, branding, what the user has read, and giving up after *)
(* too many attempts are left out.                                         *)
(***************************************************************************)
EXTENDS Integers, FiniteSets

CONSTANTS
  Criers,       \* workers handling events, two of which may have the same one
  Devices,      \* browsers that may be registered for push messages
  MaxChoices    \* bound: registrations, and consent given or taken back

ASSUME NoticeConstantsOK == MaxChoices \in Nat

Events == {"first", "second"}

(***************************************************************************)
(* The handlers.  The bell's key names the event itself, or only what it   *)
(* is about; marketing needs consent, on the phone and by e-mail.          *)
(***************************************************************************)
Notice(key, marketing) == [key |-> key, marketing |-> marketing]

OrderPlaced      == Notice("event", FALSE)
SellerNewOrder   == Notice("event", FALSE)
OrderRefunded    == Notice("event", FALSE)
ReturnProgress   == Notice("event", FALSE)
ComplaintUpdate  == Notice("event", FALSE)
CourierAlert     == Notice("subject", FALSE)
KycApproved      == Notice("subject", FALSE)
KycRejected      == Notice("subject", FALSE)
BackInStock      == Notice("event", TRUE)

Handlers == {OrderPlaced, SellerNewOrder, OrderRefunded, ReturnProgress, ComplaintUpdate,
             CourierAlert, KycApproved, KycRejected, BackInStock}

VARIABLES
  handler,    \* the handler of both events
  due,        \* the events not yet acknowledged
  bell,       \* Notification: the keys with a row, and the event that inserted it
  devices,    \* PushSubscription rows of this user
  expired,       \* devices whose push service answers 404 or 410
  consent,    \* the latest ConsentRecord
  crier,      \* what each worker is about to do
  pushes, texts,  \* messages sent for each key
  mails,      \* e-mails sent for each event: none, once, more
  choices,
  remailed,   \* history: events two workers had, or one died with between mail and acknowledgement
  unwanted,   \* history: marketing was sent with no consent since the worker took the event
  cutOff      \* history: live devices whose row was pruned

noticeVars == <<handler, due, bell, devices, expired, consent, crier, pushes, texts, mails,
                choices, remailed, unwanted, cutOff>>
sentVars   == <<pushes, texts, mails, unwanted>>
deviceVars == <<devices, expired, cutOff>>

BellKeys   == Events \cup {"subject"}
Key(e)     == IF handler.key = "event" THEN e ELSE "subject"

Silent == [do |-> "idle", event |-> "none", to |-> {}, dead |-> {}, ok |-> FALSE]
At(w, what)   == crier[w].do = what
Goes(w, what) == crier' = [crier EXCEPT ![w].do = what]

NoticeInit ==
  /\ handler \in Handlers
  /\ due = IF handler.key = "event" THEN {"first"} ELSE Events
  /\ bell = [k \in BellKeys |-> "none"]
  /\ devices = {} /\ expired = {} /\ cutOff = {}
  /\ consent = FALSE /\ choices = 0
  /\ crier = [w \in Criers |-> Silent]
  /\ pushes = [k \in BellKeys |-> [d \in Devices |-> 0]]
  /\ texts = [k \in BellKeys |-> 0] /\ mails = [e \in Events |-> "none"]
  /\ remailed = {} /\ unwanted = FALSE

TakeEvent(w, e) ==
  /\ At(w, "idle") /\ e \in due
  /\ crier' = [crier EXCEPT ![w] = [do |-> "bell", event |-> e, to |-> {}, dead |-> {},
                                    ok |-> consent]]
  /\ remailed' = IF \E v \in Criers : crier[v].event = e THEN remailed \cup {e} ELSE remailed
  /\ UNCHANGED <<handler, due, bell, deviceVars, consent, sentVars, choices>>

(***************************************************************************)
(* NotificationService.create: createMany skips a key that has a row, and  *)
(* the fan-out follows a row that was inserted.                            *)
(***************************************************************************)
\* Slip: the fan-out does not ask whether the row is new.
AnyRow(k) == TRUE

Inserted(k) == bell[k] = "none"

RingBell(w) ==
  LET k == Key(crier[w].event)
  IN /\ At(w, "bell")
     /\ bell' = IF bell[k] = "none" THEN [bell EXCEPT ![k] = crier[w].event] ELSE bell
     /\ Goes(w, IF Inserted(k) THEN "subs" ELSE "mail")
     /\ UNCHANGED <<handler, due, deviceVars, consent, sentVars, choices, remailed>>

\* fanPush reads the user's subscriptions,
ReadSubscriptions(w) ==
  /\ At(w, "subs")
  /\ crier' = [crier EXCEPT ![w].do = "push", ![w].to = devices]
  /\ UNCHANGED <<handler, due, bell, deviceVars, consent, sentVars, choices, remailed>>

\* sends to each, whose push service may fail or say that the device is gone,
PushTo(w, d) ==
  LET k == Key(crier[w].event)
  IN /\ At(w, "push") /\ d \in crier[w].to
     /\ \E sent \in {d \notin expired, FALSE} :
          /\ pushes' = IF sent THEN [pushes EXCEPT ![k][d] = @ + 1] ELSE pushes
          /\ crier' = [crier EXCEPT ![w].to = @ \ {d},
                                    ![w].dead = IF ~sent /\ d \in expired THEN @ \cup {d} ELSE @]
     /\ UNCHANGED <<handler, due, bell, deviceVars, consent, texts, mails, unwanted,
                    choices, remailed>>

\* and prunes those that are.
PruneDevices(w) ==
  /\ At(w, "push") /\ crier[w].to = {}
  /\ devices' = devices \ crier[w].dead
  /\ cutOff' = cutOff \cup ((devices \cap crier[w].dead) \ expired)
  /\ Goes(w, "consent")
  /\ UNCHANGED <<handler, due, bell, expired, consent, sentVars, choices, remailed>>

\* fanOut: marketing needs consent, and an hour that is not quiet.
MayText(quiet) == handler.marketing => consent /\ ~quiet

CheckText(w) ==
  /\ At(w, "consent")
  /\ \E quiet \in BOOLEAN : Goes(w, IF MayText(quiet) THEN "text" ELSE "mail")
  /\ UNCHANGED <<handler, due, bell, deviceVars, consent, sentVars, choices, remailed>>

Unwanted(w) == unwanted' = (unwanted \/ (handler.marketing /\ ~crier[w].ok))

\* The provider may refuse it, or the phone number be none.
SendText(w) ==
  /\ At(w, "text")
  /\ \/ texts' = [texts EXCEPT ![Key(crier[w].event)] = @ + 1] /\ Unwanted(w)
     \/ UNCHANGED <<texts, unwanted>>
  /\ Goes(w, "mail")
  /\ UNCHANGED <<handler, due, bell, deviceVars, consent, pushes, mails, choices,
                 remailed>>

(***************************************************************************)
(* EmailService.send: mail that is not configured, or whose template is    *)
(* missing or disabled, is skipped.                                        *)
(***************************************************************************)
MayMail == handler.marketing => consent

CheckMail(w) ==
  /\ At(w, "mail")
  /\ \E skipped \in BOOLEAN : Goes(w, IF MayMail /\ ~skipped THEN "send" ELSE "done")
  /\ UNCHANGED <<handler, due, bell, deviceVars, consent, sentVars, choices, remailed>>

SendMail(w) ==
  LET e == crier[w].event
  IN /\ At(w, "send")
     /\ mails' = [mails EXCEPT ![e] = IF @ = "none" THEN "once" ELSE "more"]
     /\ Unwanted(w)
     /\ Goes(w, "done")
     /\ UNCHANGED <<handler, due, bell, deviceVars, consent, pushes, texts, choices,
                    remailed>>

\* A failed send is logged and thrown.
MailFails(w) ==
  /\ At(w, "send")
  /\ crier' = [crier EXCEPT ![w] = Silent]
  /\ UNCHANGED <<handler, due, bell, deviceVars, consent, sentVars, choices, remailed>>

Acknowledge(w) ==
  /\ At(w, "done")
  /\ due' = due \ {crier[w].event}
  /\ crier' = [crier EXCEPT ![w] = Silent]
  /\ UNCHANGED <<handler, bell, deviceVars, consent, sentVars, choices, remailed>>

\* The worker dies; the event stays.
CrierDies(w) ==
  /\ ~At(w, "idle")
  /\ crier' = [crier EXCEPT ![w] = Silent]
  /\ remailed' = IF At(w, "done") THEN remailed \cup {crier[w].event} ELSE remailed
  /\ UNCHANGED <<handler, due, bell, deviceVars, consent, sentVars, choices>>

(***************************************************************************)
(* The user.                                                               *)
(***************************************************************************)
Chooses == choices < MaxChoices /\ choices' = choices + 1

\* A device registers, or another user registers it, or this one takes it out.
Register(d) ==
  /\ Chooses /\ d \notin expired /\ devices' = devices \cup {d}
  /\ UNCHANGED <<handler, due, bell, expired, cutOff, consent, crier, sentVars, remailed>>
Unregister(d) ==
  /\ Chooses /\ d \in devices /\ devices' = devices \ {d}
  /\ UNCHANGED <<handler, due, bell, expired, cutOff, consent, crier, sentVars, remailed>>
DeviceGone(d) ==
  /\ d \in devices \ expired /\ expired' = expired \cup {d}
  /\ UNCHANGED <<handler, due, bell, devices, cutOff, consent, crier, sentVars, choices,
                 remailed>>

\* recordConsent appends; the latest counts.
RecordConsent(granted) ==
  /\ Chooses /\ consent' = granted
  /\ crier' = [w \in Criers |-> IF granted /\ ~At(w, "idle") THEN [crier[w] EXCEPT !.ok = TRUE]
                                ELSE crier[w]]
  /\ UNCHANGED <<handler, due, bell, deviceVars, sentVars, remailed>>

-----------------------------------------------------------------------------
NoticeNext ==
  \/ \E w \in Criers :
       \/ \E e \in Events : TakeEvent(w, e)
       \/ RingBell(w) \/ ReadSubscriptions(w)
       \/ \E d \in Devices : PushTo(w, d)
       \/ PruneDevices(w) \/ CheckText(w) \/ SendText(w) \/ CheckMail(w) \/ SendMail(w)
       \/ MailFails(w) \/ Acknowledge(w) \/ CrierDies(w)
  \/ \E d \in Devices : Register(d) \/ Unregister(d) \/ DeviceGone(d)
  \/ \E granted \in BOOLEAN : RecordConsent(granted)

NoticeSpec == NoticeInit /\ [][NoticeNext]_noticeVars

-----------------------------------------------------------------------------
\* Every variable has its type.
NoticeTypeOK ==
  /\ handler \in Handlers /\ due \subseteq Events
  /\ bell \in [BellKeys -> Events \cup {"none"}]
  /\ devices \subseteq Devices /\ expired \subseteq Devices /\ cutOff \subseteq Devices
  /\ consent \in BOOLEAN /\ choices \in 0 .. MaxChoices
  /\ crier \in [Criers -> [do : {"idle", "bell", "subs", "push", "consent", "text", "mail", "send",
                                 "done"},
                           event : Events \cup {"none"}, to : SUBSET Devices,
                           dead : SUBSET Devices, ok : BOOLEAN]]
  /\ pushes \in [BellKeys -> [Devices -> Nat]] /\ texts \in [BellKeys -> Nat]
  /\ mails \in [Events -> {"none", "once", "more"}]
  /\ remailed \subseteq Events /\ unwanted \in BOOLEAN

Acknowledged == {e \in Events : e \notin due /\ (handler.key = "event" => e = "first")}

\* However often an event is handled, its user's phone and each device hear of it once; no
\* event is settled before the bell rang for it, or for its subject; the e-mail comes twice
\* only when two workers had the event, or one died between sending and acknowledging it;
\* marketing goes only to a user who consented when, or after, the event was taken; and only
\* devices that are gone are pruned.
ToldOnce ==
  /\ \A k \in BellKeys : texts[k] =< 1 /\ \A d \in Devices : pushes[k][d] =< 1
  /\ \A e \in Acknowledged : bell[Key(e)] # "none" /\ (handler.key = "event" => bell[e] = e)
  /\ \A e \in Events : mails[e] = "more" => e \in remailed
  /\ ~unwanted
  /\ cutOff = {}
=============================================================================
