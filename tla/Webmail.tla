------------------------------ MODULE Webmail -------------------------------
(* A browser mailbox: messages the provider delivers (provider.py             *)
(* postal_inbound and inbound_receive, webmail.py capture_provider_inbound),  *)
(* copies of sent ones, folders, deletion, and the count of stored bytes that *)
(* the quota is checked against.                                              *)
(*                                                                            *)
(* A delivery counts its bytes under the mailbox's row lock.  A permanent     *)
(* deletion subtracts from the count it read, without one.                    *)
EXTENDS Integers, FiniteSetsExt

CONSTANTS
  Inbound,       \* messages the provider delivers, each under an event of its own
  Outbound,      \* idempotency keys of sent messages
  Size,          \* bytes counted for a message when it is delivered
  Surplus,       \* bytes of the subject stored for a message that has none
  MessageId,     \* its Message-ID header
  MailQuota,     \* storage_quota_bytes
  Deliverers,    \* delivery requests under way
  Deleters,      \* permanent deletions under way
  NoMessage

Messages == Inbound \cup Outbound

ASSUME WebmailAssumption ==
  /\ Inbound \cap Outbound = {} /\ NoMessage \notin Messages
  /\ Size \in [Messages -> Nat] /\ Surplus \in [Messages -> Nat] /\ MailQuota \in Nat
  /\ MessageId \in [Inbound -> Inbound]

VARIABLES
  inbound,     \* rows of provider_inbound
  mailbox,     \* rows of webmail_messages
  stored,      \* storage_used_bytes
  deliverer,   \* the message each delivery found to be new
  deleter,     \* the message each deletion has read, the count it read with it,
               \* and whether the count has been written since
  drifted      \* whether a deletion has ended on a count written since it was read

webmailVars == <<inbound, mailbox, stored, deliverer, deleter, drifted>>

WebmailTypeOK ==
  /\ inbound \in [Inbound -> {"none", "accepted", "unfiled", "rejected"}]
  /\ mailbox \in [Messages -> {"none", "folder", "trash", "deleted"}]
  /\ stored \in 0 .. MailQuota
  /\ deliverer \in [Deliverers -> Inbound \cup {NoMessage}]
  /\ deleter \in [Deleters -> [message : Messages \cup {NoMessage}, read : 0 .. MailQuota,
                             stale : BOOLEAN]]
  /\ drifted \in BOOLEAN

NotDeleting == [message |-> NoMessage, read |-> 0, stale |-> FALSE]

WebmailInit ==
  /\ inbound = [i \in Inbound |-> "none"]
  /\ mailbox = [x \in Messages |-> "none"]
  /\ stored = 0
  /\ deliverer = [d \in Deliverers |-> NoMessage]
  /\ deleter = [d \in Deleters |-> NotDeleting]
  /\ drifted = FALSE

(* The delivery looks for its event, then for its Message-ID on the route;    *)
(* the provider is told of a duplicate and nothing is written.                *)
DeliveryArrives(d, i) ==
  /\ deliverer[d] = NoMessage
  /\ \A j \in Inbound : MessageId[j] = MessageId[i] => inbound[j] = "none"
  /\ deliverer' = [deliverer EXCEPT ![d] = i]
  /\ UNCHANGED <<inbound, mailbox, stored, deleter, drifted>>

DeliveryEnds(d) == deliverer' = [deliverer EXCEPT ![d] = NoMessage]

(* The policy rejects the message: it is recorded, and kept out of webmail. *)
DeliveryIsRejected(d) ==
  LET i == deliverer[d] IN
  /\ i # NoMessage /\ inbound[i] = "none"
  /\ inbound' = [inbound EXCEPT ![i] = "rejected"]
  /\ DeliveryEnds(d)
  /\ UNCHANGED <<mailbox, stored, deleter, drifted>>

(* Nobody reads the recipient's mail here: the route leads elsewhere, or no   *)
(* ACTIVE mailbox has the address.  The message is recorded, and no mailbox   *)
(* opened later ever gets it.                                                 *)
DeliveryIsUnfiled(d) ==
  LET i == deliverer[d] IN
  /\ i # NoMessage /\ inbound[i] = "none"
  /\ inbound' = [inbound EXCEPT ![i] = "unfiled"]
  /\ DeliveryEnds(d)
  /\ UNCHANGED <<mailbox, stored, deleter, drifted>>

(* A faulty delivery that compares the count without the message. *)
FitsBefore(i) == stored <= MailQuota

MessageFits(i) == stored + Size[i] <= MailQuota

(* The count has been written: what the deletions under way read is stale. *)
CountWritten == [d \in Deleters |->
  IF deleter[d].message = NoMessage THEN deleter[d] ELSE [deleter[d] EXCEPT !.stale = TRUE]]

(* The record, the message and the count in one transaction, with the         *)
(* mailbox locked.                                                            *)
DeliveryIsStored(d) ==
  LET i == deliverer[d] IN
  /\ i # NoMessage /\ inbound[i] = "none" /\ MessageFits(i)
  /\ inbound' = [inbound EXCEPT ![i] = "accepted"]
  /\ mailbox' = [mailbox EXCEPT ![i] = "folder"]
  /\ stored' = stored + Size[i]
  /\ deleter' = CountWritten
  /\ DeliveryEnds(d)
  /\ UNCHANGED drifted

(* Another request recorded the event first (the unique constraint), the      *)
(* mailbox is full (507), or the process died: all is rolled back, and the    *)
(* provider delivers again.                                                   *)
DeliveryFails(d) ==
  /\ deliverer[d] # NoMessage
  /\ DeliveryEnds(d)
  /\ UNCHANGED <<inbound, mailbox, stored, deleter, drifted>>

(* send_message files one copy under the key's id; copies count for nothing. *)
SentIsFiled(k) ==
  /\ mailbox[k] = "none"
  /\ mailbox' = [mailbox EXCEPT ![k] = "folder"]
  /\ UNCHANGED <<inbound, stored, deliverer, deleter, drifted>>

(* update_message and delete_message move between the folders and the trash. *)
MessageIsMoved(x) ==
  /\ mailbox[x] \in {"folder", "trash"}
  /\ mailbox' = [mailbox EXCEPT ![x] = IF @ = "folder" THEN "trash" ELSE "folder"]
  /\ UNCHANGED <<inbound, stored, deliverer, deleter, drifted>>

DeletionReads(d, x) ==
  /\ deleter[d].message = NoMessage /\ mailbox[x] = "trash"
  /\ deleter' = [deleter EXCEPT ![d] = [message |-> x, read |-> stored, stale |-> FALSE]]
  /\ UNCHANGED <<inbound, mailbox, stored, deliverer, drifted>>

(* A faulty deletion that gives back the bytes of copies, which took none. *)
ReclaimedOfAll(x) == Size[x] + Surplus[x]

(* What is given back is measured on the stored message, whose subject is     *)
(* never empty; what was counted, on the delivered one.                       *)
Reclaimed(x) == IF x \in Inbound THEN Size[x] + Surplus[x] ELSE 0

(* The count is written when it changes; whatever came in between is lost. *)
DeletionWrites(d) ==
  LET x == deleter[d].message
      left == Max({0, deleter[d].read - Reclaimed(x)}) IN
  /\ x # NoMessage
  /\ mailbox' = [mailbox EXCEPT ![x] = "deleted"]
  /\ IF left = deleter[d].read
     THEN deleter' = [deleter EXCEPT ![d] = NotDeleting] /\ UNCHANGED stored
     ELSE deleter' = [CountWritten EXCEPT ![d] = NotDeleting] /\ stored' = left
  /\ drifted' = (drifted \/ (deleter[d].stale /\ Reclaimed(x) > 0))
  /\ UNCHANGED <<inbound, deliverer>>

WebmailNext ==
  \/ \E d \in Deliverers : \/ DeliveryIsRejected(d) \/ DeliveryIsUnfiled(d)
                           \/ DeliveryIsStored(d) \/ DeliveryFails(d)
                           \/ \E i \in Inbound : DeliveryArrives(d, i)
  \/ \E k \in Outbound : SentIsFiled(k)
  \/ \E x \in Messages : MessageIsMoved(x) \/ \E d \in Deleters : DeletionReads(d, x)
  \/ \E d \in Deleters : DeletionWrites(d)

WebmailSpec == WebmailInit /\ [][WebmailNext]_webmailVars

(* The count never passes the quota.  It never says more than the inbound     *)
(* messages still kept, and less only by the surplus given back for deleted   *)
(* messages without a subject, until a permanent deletion ends on a count     *)
(* that another delivery or deletion changed since it was read (webmail.py    *)
(* capture_provider_inbound locks the mailbox, delete_message does not).      *)
(* Every message kept belongs to one accepted delivery.                       *)
QuotaCountsTheMail ==
  LET kept    == {i \in Inbound : mailbox[i] \in {"folder", "trash"}}
      deleted == {i \in Inbound : mailbox[i] = "deleted"}
      bytes   == MapThenSumSet(LAMBDA i : Size[i], kept)
      given   == MapThenSumSet(LAMBDA i : Surplus[i], deleted)
  IN
  /\ stored <= MailQuota
  /\ ~drifted => stored <= bytes /\ bytes <= stored + given
  /\ \A i \in Inbound : mailbox[i] # "none" <=> inbound[i] = "accepted"
=============================================================================
