---------------------------- MODULE SmtpSession -----------------------------
(***************************************************************************)
(* One connection of the SMTP ingress (Session in session.go), from the    *)
(* greeting to the end, with the topic its messages are published to.      *)
(* Addresses are abstracted to the mail transaction they belong to: the    *)
(* client numbers its MAIL commands, and the sender and the recipients it  *)
(* then gives carry that number.  A body is abstracted to its length.      *)
(***************************************************************************)
EXTENDS Integers, Sequences, FiniteSets

CONSTANTS MaxMails,       \* bound on the MAIL commands of a connection
          MaxRecipients,  \* bound on the recipients of a message
          LineLengths,    \* lengths of body lines, line end included
          MaxSent,        \* bound on the length of the body a client sends
          SizeLimit       \* 10485760, scaled down

VARIABLES mode,      \* what Handle reads: a command, an AUTH answer, a body
          state,     \* Session.state
          mailFrom,  \* Session.mailFrom, 0 for ""
          rcptTo,    \* Session.rcptTo
          bodyData,  \* length of Session.bodyData
          mails,     \* client: MAIL commands sent
          sent,      \* client: length of the body being sent
          topic,     \* the events published, in order
          acked      \* client: transactions answered "250 Queue OK"

vars == <<mode, state, mailFrom, rcptTo, bodyData, mails, sent, topic, acked>>

session == <<state, mailFrom, rcptTo, bodyData>>

Mails == 1..MaxMails

Event == [sender : 0..MaxMails, recipients : Seq(Mails), size : Nat, sent : Nat]

ASSUME SessionAssumption ==
  /\ MaxMails \in Nat /\ MaxRecipients \in Nat
  /\ MaxSent \in Nat /\ SizeLimit \in Nat
  /\ LineLengths \subseteq Nat

Init ==
  /\ mode = "command"
  /\ state = "INIT" /\ mailFrom = 0 /\ rcptTo = <<>> /\ bodyData = 0
  /\ mails = 0 /\ sent = 0
  /\ topic = <<>> /\ acked = {}

-----------------------------------------------------------------------------
(* Commands.                                                               *)

(* HELO and EHLO with a host name.                                         *)
Hello ==
  /\ mode = "command"
  /\ state' = "HELO" /\ mailFrom' = 0 /\ rcptTo' = <<>>
  /\ UNCHANGED <<mode, bodyData, mails, sent, topic, acked>>

FaultyMailFrom ==
  /\ mode = "command"
  /\ mails < MaxMails
  /\ mails' = mails + 1
  /\ mailFrom' = mails'
  /\ state' = "MAIL"
  /\ UNCHANGED <<mode, rcptTo, bodyData, sent, topic, acked>>

(* MAIL FROM is accepted in any state and starts the envelope anew.        *)
MailFrom ==
  /\ mode = "command"
  /\ mails < MaxMails
  /\ mails' = mails + 1
  /\ mailFrom' = mails'
  /\ state' = "MAIL"
  /\ rcptTo' = <<>>
  /\ UNCHANGED <<mode, bodyData, sent, topic, acked>>

(* RCPT TO needs a sender; anything else is answered 503.                  *)
RcptTo ==
  /\ mode = "command"
  /\ state \in {"MAIL", "RCPT"}
  /\ Len(rcptTo) < MaxRecipients
  /\ rcptTo' = Append(rcptTo, mails)
  /\ state' = "RCPT"
  /\ UNCHANGED <<mode, mailFrom, bodyData, mails, sent, topic, acked>>

FaultyData ==
  /\ mode = "command"
  /\ state = "RCPT"
  /\ mode' = "body"
  /\ sent' = 0
  /\ UNCHANGED <<session, mails, topic, acked>>

(* DATA needs a recipient; readMailBody starts from an empty body.         *)
Data ==
  /\ mode = "command"
  /\ state = "RCPT"
  /\ mode' = "body"
  /\ bodyData' = 0 /\ sent' = 0
  /\ UNCHANGED <<state, mailFrom, rcptTo, mails, topic, acked>>

Rset ==
  /\ mode = "command"
  /\ state' = "HELO" /\ mailFrom' = 0 /\ rcptTo' = <<>> /\ bodyData' = 0
  /\ UNCHANGED <<mode, mails, sent, topic, acked>>

(* AUTH PLAIN without an initial response reads one more line, whatever it *)
(* holds.  The outcome is only told to the client: nothing depends on it.  *)
AuthChallenge ==
  /\ mode = "command"
  /\ mode' = "auth"
  /\ UNCHANGED <<session, mails, sent, topic, acked>>

AuthAnswer ==
  /\ mode = "auth"
  /\ mode' = "command"
  /\ UNCHANGED <<session, mails, sent, topic, acked>>

(* NOOP, STARTTLS, AUTH with a response, blank lines, unknown commands,    *)
(* syntax errors and commands out of sequence only get an answer.          *)
AnswerOnly ==
  /\ mode = "command"
  /\ UNCHANGED vars

(* QUIT, or the connection breaks: in the middle of a body it is dropped.  *)
Close ==
  /\ mode # "closed"
  /\ mode' = "closed"
  /\ UNCHANGED <<session, mails, sent, topic, acked>>

-----------------------------------------------------------------------------
(* readMailBody.                                                           *)

(* The limit is compared with what is stored so far, so the line that      *)
(* crosses it is still stored, and later ones are dropped silently.        *)
BodyLine(length) ==
  /\ mode = "body"
  /\ sent + length <= MaxSent
  /\ sent' = sent + length
  /\ bodyData' = IF bodyData < SizeLimit THEN bodyData + length ELSE bodyData
  /\ UNCHANGED <<mode, state, mailFrom, rcptTo, mails, topic, acked>>

FaultyQueued ==
  /\ mode = "body"
  /\ topic' = Append(topic, [sender |-> mailFrom, recipients |-> rcptTo,
                             size |-> bodyData, sent |-> sent])
  /\ acked' = acked \cup {mails}
  /\ mode' = "command"
  /\ UNCHANGED <<session, mails, sent>>

(* The final dot, and the publisher accepts the event: 250, and the state  *)
(* of the transaction is reset.                                            *)
Queued ==
  /\ mode = "body"
  /\ topic' = Append(topic, [sender |-> mailFrom, recipients |-> rcptTo,
                             size |-> bodyData, sent |-> sent])
  /\ acked' = acked \cup {mails}
  /\ mode' = "command"
  /\ state' = "HELO" /\ mailFrom' = 0 /\ rcptTo' = <<>> /\ bodyData' = 0
  /\ UNCHANGED <<mails, sent>>

FaultyRejected ==
  /\ mode = "body"
  /\ acked' = acked \cup {mails}
  /\ mode' = "command"
  /\ UNCHANGED <<session, mails, sent, topic>>

(* The final dot, and the publisher fails: 451, and the envelope is kept,  *)
(* so that the client can send DATA again.                                 *)
Rejected ==
  /\ mode = "body"
  /\ mode' = "command"
  /\ UNCHANGED <<session, mails, sent, topic, acked>>

Next ==
  \/ Hello \/ MailFrom \/ RcptTo \/ Data \/ Rset
  \/ AuthChallenge \/ AuthAnswer \/ AnswerOnly \/ Close
  \/ \E length \in LineLengths : BodyLine(length)
  \/ Queued \/ Rejected
  \/ mode = "closed" /\ UNCHANGED vars

Spec == Init /\ [][Next]_vars

-----------------------------------------------------------------------------
(* Types of the session, of the client and of the topic.                   *)
TypeOK ==
  /\ mode \in {"command", "auth", "body", "closed"}
  /\ state \in {"INIT", "HELO", "MAIL", "RCPT"}
  /\ mailFrom \in 0..MaxMails
  /\ rcptTo \in Seq(Mails)
  /\ bodyData \in Nat /\ sent \in Nat
  /\ mails \in 0..MaxMails
  /\ topic \in Seq(Event)
  /\ acked \subseteq Mails

(* The envelope kept between commands belongs to the client's latest MAIL, *)
(* and a body is only read for a complete envelope.                        *)
EnvelopeOK ==
  /\ state \in {"MAIL", "RCPT"} => mailFrom = mails /\ mails > 0
  /\ state = "RCPT" => rcptTo # <<>>
  /\ state = "MAIL" => rcptTo = <<>>
  /\ state \in {"MAIL", "RCPT"} => \A i \in 1..Len(rcptTo) : rcptTo[i] = mails
  /\ mode = "body" => state = "RCPT"

(* Every published message has a sender and at least one recipient, all    *)
(* given in one and the same mail transaction, whatever transactions were  *)
(* begun, abandoned, reset or rejected by the queue before.                *)
NoMixedEnvelope ==
  \A k \in 1..Len(topic) :
    /\ topic[k].sender \in Mails
    /\ topic[k].recipients # <<>>
    /\ \A i \in 1..Len(topic[k].recipients) :
         topic[k].recipients[i] = topic[k].sender

(* A transaction is published at most once on a connection, also when DATA *)
(* is retried after the queue was offline.                                 *)
PublishedOnce ==
  \A k, l \in 1..Len(topic) : topic[k].sender = topic[l].sender => k = l

(* A message answered 250 has been handed to the queue.                    *)
AckedIsPublished ==
  \A m \in acked : \E k \in 1..Len(topic) : topic[k].sender = m

(* How much of a body of length whole is kept in length kept.              *)
KeptOf(kept, whole) ==
  IF whole <= SizeLimit THEN kept = whole ELSE kept \in SizeLimit..whole

(* What is published is the body of the DATA that was answered, nothing of *)
(* an earlier refused one: all of it up to SIZE, and beyond SIZE all lines *)
(* until the limit is reached.                                             *)
PublishedBody ==
  \A k \in 1..Len(topic) : KeptOf(topic[k].size, topic[k].sent)
=============================================================================
