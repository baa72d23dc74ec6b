------------------------- MODULE SmtpSessionProofs --------------------------
(***************************************************************************)
(* Theorems about SmtpSession, for any number of transactions, recipients  *)
(* and body lines and any size limit.                                      *)
(***************************************************************************)
EXTENDS SmtpSession, TLAPS

(* What PublishedOnce needs to be inductive: the open envelope belongs to  *)
(* a transaction that is not in the topic yet, and the topic only holds    *)
(* transactions the client has begun.                                      *)
NotYetPublished ==
  \A k \in 1..Len(topic) :
    /\ topic[k].sender <= mails
    /\ state \in {"MAIL", "RCPT"} => topic[k].sender < mails

(* What PublishedBody needs: the body being read is kept the same way.     *)
BodyKept == mode = "body" => KeptOf(bodyData, sent)

IInv ==
  /\ TypeOK /\ EnvelopeOK /\ BodyKept /\ PublishedBody
  /\ NoMixedEnvelope /\ PublishedOnce /\ AckedIsPublished
  /\ NotYetPublished

-----------------------------------------------------------------------------
(* The event that readMailBody publishes for the open envelope.            *)
NewEvent == [sender |-> mailFrom, recipients |-> rcptTo,
             size |-> bodyData, sent |-> sent]

LEMMA InitIInv == Init => IInv
  BY SessionAssumption
     DEF Init, IInv, TypeOK, EnvelopeOK, NoMixedEnvelope, PublishedOnce,
         AckedIsPublished, NotYetPublished, Mails, Event, BodyKept,
         PublishedBody

(* Publishing the envelope: the heart of the argument.                     *)
LEMMA QueuedIInv ==
  ASSUME IInv, Queued
  PROVE  IInv'
<1> USE SessionAssumption
<1>1. /\ mode = "body" /\ state = "RCPT" /\ mailFrom = mails /\ mails \in Mails
      /\ rcptTo \in Seq(Mails) /\ rcptTo # <<>>
      /\ \A i \in 1..Len(rcptTo) : rcptTo[i] = mails
  BY DEF IInv, TypeOK, EnvelopeOK, Queued, Mails
<1>2. NewEvent \in Event
  BY <1>1 DEF NewEvent, Event, IInv, TypeOK, Mails
<1>3. /\ topic' = Append(topic, NewEvent) /\ topic \in Seq(Event)
      /\ Len(topic) \in Nat
  BY DEF Queued, NewEvent, IInv, TypeOK
<1>4. /\ topic' \in Seq(Event) /\ Len(topic') = Len(topic) + 1
      /\ \A k \in 1..Len(topic) : topic'[k] = topic[k]
      /\ topic'[Len(topic) + 1] = NewEvent
  BY <1>2, <1>3
<1>5. /\ acked' = acked \cup {mails} /\ mode' = "command" /\ state' = "HELO"
      /\ mailFrom' = 0 /\ rcptTo' = <<>> /\ bodyData' = 0
      /\ mails' = mails /\ sent' = sent
  BY DEF Queued
<1>6. TypeOK'
  BY <1>1, <1>4, <1>5 DEF IInv, TypeOK, Mails
<1>7. EnvelopeOK'
  BY <1>5 DEF EnvelopeOK
<1>8. NoMixedEnvelope'
  <2> SUFFICES ASSUME NEW k \in 1..Len(topic')
               PROVE  /\ topic'[k].sender \in Mails
                      /\ topic'[k].recipients # <<>>
                      /\ \A i \in 1..Len(topic'[k].recipients) :
                           topic'[k].recipients[i] = topic'[k].sender
    BY DEF NoMixedEnvelope, Mails
  <2>1. CASE k \in 1..Len(topic)
    BY <2>1, <1>4 DEF IInv, NoMixedEnvelope
  <2>2. CASE k = Len(topic) + 1
    BY <2>2, <1>1, <1>4 DEF NewEvent
  <2> QED
    BY <2>1, <2>2, <1>3, <1>4
<1>9. PublishedOnce'
  <2>1. \A k \in 1..Len(topic) : topic'[k].sender # mails
    BY <1>1, <1>3, <1>4 DEF IInv, NotYetPublished, NoMixedEnvelope, Mails
  <2>2. \A k, l \in 1..Len(topic) :
          topic'[k].sender = topic'[l].sender => k = l
    BY <1>4 DEF IInv, PublishedOnce
  <2>3. topic'[Len(topic) + 1].sender = mails
    BY <1>1, <1>4 DEF NewEvent
  <2> QED
    BY <2>1, <2>2, <2>3, <1>3, <1>4 DEF PublishedOnce
<1>10. AckedIsPublished'
  <2> SUFFICES ASSUME NEW m \in acked'
               PROVE  \E k \in 1..Len(topic') : topic'[k].sender = m
    BY DEF AckedIsPublished
  <2>1. CASE m \in acked
    BY <2>1, <1>3, <1>4 DEF IInv, AckedIsPublished
  <2>2. CASE m = mails
    BY <2>2, <1>1, <1>3, <1>4 DEF NewEvent
  <2> QED
    BY <2>1, <2>2, <1>5
<1>11. NotYetPublished'
  <2> SUFFICES ASSUME NEW k \in 1..Len(topic')
               PROVE  topic'[k].sender <= mails
    BY <1>5 DEF NotYetPublished
  <2>1. CASE k \in 1..Len(topic)
    BY <2>1, <1>4 DEF IInv, NotYetPublished
  <2>2. CASE k = Len(topic) + 1
    BY <2>2, <1>1, <1>4 DEF NewEvent, Mails
  <2> QED
    BY <2>1, <2>2, <1>3, <1>4
<1>12. PublishedBody' /\ BodyKept'
  <2>1. KeptOf(NewEvent.size, NewEvent.sent)
    BY <1>1 DEF IInv, BodyKept, NewEvent
  <2>2. ASSUME NEW k \in 1..Len(topic')
        PROVE  KeptOf(topic'[k].size, topic'[k].sent)
    <3>1. CASE k \in 1..Len(topic)
      BY <3>1, <1>4 DEF IInv, PublishedBody
    <3>2. CASE k = Len(topic) + 1
      BY <3>2, <2>1, <1>4
    <3> QED
      BY <3>1, <3>2, <1>3, <1>4
  <2>3. PublishedBody'
    BY <2>2 DEF PublishedBody, KeptOf
  <2> QED
    BY <2>3, <1>5 DEF BodyKept
<1> QED
  BY <1>6, <1>7, <1>8, <1>9, <1>10, <1>11, <1>12 DEF IInv

(* The topic and the acknowledgements are left alone by everything else.   *)
LEMMA TopicUntouched ==
  ASSUME IInv, UNCHANGED <<topic, acked>>,
         TypeOK', EnvelopeOK', BodyKept',
         mails' >= mails,
         state' \in {"MAIL", "RCPT"} => \/ mails' > mails
                                        \/ state \in {"MAIL", "RCPT"}
  PROVE  IInv'
<1>1. /\ NoMixedEnvelope' /\ PublishedOnce' /\ AckedIsPublished'
      /\ PublishedBody'
  BY DEF IInv, NoMixedEnvelope, PublishedOnce, AckedIsPublished, Mails,
         PublishedBody, KeptOf
<1>2. NotYetPublished'
  BY SessionAssumption
     DEF IInv, NotYetPublished, NoMixedEnvelope, TypeOK, Mails
<1> QED
  BY <1>1, <1>2 DEF IInv

LEMMA NextIInv == IInv /\ [Next]_vars => IInv'
<1> SUFFICES ASSUME IInv, [Next]_vars PROVE IInv'
  OBVIOUS
<1> USE SessionAssumption
<1>0. TypeOK /\ EnvelopeOK /\ BodyKept
  BY DEF IInv
<1>1. CASE Hello
  BY <1>0, <1>1, TopicUntouched DEF Hello, TypeOK, EnvelopeOK, Mails, BodyKept, KeptOf
<1>2. CASE MailFrom
  <2>1. TypeOK' /\ EnvelopeOK'
    BY <1>0, <1>2 DEF MailFrom, TypeOK, EnvelopeOK, Mails
  <2> QED
    BY <1>0, <1>2, <2>1, TopicUntouched DEF MailFrom, TypeOK, BodyKept, KeptOf
<1>3. CASE RcptTo
  <2>1. /\ mails \in Mails /\ rcptTo \in Seq(Mails)
        /\ rcptTo' = Append(rcptTo, mails)
    BY <1>0, <1>3 DEF RcptTo, TypeOK, EnvelopeOK, Mails
  <2>2. /\ rcptTo' \in Seq(Mails) /\ rcptTo' # <<>>
        /\ \A i \in 1..Len(rcptTo') :
             rcptTo'[i] = IF i \in 1..Len(rcptTo) THEN rcptTo[i] ELSE mails
    BY <2>1
  <2>3. TypeOK'
    BY <1>0, <1>3, <2>2 DEF RcptTo, TypeOK, Mails
  <2>4. EnvelopeOK'
    BY <1>0, <1>3, <2>2 DEF RcptTo, EnvelopeOK
  <2> QED
    BY <1>0, <1>3, <2>3, <2>4, TopicUntouched DEF RcptTo, TypeOK, BodyKept, KeptOf
<1>4. CASE Data
  BY <1>0, <1>4, TopicUntouched DEF Data, TypeOK, EnvelopeOK, Mails, BodyKept, KeptOf
<1>5. CASE Rset
  BY <1>0, <1>5, TopicUntouched DEF Rset, TypeOK, EnvelopeOK, Mails, BodyKept, KeptOf
<1>6. CASE AuthChallenge
  BY <1>0, <1>6, TopicUntouched
     DEF AuthChallenge, session, TypeOK, EnvelopeOK, BodyKept, KeptOf
<1>7. CASE AuthAnswer
  BY <1>0, <1>7, TopicUntouched DEF AuthAnswer, session, TypeOK, EnvelopeOK, BodyKept, KeptOf
<1>8. CASE Close
  BY <1>0, <1>8, TopicUntouched DEF Close, session, TypeOK, EnvelopeOK, BodyKept, KeptOf
<1>9. ASSUME NEW length \in LineLengths, BodyLine(length)
      PROVE  IInv'
  <2>1. length \in Nat
    OBVIOUS
  <2>2. TypeOK' /\ EnvelopeOK'
    BY <1>0, <1>9, <2>1 DEF BodyLine, TypeOK, EnvelopeOK
  <2>3. BodyKept'
    BY <1>0, <1>9, <2>1 DEF BodyLine, TypeOK, BodyKept, KeptOf
  <2> QED
    BY <1>0, <1>9, <2>2, <2>3, TopicUntouched DEF BodyLine, TypeOK
<1>10. CASE Queued
  BY <1>10, QueuedIInv
<1>11. CASE Rejected
  BY <1>0, <1>11, TopicUntouched DEF Rejected, session, TypeOK, EnvelopeOK, BodyKept, KeptOf
<1>12. CASE UNCHANGED vars
  BY <1>0, <1>12, TopicUntouched DEF vars, TypeOK, EnvelopeOK, BodyKept, KeptOf
<1> QED
  BY <1>1, <1>2, <1>3, <1>4, <1>5, <1>6, <1>7, <1>8, <1>9, <1>10, <1>11,
     <1>12 DEF Next, AnswerOnly

-----------------------------------------------------------------------------
LEMMA Invariance == Spec => []IInv
  BY InitIInv, NextIInv, PTL DEF Spec

(* The variables of a session keep their types, and its envelope stays     *)
(* that of the client's latest MAIL whatever commands come in which order. *)
THEOREM SessionTypeCorrect == Spec => [](TypeOK /\ EnvelopeOK)
<1>1. IInv => TypeOK /\ EnvelopeOK
  BY DEF IInv
<1> QED
  BY Invariance, <1>1, PTL

(* No published message mixes the addresses of two transactions, however   *)
(* many were abandoned, reset or refused by the queue before.              *)
THEOREM NeverMixed == Spec => []NoMixedEnvelope
<1>1. IInv => NoMixedEnvelope
  BY DEF IInv
<1> QED
  BY Invariance, <1>1, PTL

(* A transaction is published at most once on its connection, also when    *)
(* DATA is repeated after a 451.                                           *)
THEOREM PublishedExactly == Spec => []PublishedOnce
<1>1. IInv => PublishedOnce
  BY DEF IInv
<1> QED
  BY Invariance, <1>1, PTL

(* A 250 after the body means that the queue has the message.              *)
THEOREM AckedMeansPublished == Spec => []AckedIsPublished
<1>1. IInv => AckedIsPublished
  BY DEF IInv
<1> QED
  BY Invariance, <1>1, PTL

(* A repeated DATA publishes nothing of the refused body, and only a body  *)
(* beyond SIZE is cut.                                                     *)
THEOREM BodyIsItsOwn == Spec => []PublishedBody
<1>1. IInv => PublishedBody
  BY DEF IInv
<1> QED
  BY Invariance, <1>1, PTL
=============================================================================
