--------------------------- MODULE EmailQueueProofs ---------------------------
(***************************************************************************)
(* Theorems about EmailQueue for every value of its constants.             *)
(***************************************************************************)
EXTENDS EmailQueue, TLAPS

(***************************************************************************)
(* Type correctness                                                        *)
(***************************************************************************)

\* A consumer that works holds a message.
LEMMA WorkingMessage ==
    ASSUME QueueTypeOK, NEW c \in Consumers, Working(c)
    PROVE  holding[c].msg \in Messages
BY DEF QueueTypeOK, Holding, Working

\* One more mail for a message: its count is positive and no count shrinks.
LEMMA OnceMoreGrows ==
    ASSUME QueueTypeOK, NEW m \in Messages
    PROVE  /\ OnceMore(m) \in [Messages -> 0..2]
           /\ OnceMore(m)[m] > 0
           /\ \A n \in Messages : mailed[n] <= OnceMore(m)[n]
BY DEF QueueTypeOK, OnceMore

LEMMA IdleTyped == Idle \in Holding
BY DEF Idle, Holding

LEMMA QueueInitTyped == QueueInit => QueueTypeOK
<1> SUFFICES ASSUME QueueInit PROVE QueueTypeOK
  OBVIOUS
<1>1. queue \in Seq(Messages) /\ acked \subseteq Messages /\ dropped \subseteq Messages
      /\ redelivered \subseteq Messages /\ lost \in 0..MaxLost
  BY QueueAssumption DEF QueueInit
<1>2. holding \in [Consumers -> Holding] /\ mailed \in [Messages -> 0..2]
  BY IdleTyped DEF QueueInit
<1>3. QED
  BY <1>1, <1>2 DEF QueueTypeOK

LEMMA QueueStepTyped == QueueTypeOK /\ [QueueNext]_queueVars => QueueTypeOK'
<1> SUFFICES ASSUME QueueTypeOK, [QueueNext]_queueVars PROVE QueueTypeOK'
  OBVIOUS
<1>1. ASSUME NEW m \in Messages, Emit(m) PROVE QueueTypeOK'
  BY <1>1 DEF Emit, QueueTypeOK
<1>2. ASSUME NEW c \in Consumers, Deliver(c) PROVE QueueTypeOK'
  <2>1. Head(queue) \in Messages /\ Tail(queue) \in Seq(Messages)
    BY <1>2 DEF Deliver, QueueTypeOK
  <2>2. [msg |-> Head(queue), sent |-> FALSE, live |-> TRUE] \in Holding
    BY <2>1 DEF Holding
  <2>3. holding' \in [Consumers -> Holding]
    BY <1>2, <2>2 DEF Deliver, QueueTypeOK
  <2>4. QED
    BY <1>2, <2>1, <2>3 DEF Deliver, QueueTypeOK
<1>3. ASSUME NEW c \in Consumers, SendMail(c) PROVE QueueTypeOK'
  <2>1. holding' \in [Consumers -> Holding]
    BY <1>3 DEF SendMail, QueueTypeOK, Holding
  <2>2. mailed' \in [Messages -> 0..2]
    BY <1>3, WorkingMessage, OnceMoreGrows DEF SendMail
  <2>3. QED
    BY <1>3, <2>1, <2>2 DEF SendMail, QueueTypeOK
<1>4. ASSUME NEW c \in Consumers, Ack(c) PROVE QueueTypeOK'
  <2>1. holding' \in [Consumers -> Holding]
    BY <1>4, IdleTyped DEF Ack, QueueTypeOK
  <2>2. acked' \subseteq Messages
    BY <1>4, WorkingMessage DEF Ack, MayAck, QueueTypeOK
  <2>3. QED
    BY <1>4, <2>1, <2>2 DEF Ack, QueueTypeOK
<1>5. ASSUME NEW c \in Consumers, SendFails(c) PROVE QueueTypeOK'
  <2>1. holding' \in [Consumers -> Holding]
    BY <1>5, IdleTyped DEF SendFails, QueueTypeOK
  <2>2. dropped' \subseteq Messages
    BY <1>5, WorkingMessage DEF SendFails, AfterNack, QueueTypeOK
  <2>3. mailed' \in [Messages -> 0..2]
    BY <1>5, WorkingMessage, OnceMoreGrows DEF SendFails, QueueTypeOK
  <2>4. QED
    BY <1>5, <2>1, <2>2, <2>3 DEF SendFails, AfterNack, QueueTypeOK
<1>6. ASSUME NEW c \in Consumers, LoseChannel(c) PROVE QueueTypeOK'
  <2>1. holding[c].msg \in Messages
    BY <1>6, WorkingMessage DEF LoseChannel
  <2>2. queue' \in Seq(Messages) /\ redelivered' \subseteq Messages
    BY <1>6, <2>1 DEF LoseChannel, Requeued, QueueTypeOK
  <2>3. [holding EXCEPT ![c] = Idle] \in [Consumers -> Holding]
    BY IdleTyped DEF QueueTypeOK
  <2>4. [holding EXCEPT ![c].live = FALSE] \in [Consumers -> Holding]
    BY DEF QueueTypeOK, Holding
  <2>5. lost' \in 0..MaxLost
    BY <1>6, QueueAssumption DEF LoseChannel, QueueTypeOK
  <2>6. QED
    BY <1>6, <2>2, <2>3, <2>4, <2>5 DEF LoseChannel, QueueTypeOK
<1>7. CASE UNCHANGED queueVars
  BY <1>7 DEF queueVars, QueueTypeOK
<1>8. QED
  BY <1>1, <1>2, <1>3, <1>4, <1>5, <1>6, <1>7 DEF QueueNext, Consume

\* The queue, its consumers and its books are always well typed.
THEOREM QueueTypeCorrect == QueueSpec => []QueueTypeOK
<1>1. QED
  BY QueueInitTyped, QueueStepTyped, PTL DEF QueueSpec

(***************************************************************************)
(* What is acknowledged was sent                                           *)
(***************************************************************************)

\* A consumer past its await has sent the mail of its message.
SentWasMailed ==
    \A c \in Consumers : Working(c) /\ holding[c].sent => mailed[holding[c].msg] > 0

AckInv == AckedWasMailed /\ SentWasMailed

LEMMA AckInit == QueueInit => AckInv
BY DEF QueueInit, AckInv, AckedWasMailed, SentWasMailed, Working, Idle

\* A step that sends nothing anew, and marks no message sent or acknowledged
\* but those that were, keeps the invariant.
LEMMA AckKept ==
    ASSUME QueueTypeOK, QueueTypeOK', AckInv,
           \A m \in Messages : mailed[m] <= mailed'[m],
           \A m \in acked' \ acked : mailed[m] > 0,
           \A c \in Consumers : (Working(c) /\ holding[c].sent)' =>
                /\ Working(c) /\ holding[c].sent
                /\ holding'[c].msg = holding[c].msg
    PROVE  AckInv'
<1>1. ASSUME NEW m \in acked' PROVE mailed'[m] > 0
  <2>1. m \in Messages /\ mailed[m] \in 0..2 /\ mailed'[m] \in 0..2
    BY <1>1 DEF QueueTypeOK
  <2>2. mailed[m] > 0
    BY <1>1 DEF AckInv, AckedWasMailed
  <2>3. QED
    BY <2>1, <2>2
<1>2. ASSUME NEW c \in Consumers, (Working(c) /\ holding[c].sent)'
      PROVE  mailed'[holding'[c].msg] > 0
  <2>1. Working(c) /\ holding[c].sent /\ holding'[c].msg = holding[c].msg
    BY <1>2
  <2>2. holding[c].msg \in Messages
    BY <2>1, WorkingMessage
  <2>3. mailed[holding[c].msg] \in 0..2 /\ mailed'[holding[c].msg] \in 0..2
    BY <2>2 DEF QueueTypeOK
  <2>4. mailed[holding[c].msg] > 0
    BY <2>1 DEF AckInv, SentWasMailed
  <2>5. QED
    BY <2>1, <2>2, <2>3, <2>4
<1>3. QED
  BY <1>1, <1>2 DEF AckInv, AckedWasMailed, SentWasMailed

LEMMA AckStep ==
    QueueTypeOK /\ QueueTypeOK' /\ AckInv /\ [QueueNext]_queueVars => AckInv'
<1> SUFFICES ASSUME QueueTypeOK, QueueTypeOK', AckInv, [QueueNext]_queueVars
             PROVE  AckInv'
  OBVIOUS
<1>0. \A m \in Messages : mailed[m] \in 0..2
  BY DEF QueueTypeOK
<1>1. ASSUME NEW m \in Messages, Emit(m) PROVE AckInv'
  BY <1>0, <1>1, AckKept DEF Emit, Working
<1>2. ASSUME NEW c \in Consumers, Deliver(c) PROVE AckInv'
  BY <1>0, <1>2, AckKept DEF Deliver, Working, QueueTypeOK
<1>3. ASSUME NEW c \in Consumers, SendMail(c) PROVE AckInv'
  <2> DEFINE m == holding[c].msg
  <2>1. m \in Messages /\ mailed' = OnceMore(m) /\ acked' = acked
    BY <1>3, WorkingMessage DEF SendMail
  <2>2. mailed'[m] > 0 /\ \A n \in Messages : mailed[n] <= mailed'[n]
    BY <2>1, OnceMoreGrows
  <2>3. AckedWasMailed'
    BY <1>0, <2>1, <2>2 DEF AckInv, AckedWasMailed, QueueTypeOK
  <2>4. ASSUME NEW d \in Consumers, (Working(d) /\ holding[d].sent)'
        PROVE  mailed'[holding'[d].msg] > 0
    <3>1. CASE d = c
      BY <1>3, <2>2, <3>1 DEF SendMail, QueueTypeOK, Holding
    <3>2. CASE d # c
      <4>1. holding'[d] = holding[d]
        BY <1>3, <3>2 DEF SendMail, QueueTypeOK
      <4>2. Working(d) /\ holding[d].sent
        BY <2>4, <4>1 DEF Working
      <4>3. holding[d].msg \in Messages /\ mailed[holding[d].msg] > 0
        BY <4>2, WorkingMessage DEF AckInv, SentWasMailed
      <4>4. mailed'[holding[d].msg] \in 0..2
        BY <4>3 DEF QueueTypeOK
      <4>5. QED
        BY <1>0, <2>2, <4>1, <4>3, <4>4
    <3>3. QED
      BY <3>1, <3>2
  <2>5. QED
    BY <2>3, <2>4 DEF AckInv, SentWasMailed
<1>4. ASSUME NEW c \in Consumers, Ack(c) PROVE AckInv'
  <2>1. mailed[holding[c].msg] > 0
    BY <1>4 DEF Ack, MayAck, AckInv, SentWasMailed
  <2>2. \A m \in acked' \ acked : mailed[m] > 0
    BY <1>4, <2>1 DEF Ack
  <2>3. \A d \in Consumers : (Working(d) /\ holding[d].sent)' => holding'[d] = holding[d]
    BY <1>4 DEF Ack, Idle, Working, QueueTypeOK
  <2>4. mailed' = mailed
    BY <1>4 DEF Ack
  <2>5. QED
    BY <1>0, <2>2, <2>3, <2>4, AckKept DEF Working
<1>5. ASSUME NEW c \in Consumers, SendFails(c) PROVE AckInv'
  <2>1. \A m \in Messages : mailed[m] <= mailed'[m]
    BY <1>0, <1>5, WorkingMessage, OnceMoreGrows DEF SendFails
  <2>2. \A d \in Consumers : (Working(d) /\ holding[d].sent)' => holding'[d] = holding[d]
    BY <1>5 DEF SendFails, Idle, Working, QueueTypeOK
  <2>3. acked' = acked
    BY <1>5 DEF SendFails
  <2>4. QED
    BY <2>1, <2>2, <2>3, AckKept DEF Working
<1>6. ASSUME NEW c \in Consumers, LoseChannel(c) PROVE AckInv'
  <2>1. \A d \in Consumers : (Working(d) /\ holding[d].sent)' =>
            /\ holding[d].sent
            /\ holding'[d].msg = holding[d].msg
    BY <1>6 DEF LoseChannel, Idle, Working, QueueTypeOK, Holding
  <2>2. acked' = acked /\ mailed' = mailed
    BY <1>6 DEF LoseChannel
  <2>3. QED
    BY <1>0, <2>1, <2>2, AckKept DEF Working
<1>7. CASE UNCHANGED queueVars
  BY <1>7 DEF queueVars, AckInv, AckedWasMailed, SentWasMailed, Working
<1>8. QED
  BY <1>1, <1>2, <1>3, <1>4, <1>5, <1>6, <1>7 DEF QueueNext, Consume

\* No message is acknowledged that SMTP has not delivered, for any number of
\* messages, consumers and lost channels.
THEOREM AckedWereMailed == QueueSpec => []AckedWasMailed
<1>1. AckInv => AckedWasMailed
  BY DEF AckInv
<1>2. QED
  BY <1>1, AckInit, AckStep, QueueTypeCorrect, PTL DEF QueueSpec
(***************************************************************************)
(* One place for a message                                                 *)
(***************************************************************************)

\* The consumers the broker waits for.
Holders(m) == {c \in Consumers : holding[c].msg = m /\ holding[c].live}

\* The broker keeps a message in one place: the queue has no duplicate, no two
\* consumers share a message, and the four places are apart.
PlaceInv ==
    /\ \A i, j \in DOMAIN queue : queue[i] = queue[j] => i = j
    /\ \A m \in Messages : \A c, d \in Holders(m) : c = d
    /\ \A m \in Messages : m \in Ready => Holders(m) = {} /\ m \notin acked \cup dropped
    /\ \A m \in Messages : Holders(m) # {} => m \notin acked \cup dropped
    /\ acked \cap dropped = {}

LEMMA PlaceInit == QueueInit => PlaceInv
BY QueueAssumption DEF QueueInit, PlaceInv, Holders, Ready, Idle

\* A sequence without duplicates, and its members.
Distinct(s) == \A i, j \in DOMAIN s : s[i] = s[j] => i = j
Members(s) == {s[i] : i \in DOMAIN s}

LEMMA AppendedDistinct ==
    ASSUME NEW S, NEW s \in Seq(S), NEW m \in S, Distinct(s), m \notin Members(s)
    PROVE  Distinct(Append(s, m)) /\ Members(Append(s, m)) = Members(s) \cup {m}
<1> DEFINE t == Append(s, m)
<1>1. /\ DOMAIN t = 1..(Len(s) + 1) /\ DOMAIN s = 1..Len(s) /\ Len(s) \in Nat
      /\ t[Len(s) + 1] = m
      /\ \A i \in 1..Len(s) : t[i] = s[i]
  OBVIOUS
<1>2. QED
  BY <1>1 DEF Distinct, Members

LEMMA PrependedDistinct ==
    ASSUME NEW S, NEW s \in Seq(S), NEW m \in S, Distinct(s), m \notin Members(s)
    PROVE  Distinct(<<m>> \o s) /\ Members(<<m>> \o s) = Members(s) \cup {m}
<1> DEFINE t == <<m>> \o s
<1>1. /\ DOMAIN t = 1..(Len(s) + 1) /\ DOMAIN s = 1..Len(s) /\ Len(s) \in Nat
      /\ t[1] = m
      /\ \A i \in 2..(Len(s) + 1) : t[i] = s[i - 1]
  OBVIOUS
<1> HIDE DEF t
<1>2. \A i \in 2..(Len(s) + 1) : i - 1 \in DOMAIN s
  BY <1>1
<1>3. Distinct(t)
  <2> SUFFICES ASSUME NEW i \in DOMAIN t, NEW j \in DOMAIN t, t[i] = t[j] PROVE i = j
    BY DEF Distinct
  <2>1. CASE i = 1 \/ j = 1
    BY <1>1, <1>2, <2>1 DEF Members
  <2>2. CASE i # 1 /\ j # 1
    BY <1>1, <1>2, <2>2 DEF Distinct
  <2>3. QED
    BY <2>1, <2>2
<1>4. Members(t) = Members(s) \cup {m}
  <2>1. \A i \in DOMAIN s : i + 1 \in DOMAIN t /\ t[i + 1] = s[i]
    BY <1>1
  <2>2. Members(s) \cup {m} \subseteq Members(t)
    BY <1>1, <2>1 DEF Members
  <2>3. Members(t) \subseteq Members(s) \cup {m}
    BY <1>1, <1>2 DEF Members
  <2>4. QED
    BY <2>2, <2>3
<1>5. QED
  BY <1>3, <1>4 DEF t

LEMMA TailDistinct ==
    ASSUME NEW S, NEW s \in Seq(S), Distinct(s), s # <<>>
    PROVE  Distinct(Tail(s)) /\ Members(Tail(s)) = Members(s) \ {Head(s)}
<1> DEFINE t == Tail(s)
<1>1. /\ DOMAIN t = 1..(Len(s) - 1) /\ DOMAIN s = 1..Len(s) /\ Len(s) \in Nat \ {0}
      /\ Head(s) = s[1]
      /\ \A i \in 1..(Len(s) - 1) : t[i] = s[i + 1]
  OBVIOUS
<1> HIDE DEF t
<1>2. Distinct(t)
  BY <1>1 DEF Distinct
<1>3. Members(t) = Members(s) \ {s[1]}
  <2>1. \A i \in DOMAIN s : i # 1 => i - 1 \in DOMAIN t /\ t[i - 1] = s[i]
    BY <1>1
  <2>2. Members(s) \ {s[1]} \subseteq Members(t)
    BY <1>1, <2>1 DEF Members
  <2>3. Members(t) \subseteq Members(s) \ {s[1]}
    BY <1>1 DEF Members, Distinct
  <2>4. QED
    BY <2>2, <2>3
<1>4. QED
  BY <1>1, <1>2, <1>3 DEF t

\* A consumer that lets go of its message is no holder any more; the others are.
LEMMA LetGo ==
    ASSUME QueueTypeOK, NEW c \in Consumers, NEW r,
           holding' = [holding EXCEPT ![c] = r], r.msg = NoMessage \/ ~ r.live,
           NEW m \in Messages
    PROVE  Holders(m)' = Holders(m) \ {c}
BY QueueAssumption DEF QueueTypeOK, Holders

LEMMA SoleHolder ==
    ASSUME PlaceInv, NEW m \in Messages, NEW c \in Holders(m)
    PROVE  Holders(m) = {c} /\ m \notin Ready \cup acked \cup dropped
BY DEF PlaceInv

LEMMA PlaceStep == QueueTypeOK /\ PlaceInv /\ [QueueNext]_queueVars => PlaceInv'
<1> SUFFICES ASSUME QueueTypeOK, PlaceInv, [QueueNext]_queueVars PROVE PlaceInv'
  OBVIOUS
<1>0. Distinct(queue) /\ Ready = Members(queue) /\ Ready' = Members(queue')
  BY DEF PlaceInv, Distinct, Ready, Members
<1>1. ASSUME NEW m \in Messages \ Published, Emit(m) PROVE PlaceInv'
  <2>1. m \notin Ready /\ m \notin acked \cup dropped
    BY <1>1 DEF Published
  <2>2. Holders(m) = {}
    BY <1>1, QueueAssumption DEF Published, Unacked, Holders, Working
  <2>3. Distinct(queue') /\ Ready' = Ready \cup {m}
    BY <1>0, <1>1, <2>1, AppendedDistinct DEF Emit, QueueTypeOK
  <2>4. acked' = acked /\ dropped' = dropped /\ \A n \in Messages : Holders(n)' = Holders(n)
    BY <1>1 DEF Emit, Holders
  <2>5. QED
    BY <2>1, <2>2, <2>3, <2>4 DEF PlaceInv, Distinct
<1>2. ASSUME NEW c \in Consumers, Deliver(c) PROVE PlaceInv'
  <2>0. PICK m \in Messages : m = Head(queue)
    BY <1>2 DEF Deliver, QueueTypeOK
  <2>1. Distinct(queue') /\ Ready' = Ready \ {m}
    BY <1>0, <1>2, <2>0, TailDistinct DEF Deliver, QueueTypeOK
  <2>2. m \in Ready
    BY <1>2, <2>0 DEF Deliver, QueueTypeOK, Ready
  <2>3. Holders(m) = {} /\ m \notin acked \cup dropped
    BY <2>2 DEF PlaceInv
  <2>4. /\ acked' = acked /\ dropped' = dropped
        /\ holding' = [holding EXCEPT ![c] = [msg |-> m, sent |-> FALSE, live |-> TRUE]]
    BY <1>2, <2>0 DEF Deliver
  <2>5. Holders(m)' = {c}
    BY <2>3, <2>4 DEF Holders, QueueTypeOK
  <2>6. \A n \in Messages \ {m} : Holders(n)' = Holders(n)
    BY <1>2, <2>4, QueueAssumption DEF Holders, QueueTypeOK, Deliver, Working
  <2>7. QED
    BY <2>1, <2>3, <2>4, <2>5, <2>6 DEF PlaceInv, Distinct
<1>3. ASSUME NEW c \in Consumers, SendMail(c) PROVE PlaceInv'
  <2>1. \A m \in Messages : Holders(m)' = Holders(m)
    BY <1>3 DEF SendMail, Holders, QueueTypeOK, Holding
  <2>2. QED
    BY <1>3, <2>1 DEF SendMail, PlaceInv, Ready
<1>4. ASSUME NEW c \in Consumers, Ack(c) PROVE PlaceInv'
  <2>0. PICK m \in Messages : m = holding[c].msg
    BY <1>4, WorkingMessage DEF Ack, MayAck
  <2>1. holding[c].live => c \in Holders(m)
    BY <2>0 DEF Holders
  <2>2. \A n \in Messages : Holders(n)' = Holders(n) \ {c}
    BY <1>4, LetGo DEF Ack, Idle
  <2>3. queue' = queue /\ dropped' = dropped /\ Ready' = Ready
    BY <1>4 DEF Ack, Ready
  <2>4. acked' = IF holding[c].live THEN acked \cup {m} ELSE acked
    BY <1>4, <2>0 DEF Ack
  <2>5. holding[c].live => Holders(m)' = {} /\ m \notin Ready \cup acked \cup dropped
    BY <2>1, <2>2, SoleHolder
  <2>6. QED
    BY <2>1, <2>2, <2>3, <2>4, <2>5 DEF PlaceInv
<1>5. ASSUME NEW c \in Consumers, SendFails(c) PROVE PlaceInv'
  <2>0. PICK m \in Messages : m = holding[c].msg
    BY <1>5, WorkingMessage DEF SendFails
  <2>1. holding[c].live => c \in Holders(m)
    BY <2>0 DEF Holders
  <2>2. \A n \in Messages : Holders(n)' = Holders(n) \ {c}
    BY <1>5, LetGo DEF SendFails, Idle
  <2>3. queue' = queue /\ acked' = acked /\ Ready' = Ready
    BY <1>5 DEF SendFails, AfterNack, Ready
  <2>4. dropped' = IF holding[c].live THEN dropped \cup {m} ELSE dropped
    BY <1>5, <2>0 DEF SendFails, AfterNack
  <2>5. holding[c].live => Holders(m)' = {} /\ m \notin Ready \cup acked \cup dropped
    BY <2>1, <2>2, SoleHolder
  <2>6. QED
    BY <2>1, <2>2, <2>3, <2>4, <2>5 DEF PlaceInv
<1>6. ASSUME NEW c \in Consumers, LoseChannel(c) PROVE PlaceInv'
  <2>0. PICK m \in Messages : m = holding[c].msg
    BY <1>6, WorkingMessage DEF LoseChannel
  <2>1. c \in Holders(m)
    BY <1>6, <2>0 DEF LoseChannel, Holders
  <2>2. \A n \in Messages : Holders(n)' = Holders(n) \ {c}
    <3>1. CASE holding' = [holding EXCEPT ![c] = Idle]
      BY <3>1, LetGo DEF Idle
    <3>2. CASE holding' = [holding EXCEPT ![c].live = FALSE]
      BY <3>2 DEF Holders, QueueTypeOK, Holding
    <3>3. QED
      BY <1>6, <3>1, <3>2 DEF LoseChannel
  <2>3. Holders(m)' = {} /\ m \notin Ready \cup acked \cup dropped
    BY <2>1, <2>2, SoleHolder
  <2>4. acked' = acked /\ dropped' = dropped
    BY <1>6 DEF LoseChannel
  <2>5. Distinct(queue') /\ Ready' = Ready \cup {m}
    BY <1>0, <1>6, <2>0, <2>3, PrependedDistinct DEF LoseChannel, Requeued, QueueTypeOK
  <2>6. QED
    BY <2>2, <2>3, <2>4, <2>5 DEF PlaceInv, Distinct
<1>7. CASE UNCHANGED queueVars
  BY <1>7 DEF queueVars, PlaceInv, Ready, Holders
<1>8. QED
  BY <1>1, <1>2, <1>3, <1>4, <1>5, <1>6, <1>7 DEF QueueNext, Consume

(***************************************************************************)
(* When a mail may arrive twice                                            *)
(***************************************************************************)

\* Until the broker takes a message back its mail is sent once at most: not yet
\* before its consumer is past the await, nor after it is settled again.  A
\* consumer whose channel is lost works on a message that was taken back.
OnceInv ==
    /\ \A m \in Messages \ redelivered :
        /\ mailed[m] <= 1
        /\ mailed[m] = 0 \/ m \in acked \cup dropped
              \/ \E c \in Consumers : holding[c].msg = m /\ holding[c].sent
    /\ \A c \in Consumers : Working(c) /\ ~ holding[c].live => holding[c].msg \in redelivered

LEMMA OnceInvImplies == QueueTypeOK /\ OnceInv => DuplicateOnlyAfterRedelivery
BY DEF OnceInv, DuplicateOnlyAfterRedelivery, QueueTypeOK

LEMMA OnceInit == QueueInit => OnceInv
BY DEF QueueInit, OnceInv, Working, Idle

\* The mail of a message that was not taken back and that a consumer is about to
\* send has not been sent.
LEMMA NotSentYet ==
    ASSUME QueueTypeOK, PlaceInv, OnceInv, NEW c \in Consumers,
           Working(c), ~ holding[c].sent, holding[c].msg \notin redelivered
    PROVE  holding[c].live /\ mailed[holding[c].msg] = 0
<1> DEFINE m == holding[c].msg
<1>1. m \in Messages /\ holding[c].live /\ c \in Holders(m)
  BY WorkingMessage DEF OnceInv, Holders
<1>2. m \notin acked \cup dropped
  BY <1>1 DEF PlaceInv
<1>3. ASSUME NEW d \in Consumers, holding[d].msg = m, holding[d].sent PROVE FALSE
  <2>1. d \in Holders(m)
    BY <1>1, <1>3 DEF OnceInv, Holders, Working
  <2>2. d = c
    BY <1>1, <2>1 DEF PlaceInv
  <2>3. QED
    BY <1>3, <2>2
<1>4. QED
  BY <1>1, <1>2, <1>3 DEF OnceInv

\* The clause of OnceInv about one message, and what keeps it.
SentOnce(m) ==
    /\ mailed[m] <= 1
    /\ mailed[m] = 0 \/ m \in acked \cup dropped
          \/ \E c \in Consumers : holding[c].msg = m /\ holding[c].sent

LEMMA OnceStep ==
    QueueTypeOK /\ QueueTypeOK' /\ PlaceInv /\ OnceInv /\ [QueueNext]_queueVars => OnceInv'
<1> SUFFICES ASSUME QueueTypeOK, QueueTypeOK', PlaceInv, OnceInv, [QueueNext]_queueVars
             PROVE  OnceInv'
  OBVIOUS
<1>0. /\ \A m \in Messages \ redelivered : SentOnce(m)
      /\ (\A m \in Messages \ redelivered' : SentOnce(m)')
           /\ (\A d \in Consumers :
                  (Working(d) /\ ~ holding[d].live)' => holding'[d].msg \in redelivered')
         => OnceInv'
  BY DEF OnceInv, SentOnce
<1>1. ASSUME NEW m \in Messages, Emit(m) PROVE OnceInv'
  BY <1>1 DEF Emit, OnceInv, Working
<1>2. ASSUME NEW c \in Consumers, Deliver(c) PROVE OnceInv'
  <2>1. /\ \A d \in Consumers : d # c => holding'[d] = holding[d]
        /\ holding'[c].live /\ holding[c].msg = NoMessage
        /\ UNCHANGED <<acked, dropped, mailed, redelivered>>
    BY <1>2 DEF Deliver, Working, QueueTypeOK
  <2>2. ASSUME NEW m \in Messages \ redelivered PROVE SentOnce(m)'
    BY <1>0, <2>1, <2>2, QueueAssumption DEF SentOnce
  <2>3. QED
    BY <1>0, <2>1, <2>2 DEF OnceInv, Working
<1>3. ASSUME NEW c \in Consumers, SendMail(c) PROVE OnceInv'
  <2>0. PICK m \in Messages : m = holding[c].msg
    BY <1>3, WorkingMessage DEF SendMail
  <2>1. /\ \A d \in Consumers : d # c => holding'[d] = holding[d]
        /\ holding'[c].msg = m /\ holding'[c].sent /\ holding'[c].live = holding[c].live
        /\ ~ holding[c].sent
        /\ UNCHANGED <<acked, dropped, redelivered>>
    BY <1>3, <2>0 DEF SendMail, QueueTypeOK, Holding
  <2>2. mailed' = OnceMore(m)
    BY <1>3, <2>0 DEF SendMail
  <2>3. ASSUME m \notin redelivered PROVE SentOnce(m)'
    <3>1. mailed[m] = 0
      BY <1>3, <2>0, <2>3, NotSentYet DEF SendMail
    <3>2. mailed'[m] = 1
      BY <2>2, <3>1 DEF OnceMore, QueueTypeOK
    <3>3. QED
      BY <2>1, <3>2 DEF SentOnce
  <2>4. ASSUME NEW n \in Messages \ redelivered, n # m PROVE SentOnce(n)'
    <3>1. mailed'[n] = mailed[n]
      BY <2>2, <2>4 DEF OnceMore, QueueTypeOK
    <3>2. SentOnce(n)
      BY <1>0, <2>4
    <3>3. \A d \in Consumers : holding[d].msg = n => holding'[d] = holding[d]
      BY <2>0, <2>1, <2>4
    <3>4. QED
      BY <2>1, <3>1, <3>2, <3>3 DEF SentOnce
  <2>5. \A d \in Consumers :
            (Working(d) /\ ~ holding[d].live)' => holding'[d].msg \in redelivered'
    BY <2>0, <2>1, QueueAssumption DEF OnceInv, Working
  <2>6. QED
    BY <1>0, <2>1, <2>3, <2>4, <2>5
<1>4. ASSUME NEW c \in Consumers, Ack(c) PROVE OnceInv'
  <2>0. PICK m \in Messages : m = holding[c].msg
    BY <1>4, WorkingMessage DEF Ack, MayAck
  <2>1. /\ \A d \in Consumers : d # c => holding'[d] = holding[d]
        /\ holding'[c].msg = NoMessage
        /\ acked' = IF holding[c].live THEN acked \cup {m} ELSE acked
        /\ m \notin redelivered => holding[c].live
        /\ UNCHANGED <<dropped, mailed, redelivered>>
    BY <1>4, <2>0 DEF Ack, MayAck, Idle, QueueTypeOK, OnceInv
  <2>2. ASSUME NEW n \in Messages \ redelivered PROVE SentOnce(n)'
    BY <1>0, <2>0, <2>1, <2>2 DEF SentOnce
  <2>3. QED
    BY <1>0, <2>1, <2>2 DEF OnceInv, Working
<1>5. ASSUME NEW c \in Consumers, SendFails(c) PROVE OnceInv'
  <2>0. PICK m \in Messages : m = holding[c].msg
    BY <1>5, WorkingMessage DEF SendFails
  <2>1. /\ \A d \in Consumers : d # c => holding'[d] = holding[d]
        /\ holding'[c].msg = NoMessage
        /\ dropped' = IF holding[c].live THEN dropped \cup {m} ELSE dropped
        /\ mailed' \in {mailed, OnceMore(m)}
        /\ UNCHANGED <<acked, redelivered>>
    BY <1>5, <2>0 DEF SendFails, AfterNack, Idle, QueueTypeOK
  <2>2. ASSUME m \notin redelivered PROVE SentOnce(m)'
    <3>1. mailed[m] = 0 /\ holding[c].live
      BY <1>5, <2>0, <2>2, NotSentYet DEF SendFails
    <3>2. mailed'[m] <= 1
      BY <2>1, <3>1 DEF OnceMore, QueueTypeOK
    <3>3. QED
      BY <2>1, <3>1, <3>2 DEF SentOnce
  <2>3. ASSUME NEW n \in Messages \ redelivered, n # m PROVE SentOnce(n)'
    <3>1. mailed'[n] = mailed[n]
      BY <2>1, <2>3 DEF OnceMore, QueueTypeOK
    <3>2. SentOnce(n)
      BY <1>0, <2>3
    <3>3. \A d \in Consumers : holding[d].msg = n => holding'[d] = holding[d]
      BY <2>0, <2>1, <2>3
    <3>4. QED
      BY <2>1, <3>1, <3>2, <3>3 DEF SentOnce
  <2>4. \A d \in Consumers :
            (Working(d) /\ ~ holding[d].live)' => holding'[d].msg \in redelivered'
    BY <2>0, <2>1, QueueAssumption DEF OnceInv, Working
  <2>5. QED
    BY <1>0, <2>1, <2>2, <2>3, <2>4
<1>6. ASSUME NEW c \in Consumers, LoseChannel(c) PROVE OnceInv'
  <2>0. PICK m \in Messages : m = holding[c].msg
    BY <1>6, WorkingMessage DEF LoseChannel
  <2>1. /\ \A d \in Consumers : d # c => holding'[d] = holding[d]
        /\ holding'[c].msg \in {NoMessage, m}
        /\ redelivered' = redelivered \cup {m}
        /\ UNCHANGED <<acked, dropped, mailed>>
    BY <1>6, <2>0 DEF LoseChannel, Idle, QueueTypeOK, Holding
  <2>2. ASSUME NEW n \in Messages \ redelivered' PROVE SentOnce(n)'
    <3>1. SentOnce(n) /\ n # m
      BY <1>0, <2>1, <2>2
    <3>2. \A d \in Consumers : holding[d].msg = n => holding'[d] = holding[d]
      BY <2>0, <2>1, <3>1
    <3>3. QED
      BY <2>1, <3>1, <3>2 DEF SentOnce
  <2>3. \A d \in Consumers :
            (Working(d) /\ ~ holding[d].live)' => holding'[d].msg \in redelivered'
    BY <2>0, <2>1 DEF OnceInv, Working
  <2>4. QED
    BY <1>0, <2>2, <2>3
<1>7. CASE UNCHANGED queueVars
  BY <1>7 DEF queueVars, OnceInv, Working
<1>8. QED
  BY <1>1, <1>2, <1>3, <1>4, <1>5, <1>6, <1>7 DEF QueueNext, Consume

\* A mail arrives twice only if the broker had taken its message back: neither
\* a failing SMTP call nor a second consumer sends it again.
THEOREM NoOtherDuplicates == QueueSpec => []DuplicateOnlyAfterRedelivery
<1>1. QED
  BY PlaceInit, PlaceStep, OnceInit, OnceStep, OnceInvImplies, QueueTypeCorrect, PTL
     DEF QueueSpec

(***************************************************************************)
(* The pipeline implements MailDelivery                                    *)
(***************************************************************************)

\* A consumer works on messages the broker knows, its channel lost or not.
HeldInv == \A c \in Consumers : Working(c) => holding[c].msg \in Published

LEMMA PublishedPlaces ==
    ASSUME QueueTypeOK
    PROVE  \A m \in Messages :
              m \in Published <=> m \in Ready \cup acked \cup dropped \/ Holders(m) # {}
BY QueueAssumption DEF Published, Unacked, Holders, Working

\* Where the messages are after a step, seen from the step before.
LEMMA PublishedAfter ==
    ASSUME QueueTypeOK'
    PROVE  \A m \in Messages :
              m \in Published' <=> m \in Ready' \cup acked' \cup dropped' \/ Holders(m)' # {}
<1>1. QueueTypeOK' => (\A m \in Messages :
          m \in Published <=> m \in Ready \cup acked \cup dropped \/ Holders(m) # {})'
  BY QueueAssumption DEF Published, Unacked, Holders, Working, Ready, QueueTypeOK
<1>2. QED
  BY <1>1

\* Emit adds its message.
LEMMA EmitPublishes ==
    ASSUME QueueTypeOK, QueueTypeOK', PlaceInv, NEW m \in Messages \ Published, Emit(m)
    PROVE  \A n \in Messages : n \in Published' <=> n \in Published \cup {m}
<1>1. Distinct(queue) /\ Ready = Members(queue) /\ Ready' = Members(queue')
  BY DEF PlaceInv, Distinct, Ready, Members
<1>2. m \notin Ready
  BY DEF Published
<1>3. Ready' = Ready \cup {m}
  BY <1>1, <1>2, AppendedDistinct DEF Emit, QueueTypeOK
<1>4. acked' = acked /\ dropped' = dropped /\ \A n \in Messages : Holders(n)' = Holders(n)
  BY DEF Emit, Holders
<1>5. QED
  BY <1>3, <1>4, PublishedPlaces, PublishedAfter

\* No step but Emit adds to the messages the broker knows, and none takes one away.
LEMMA PublishedGrows ==
    ASSUME QueueTypeOK, QueueTypeOK', PlaceInv, [QueueNext]_queueVars
    PROVE  \/ \A n \in Messages : n \in Published' <=> n \in Published
           \/ \E m \in Messages \ Published :
                /\ Emit(m)
                /\ \A n \in Messages : n \in Published' <=> n \in Published \cup {m}
<1> DEFINE Same == \A n \in Messages : n \in Published' <=> n \in Published
<1>a. Distinct(queue) /\ Ready = Members(queue) /\ Ready' = Members(queue')
  BY DEF PlaceInv, Distinct, Ready, Members
<1>1. ASSUME NEW m \in Messages \ Published, Emit(m)
      PROVE  \A n \in Messages : n \in Published' <=> n \in Published \cup {m}
  BY <1>1, EmitPublishes
<1>2. ASSUME NEW c \in Consumers, Deliver(c) PROVE Same
  <2>1. PICK m \in Messages : m = Head(queue)
    BY <1>2 DEF Deliver, QueueTypeOK
  <2>2. m \in Ready /\ Ready' = Ready \ {m}
    <3>1. m \in Ready
      BY <1>2, <2>1 DEF Deliver, QueueTypeOK, Ready
    <3>2. Ready' = Ready \ {m}
      BY <1>a, <1>2, <2>1, TailDistinct DEF Deliver, QueueTypeOK
    <3>3. QED
      BY <3>1, <3>2
  <2>3. /\ acked' = acked /\ dropped' = dropped
        /\ holding' = [holding EXCEPT ![c] = [msg |-> m, sent |-> FALSE, live |-> TRUE]]
    BY <1>2, <2>1 DEF Deliver
  <2>4. c \in Holders(m)'
    BY <2>3 DEF Holders, QueueTypeOK
  <2>5. \A n \in Messages \ {m} : Holders(n)' = Holders(n)
    BY <1>2, <2>3, QueueAssumption DEF Holders, QueueTypeOK, Deliver, Working
  <2>6. QED
    BY <2>2, <2>3, <2>4, <2>5, PublishedPlaces, PublishedAfter
<1>3. ASSUME NEW c \in Consumers, SendMail(c) PROVE Same
  <2>1. \A m \in Messages : Holders(m)' = Holders(m)
    BY <1>3 DEF SendMail, Holders, QueueTypeOK, Holding
  <2>2. Ready' = Ready /\ acked' = acked /\ dropped' = dropped
    BY <1>3 DEF SendMail, Ready
  <2>3. QED
    BY <2>1, <2>2, PublishedPlaces, PublishedAfter
<1>4. ASSUME NEW c \in Consumers, Ack(c) \/ SendFails(c) PROVE Same
  <2>1. PICK m \in Messages : m = holding[c].msg
    BY <1>4, WorkingMessage DEF Ack, MayAck, SendFails
  <2>2. \A n \in Messages : Holders(n)' = Holders(n) \ {c}
    BY <1>4, LetGo DEF Ack, SendFails, Idle
  <2>3. Ready' = Ready
    BY <1>4 DEF Ack, SendFails, AfterNack, Ready
  <2>4. acked' \cup dropped' = acked \cup dropped \cup (IF holding[c].live THEN {m} ELSE {})
    BY <1>4, <2>1 DEF Ack, SendFails, AfterNack
  <2>5. \A n \in Messages : c \in Holders(n) <=> n = m /\ holding[c].live
    BY <2>1 DEF Holders
  <2>6. QED
    BY <2>2, <2>3, <2>4, <2>5, PublishedPlaces, PublishedAfter
<1>5. ASSUME NEW c \in Consumers, LoseChannel(c) PROVE Same
  <2>1. PICK m \in Messages : m = holding[c].msg
    BY <1>5, WorkingMessage DEF LoseChannel
  <2>2. c \in Holders(m)
    BY <1>5, <2>1 DEF LoseChannel, Holders
  <2>3. \A n \in Messages \ {m} : Holders(n)' = Holders(n)
    <3>1. CASE holding' = [holding EXCEPT ![c] = Idle]
      BY <2>1, <3>1, QueueAssumption DEF Holders, QueueTypeOK, Idle
    <3>2. CASE holding' = [holding EXCEPT ![c].live = FALSE]
      BY <2>1, <3>2 DEF Holders, QueueTypeOK, Holding
    <3>3. QED
      BY <1>5, <3>1, <3>2 DEF LoseChannel
  <2>4. acked' = acked /\ dropped' = dropped
    BY <1>5 DEF LoseChannel
  <2>5. Ready' = Ready \cup {m}
    BY <1>a, <1>5, <2>1, <2>2, SoleHolder, PrependedDistinct DEF LoseChannel, Requeued, QueueTypeOK
  <2>6. QED
    BY <2>2, <2>3, <2>4, <2>5, PublishedPlaces, PublishedAfter
<1>6. CASE UNCHANGED queueVars
  BY <1>6 DEF queueVars, Published, Ready, Unacked, Working
<1>7. QED
  BY <1>1, <1>2, <1>3, <1>4, <1>5, <1>6 DEF QueueNext, Consume

LEMMA HeldInit == QueueInit => HeldInv
BY DEF QueueInit, HeldInv, Working, Idle

LEMMA HeldStep ==
    QueueTypeOK /\ QueueTypeOK' /\ PlaceInv /\ HeldInv /\ [QueueNext]_queueVars => HeldInv'
<1> SUFFICES ASSUME QueueTypeOK, QueueTypeOK', PlaceInv, HeldInv, [QueueNext]_queueVars,
                    NEW c \in Consumers, Working(c)'
             PROVE  holding'[c].msg \in Published'
  BY DEF HeldInv
<1>1. holding'[c].msg \in Messages
  BY DEF QueueTypeOK, Holding, Working
<1>2. \A n \in Messages : n \in Published => n \in Published'
  BY PublishedGrows
<1>3. CASE Deliver(c)
  BY <1>1, <1>3, PublishedAfter DEF Deliver, Holders, QueueTypeOK
<1>4. CASE ~ Deliver(c)
  <2>1. holding'[c].msg = holding[c].msg
    BY <1>4 DEF QueueNext, Consume, Emit, Deliver, SendMail, Ack, SendFails, AfterNack, LoseChannel,
       queueVars, QueueTypeOK, Holding, Idle, Working
  <2>2. QED
    BY <1>1, <1>2, <2>1 DEF HeldInv, Working
<1>5. QED
  BY <1>3, <1>4

LEMMA DeliveryInit == QueueInit => Delivery!Init
<1> SUFFICES ASSUME QueueInit PROVE Delivery!Init
  OBVIOUS
<1>1. Published = {} /\ acked = {} /\ dropped = {}
  BY DEF QueueInit, Published, Ready, Unacked, Working, Idle
<1>2. Fates = [m \in Messages |-> "new"] /\ Delivered = {}
  BY <1>1 DEF Fates, Fate, Delivered, QueueInit
<1>3. QED
  BY <1>2 DEF Delivery!Init

\* A step that moves no message.
LEMMA FatesKept ==
    ASSUME UNCHANGED <<acked, dropped>>,
           \A n \in Messages : n \in Published' <=> n \in Published
    PROVE  Fates' = Fates
BY DEF Fates, Fate

\* A mail for m, or none.
LEMMA OneMoreDelivered ==
    ASSUME QueueTypeOK, NEW m \in Messages, mailed' = OnceMore(m)
    PROVE  Delivered' = Delivered \cup {m}
BY DEF QueueTypeOK, OnceMore, Delivered

LEMMA DeliveryStep ==
    QueueTypeOK /\ QueueTypeOK' /\ PlaceInv /\ AckInv /\ HeldInv /\ [QueueNext]_queueVars
        => [Delivery!Next]_(Delivery!vars)
<1> SUFFICES ASSUME QueueTypeOK, QueueTypeOK', PlaceInv, AckInv, HeldInv,
                    [QueueNext]_queueVars
             PROVE  [Delivery!Next]_(Delivery!vars)
  OBVIOUS
<1> DEFINE Same == \A n \in Messages : n \in Published' <=> n \in Published
<1>a. mailed' = mailed => Delivered' = Delivered
  BY DEF Delivered
<1>b. \A m \in Messages : m \in acked \cup dropped => m \in Published
  BY DEF Published
<1>c. ASSUME Fates' = Fates, Delivered' = Delivered PROVE [Delivery!Next]_(Delivery!vars)
  BY <1>c DEF Delivery!vars
<1>1. ASSUME NEW m \in Messages \ Published, Emit(m) PROVE [Delivery!Next]_(Delivery!vars)
  <2>1. UNCHANGED <<acked, dropped, mailed>> /\ queue' # queue
    BY <1>1 DEF Emit, QueueTypeOK
  <2>2. \A n \in Messages : n \in Published' <=> n \in Published \cup {m}
    BY <1>1, EmitPublishes
  <2>3. Fates[m] = "new" /\ Fates' = [Fates EXCEPT ![m] = "accepted"]
    BY <1>1, <1>b, <2>1, <2>2 DEF Fates, Fate
  <2>4. Delivery!Accept(m)
    BY <1>a, <2>1, <2>3 DEF Delivery!Accept, Delivery!Move
  <2>5. QED
    BY <2>4 DEF Delivery!Next
<1>d. ASSUME NEW c \in Consumers, Consume(c) \/ LoseChannel(c) PROVE Same
  <2>1. CASE lost' # lost \/ holding' # holding
    <3>1. \A m \in Messages : ~ Emit(m)
      BY <2>1 DEF Emit
    <3>2. QED
      BY <3>1, PublishedGrows
  <2>2. CASE lost' = lost /\ holding' = holding
    <3>1. FALSE
      BY <1>d, <2>2, QueueAssumption DEF Consume, Deliver, SendMail, Ack, MayAck, SendFails, AfterNack,
         LoseChannel, Working, QueueTypeOK, Holding, Idle
    <3>2. QED
      BY <3>1
  <2>3. QED
    BY <2>1, <2>2
<1>2. ASSUME NEW c \in Consumers, Deliver(c) \/ LoseChannel(c)
      PROVE  [Delivery!Next]_(Delivery!vars)
  <2>1. UNCHANGED <<acked, dropped, mailed>>
    BY <1>2 DEF Deliver, LoseChannel
  <2>2. QED
    BY <1>2, <1>a, <1>c, <1>d, <2>1, FatesKept DEF Consume
<1>3. ASSUME NEW c \in Consumers, SendMail(c) PROVE [Delivery!Next]_(Delivery!vars)
  <2>1. PICK m \in Messages : m = holding[c].msg
    BY <1>3, WorkingMessage DEF SendMail
  <2>2. mailed' = OnceMore(m) /\ UNCHANGED <<acked, dropped>>
    BY <1>3, <2>1 DEF SendMail
  <2>3. Fates' = Fates /\ Delivered' = Delivered \cup {m}
    BY <1>3, <1>d, <2>2, FatesKept, OneMoreDelivered DEF Consume
  <2>4. Fates[m] # "new"
    BY <1>3, <2>1 DEF SendMail, HeldInv, Fates, Fate
  <2>5. Delivery!Send(m)
    BY <2>3, <2>4 DEF Delivery!Send
  <2>6. QED
    BY <2>5 DEF Delivery!Next
<1>4. ASSUME NEW c \in Consumers, Ack(c) PROVE [Delivery!Next]_(Delivery!vars)
  <2>1. PICK m \in Messages : m = holding[c].msg
    BY <1>4, WorkingMessage DEF Ack, MayAck
  <2>2. UNCHANGED <<dropped, mailed>> /\ Same
    BY <1>4, <1>d DEF Ack, Consume
  <2>3. CASE ~ holding[c].live
    BY <1>4, <1>a, <1>c, <2>2, <2>3, FatesKept DEF Ack
  <2>4. CASE holding[c].live
    <3>1. c \in Holders(m) /\ acked' = acked \cup {m}
      BY <1>4, <2>1, <2>4 DEF Holders, Ack
    <3>2. m \notin acked /\ m \notin dropped /\ m \in Published
      BY <1>4, <2>1, <3>1, SoleHolder DEF HeldInv, Ack, MayAck
    <3>3. Fates[m] = "accepted" /\ Fates' = [Fates EXCEPT ![m] = "done"]
      BY <2>2, <3>1, <3>2 DEF Fates, Fate
    <3>4. m \in Delivered
      BY <1>4, <2>1 DEF Ack, MayAck, AckInv, SentWasMailed, Delivered
    <3>5. Delivery!Finish(m)
      BY <1>a, <2>2, <3>3, <3>4 DEF Delivery!Finish, Delivery!Move
    <3>6. QED
      BY <3>5 DEF Delivery!Next
  <2>5. QED
    BY <2>3, <2>4
<1>5. ASSUME NEW c \in Consumers, SendFails(c) PROVE [Delivery!Next]_(Delivery!vars)
  <2>1. PICK m \in Messages : m = holding[c].msg
    BY <1>5, WorkingMessage DEF SendFails
  <2>2. UNCHANGED acked /\ Same /\ m \in Published
    BY <1>5, <1>d, <2>1 DEF SendFails, Consume, HeldInv
  <2>3. Delivered' \in {Delivered, Delivered \cup {m}}
    BY <1>5, <1>a, <2>1, OneMoreDelivered DEF SendFails
  <2>4. CASE ~ holding[c].live
    <3>1. Fates' = Fates
      BY <1>5, <2>2, <2>4, FatesKept DEF SendFails, AfterNack
    <3>2. Fates[m] # "new"
      BY <2>2 DEF Fates, Fate
    <3>3. Delivered' = Delivered \/ Delivery!Send(m)
      BY <2>3, <3>1, <3>2 DEF Delivery!Send
    <3>4. QED
      BY <1>c, <3>1, <3>3 DEF Delivery!Next
  <2>5. CASE holding[c].live
    <3>1. c \in Holders(m) /\ dropped' = dropped \cup {m}
      BY <1>5, <2>1, <2>5 DEF Holders, SendFails, AfterNack
    <3>2. m \notin acked /\ m \notin dropped
      BY <3>1, SoleHolder
    <3>3. Fates[m] = "accepted" /\ Fates' = [Fates EXCEPT ![m] = "dropped"]
      BY <2>2, <3>1, <3>2 DEF Fates, Fate
    <3>4. Delivery!Drop(m)
      BY <2>3, <3>3 DEF Delivery!Drop, Delivery!Move
    <3>5. QED
      BY <3>4 DEF Delivery!Next
  <2>6. QED
    BY <2>4, <2>5
<1>6. CASE UNCHANGED queueVars
  <2>1. UNCHANGED <<acked, dropped, mailed>> /\ Same
    BY <1>6 DEF queueVars, Published, Ready, Unacked, Working
  <2>2. QED
    BY <1>a, <1>c, <2>1, FatesKept
<1>7. QED
  BY <1>1, <1>2, <1>3, <1>4, <1>5, <1>6 DEF QueueNext, Consume

\* Every behaviour of the pipeline is one of MailDelivery: a message the broker
\* accepted is neither lost nor taken for new however often channels are lost,
\* and is settled once.
THEOREM DeliveryImplemented == QueueSpec => ImplementsMailDelivery
<1>1. QueueSpec => []AckInv
  BY AckInit, AckStep, QueueTypeCorrect, PTL DEF QueueSpec
<1>2. QED
  BY <1>1, DeliveryInit, DeliveryStep, PlaceInit, PlaceStep, HeldInit, HeldStep,
     QueueTypeCorrect, PTL DEF QueueSpec, ImplementsMailDelivery, Delivery!Spec
=============================================================================
