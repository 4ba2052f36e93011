-------------------------- MODULE GuardClientProofs --------------------------
(***************************************************************************)
(* Facts about the operations of GuardClient, for a queue of any size and  *)
(* any number of calls: none of them leaves a job in the queue without the *)
(* loop that empties it, none invents a job, and an operator's answer is   *)
(* not dropped for want of room.                                           *)
(***************************************************************************)
EXTENDS GuardClient, TLAPS

ClientOK(c) ==
  /\ c \in ClientType
  /\ Len(c.queue) <= MaxQueue
  /\ c.queue # <<>> => c.draining
  /\ c.draining <=> c.sending # NoJob

(* What the client has in hand.                                            *)
Contents(c) == {job \in Job : Underway(c, job)}

GuarddOK == guardd \in [up : BOOLEAN, token : Tokens]

-----------------------------------------------------------------------------
LEMMA BearerIsToken ==
  ASSUME NEW c \in ClientType, GuarddOK
  PROVE  Bearer(c) \in Tokens
BY DEF Bearer, ClientType, GuarddOK

(* Operations that touch neither queue, loop nor bypass.                   *)
SameJobs(c, d) ==
  /\ d.queue = c.queue
  /\ d.sending = c.sending
  /\ d.draining = c.draining
  /\ d.bypass = c.bypass

LEMMA SameJobsKeep ==
  ASSUME NEW c, ClientOK(c), NEW d \in ClientType, SameJobs(c, d)
  PROVE  ClientOK(d) /\ Contents(d) = Contents(c)
BY DEF ClientOK, SameJobs, Contents, Underway

LEMMA SendsKeeps ==
  ASSUME NEW c, ClientOK(c), GuarddOK
  PROVE  ClientOK(Sends(c)) /\ Contents(Sends(c)) = Contents(c)
<1>1. c \in ClientType /\ Bearer(c) \in Tokens
  BY BearerIsToken DEF ClientOK
<1>2. Sends(c) \in ClientType /\ SameJobs(c, Sends(c))
  BY <1>1 DEF Sends, ClientType, SameJobs
<1>. QED
  BY <1>2, SameJobsKeep

LEMMA SucceedsKeeps ==
  ASSUME NEW c, ClientOK(c)
  PROVE  /\ ClientOK(Succeeds(c)) /\ Contents(Succeeds(c)) = Contents(c)
         /\ ~Succeeds(c).waiting /\ Succeeds(c).unfit = c.unfit
<1>1. c \in ClientType
  BY DEF ClientOK
<1>2. /\ Succeeds(c) \in ClientType /\ SameJobs(c, Succeeds(c))
      /\ ~Succeeds(c).waiting /\ Succeeds(c).unfit = c.unfit
  BY <1>1 DEF Succeeds, ClientType, SameJobs
<1>. QED
  BY <1>2, SameJobsKeep

LEMMA FailsKeeps ==
  ASSUME NEW c, ClientOK(c), NEW why
  PROVE  /\ ClientOK(Fails(c, why)) /\ Contents(Fails(c, why)) = Contents(c)
         /\ Fails(c, why).unfit = c.unfit
<1>1. c \in ClientType
  BY DEF ClientOK
<1>2. /\ Fails(c, why) \in ClientType /\ SameJobs(c, Fails(c, why))
      /\ Fails(c, why).unfit = c.unfit
  BY <1>1 DEF Fails, ClientType, SameJobs
<1>. QED
  BY <1>2, SameJobsKeep

LEMMA RetryNowKeeps ==
  ASSUME NEW c, ClientOK(c)
  PROVE  /\ ClientOK(RetryNow(c)) /\ Contents(RetryNow(c)) = Contents(c)
         /\ ~RetryNow(c).waiting /\ RetryNow(c).unfit = c.unfit
BY SucceedsKeeps DEF RetryNow, Succeeds

LEMMA UnfitKeeps ==
  ASSUME NEW c, ClientOK(c), NEW b \in BOOLEAN
  PROVE  LET d == [c EXCEPT !.unfit = b] IN ClientOK(d) /\ Contents(d) = Contents(c)
<1>1. c \in ClientType
  BY DEF ClientOK
<1>2. [c EXCEPT !.unfit = b] \in ClientType /\ SameJobs(c, [c EXCEPT !.unfit = b])
  BY <1>1 DEF ClientType, SameJobs
<1>. QED
  BY <1>2, SameJobsKeep

-----------------------------------------------------------------------------
(* The loop.  It needs nothing of the loop's own state: it sets it.        *)

LEMMA DrainKeeps ==
  ASSUME NEW c \in ClientType, Len(c.queue) <= MaxQueue, GuarddOK
  PROVE  ClientOK(Drain(c)) /\ Contents(Drain(c)) \subseteq Contents(c)
<1>1. Bearer(c) \in Tokens
  BY BearerIsToken
<1>2. CASE c.queue = <<>> \/ c.waiting
  <2>1. Drain(c) = [c EXCEPT !.queue = <<>>, !.draining = FALSE, !.sending = NoJob,
                             !.bearer = NoToken]
    BY <1>2 DEF Drain
  <2>2. /\ Drain(c) \in ClientType
        /\ Drain(c).queue = <<>> /\ Drain(c).draining = FALSE
        /\ Drain(c).sending = NoJob /\ Drain(c).bypass = c.bypass
    <3>1. <<>> \in Seq(Job)
      OBVIOUS
    <3>2. /\ Drain(c).queue = <<>> /\ Drain(c).draining = FALSE
          /\ Drain(c).sending = NoJob /\ Drain(c).bypass = c.bypass
      BY <2>1 DEF ClientType
    <3>3. Drain(c) \in ClientType
      BY <2>1, <3>1 DEF ClientType
    <3>. QED
      BY <3>2, <3>3
  <2>3. ClientOK(Drain(c))
    BY <2>2, ClientAssumption DEF ClientOK
  <2>4. Contents(Drain(c)) \subseteq Contents(c)
    BY <2>2, NoJobAssumption DEF Contents, Underway
  <2>. QED
    BY <2>3, <2>4
<1>3. CASE c.queue # <<>> /\ ~c.waiting
  <2> DEFINE d == Drain(c)
  <2>1. d = [Sends(c) EXCEPT !.queue = Tail(@), !.draining = TRUE,
                             !.sending = Head(c.queue), !.bearer = Bearer(c)]
    BY <1>3 DEF Drain
  <2>2. c.queue \in Seq(Job) /\ Len(c.queue) \in Nat /\ Len(c.queue) > 0
    BY <1>3 DEF ClientType
  <2>3. /\ Head(c.queue) = c.queue[1] /\ Head(c.queue) \in Job
        /\ Tail(c.queue) \in Seq(Job) /\ Len(Tail(c.queue)) = Len(c.queue) - 1
        /\ \A i \in 1..Len(Tail(c.queue)) : Tail(c.queue)[i] = c.queue[i + 1]
    BY <2>2
  <2>4. /\ Sends(c) \in ClientType
        /\ Sends(c).queue = c.queue /\ Sends(c).bypass = c.bypass
    BY <1>1 DEF Sends, ClientType
  <2>5. /\ d \in ClientType
        /\ d.queue = Tail(c.queue) /\ d.draining = TRUE
        /\ d.sending = Head(c.queue) /\ d.bypass = c.bypass
    <3>1. d = [Sends(c) EXCEPT !.queue = Tail(c.queue), !.draining = TRUE,
                               !.sending = Head(c.queue), !.bearer = Bearer(c)]
      BY <2>1, <2>4
    <3>2. /\ d.queue = Tail(c.queue) /\ d.draining = TRUE
          /\ d.sending = Head(c.queue) /\ d.bypass = c.bypass
      BY ONLY <2>4, <3>1 DEF ClientType
    <3>3. d \in ClientType
      BY ONLY <1>1, <2>3, <2>4, <3>1 DEF ClientType
    <3>. QED
      BY ONLY <3>2, <3>3
  <2>6. ClientOK(d)
    BY <2>2, <2>3, <2>5, NoJobAssumption, ClientAssumption DEF ClientOK
  <2>7. ASSUME NEW job \in Job, Underway(d, job)
        PROVE  Underway(c, job)
    <3>1. CASE \E i \in 1..Len(d.queue) : d.queue[i] = job
      <4>1. PICK i \in 1..Len(Tail(c.queue)) : c.queue[i + 1] = job
        BY <2>3, <2>5, <3>1
      <4>2. i + 1 \in 1..Len(c.queue)
        BY <2>2, <2>3
      <4>. QED
        BY <4>1, <4>2 DEF Underway
    <3>2. CASE d.sending = job
      <4>1. 1 \in 1..Len(c.queue) /\ c.queue[1] = job
        BY <2>2, <2>3, <2>5, <3>2
      <4>. QED
        BY <4>1 DEF Underway
    <3>3. CASE \E b \in d.bypass : b.job = job
      BY <2>5, <3>3 DEF Underway
    <3>. QED
      BY <2>7, <3>1, <3>2, <3>3 DEF Underway
  <2>. QED
    BY <2>6, <2>7 DEF Contents
<1>. QED
  BY <1>2, <1>3 DEF ClientType

LEMMA QueueEndsKeep ==
  ASSUME NEW c, ClientOK(c), GuarddOK, NEW why
  PROVE  /\ ClientOK(QueueAnswered(c)) /\ Contents(QueueAnswered(c)) \subseteq Contents(c)
         /\ ClientOK(QueueFails(c, why)) /\ Contents(QueueFails(c, why)) \subseteq Contents(c)
<1>1. ClientOK(Succeeds(c)) /\ Contents(Succeeds(c)) = Contents(c)
  BY SucceedsKeeps
<1>2. ClientOK(Fails(c, why)) /\ Contents(Fails(c, why)) = Contents(c)
  BY FailsKeeps
<1>. QED
  BY <1>1, <1>2, DrainKeeps DEF QueueAnswered, QueueFails, ClientOK

LEMMA BypassEndsKeep ==
  ASSUME NEW c, ClientOK(c), NEW b, NEW why
  PROVE  /\ ClientOK(BypassAnswered(c, b)) /\ Contents(BypassAnswered(c, b)) \subseteq Contents(c)
         /\ ClientOK(BypassFails(c, b, why)) /\ Contents(BypassFails(c, b, why)) \subseteq Contents(c)
<1>1. ASSUME NEW d, ClientOK(d), Contents(d) = Contents(c)
      PROVE  LET e == [d EXCEPT !.bypass = @ \ {b}]
             IN ClientOK(e) /\ Contents(e) \subseteq Contents(c)
  <2> DEFINE e == [d EXCEPT !.bypass = @ \ {b}]
  <2>1. d \in ClientType
    BY <1>1 DEF ClientOK
  <2>2. /\ e \in ClientType
        /\ e.queue = d.queue /\ e.draining = d.draining /\ e.sending = d.sending
        /\ e.bypass \subseteq d.bypass
    BY <2>1 DEF ClientType
  <2>3. ClientOK(e)
    BY <1>1, <2>2 DEF ClientOK
  <2>4. Contents(e) \subseteq Contents(d)
    BY <2>2 DEF Contents, Underway
  <2>. QED
    BY <1>1, <2>3, <2>4
<1>2. ClientOK(Succeeds(c)) /\ Contents(Succeeds(c)) = Contents(c)
  BY SucceedsKeeps
<1>3. ClientOK(Fails(c, why)) /\ Contents(Fails(c, why)) = Contents(c)
  BY FailsKeeps
<1>. QED
  BY <1>1, <1>2, <1>3 DEF BypassAnswered, BypassFails

-----------------------------------------------------------------------------
(* observe.                                                                *)

LEMMA ObserveKeeps ==
  ASSUME NEW c, ClientOK(c), GuarddOK, NEW job \in Job
  PROVE  /\ ClientOK(Observe(c, job))
         /\ Contents(Observe(c, job)) \subseteq Contents(c) \union {job}
         /\ Critical(job) /\ ~c.waiting => Underway(Observe(c, job), job)
<1>0. c \in ClientType /\ c.queue \in Seq(Job) /\ Len(c.queue) \in Nat /\ MaxQueue \in Nat
  BY ClientAssumption DEF ClientOK, ClientType
<1>1. CASE Len(c.queue) >= MaxQueue
  <2>1. CASE Critical(job) /\ ~c.waiting
    <3> DEFINE e == [Sends(c) EXCEPT !.bypass = @ \union {[job |-> job, bearer |-> Bearer(c)]}]
    <3>1. Observe(c, job) = e
      BY <1>1, <2>1 DEF Observe
    <3>2. ClientOK(Sends(c)) /\ Contents(Sends(c)) = Contents(c) /\ Bearer(c) \in Tokens
      BY <1>0, SendsKeeps, BearerIsToken
    <3>3. Sends(c) \in ClientType
      BY <3>2 DEF ClientOK
    <3>4. /\ e \in ClientType
          /\ e.queue = Sends(c).queue /\ e.draining = Sends(c).draining
          /\ e.sending = Sends(c).sending
          /\ e.bypass = Sends(c).bypass \union {[job |-> job, bearer |-> Bearer(c)]}
      BY <3>2, <3>3 DEF ClientType
    <3>5. ClientOK(e)
      BY <3>2, <3>4 DEF ClientOK
    <3>6. Contents(e) \subseteq Contents(Sends(c)) \union {job}
      BY <3>4 DEF Contents, Underway
    <3>7. Underway(e, job)
      <4> DEFINE b == [job |-> job, bearer |-> Bearer(c)]
      <4>1. b \in e.bypass /\ b.job = job
        BY <3>4
      <4>. QED
        BY <4>1 DEF Underway
    <3>. QED
      BY <3>1, <3>2, <3>5, <3>6, <3>7
  <2>2. CASE ~(Critical(job) /\ ~c.waiting)
    BY <1>1, <2>2 DEF Observe
  <2>. QED
    BY <2>1, <2>2
<1>2. CASE ~(Len(c.queue) >= MaxQueue)
  <2> DEFINE pushed == [c EXCEPT !.queue = Append(@, job)]
  <2>1. Observe(c, job) = IF c.draining THEN pushed ELSE Drain(pushed)
    BY <1>2 DEF Observe
  <2>2. /\ Append(c.queue, job) \in Seq(Job)
        /\ Len(Append(c.queue, job)) = Len(c.queue) + 1
        /\ \A i \in 1..Len(c.queue) : Append(c.queue, job)[i] = c.queue[i]
        /\ Append(c.queue, job)[Len(c.queue) + 1] = job
    BY <1>0
  <2>3. /\ pushed \in ClientType
        /\ pushed.queue = Append(c.queue, job)
        /\ pushed.draining = c.draining /\ pushed.sending = c.sending
        /\ pushed.bypass = c.bypass /\ pushed.waiting = c.waiting
    BY <1>0, <2>2 DEF ClientType
  <2>4. Len(pushed.queue) <= MaxQueue
    BY <1>0, <1>2, <2>2, <2>3
  <2>5. Underway(pushed, job)
    <3>1. Len(c.queue) + 1 \in 1..Len(pushed.queue)
      BY <1>0, <2>2, <2>3
    <3>. QED
      BY <2>2, <2>3, <3>1 DEF Underway
  <2>6. Contents(pushed) \subseteq Contents(c) \union {job}
    <3>1. ASSUME NEW j \in Job, NEW i \in 1..Len(pushed.queue), pushed.queue[i] = j
          PROVE  j = job \/ Underway(c, j)
      <4>1. CASE i \in 1..Len(c.queue)
        BY <2>2, <2>3, <3>1, <4>1 DEF Underway
      <4>2. CASE i = Len(c.queue) + 1
        BY <2>2, <2>3, <3>1, <4>2
      <4>. QED
        BY <1>0, <2>2, <2>3, <4>1, <4>2
    <3>. QED
      BY <2>3, <3>1 DEF Contents, Underway
  <2>7. CASE c.draining
    <3>1. pushed.draining /\ pushed.sending # NoJob
      BY <2>3, <2>7 DEF ClientOK
    <3>2. ClientOK(pushed)
      BY <2>3, <2>4, <3>1 DEF ClientOK
    <3>. QED
      BY <2>1, <2>5, <2>6, <2>7, <3>2
  <2>8. CASE ~c.draining
    <3>1. ClientOK(Drain(pushed)) /\ Contents(Drain(pushed)) \subseteq Contents(pushed)
      BY <2>3, <2>4, DrainKeeps
    <3>2. ASSUME ~c.waiting
          PROVE  Underway(Drain(pushed), job)
      <4>1. c.queue = <<>>
        BY <2>8 DEF ClientOK
      <4>2. pushed.queue # <<>> /\ ~pushed.waiting /\ Head(pushed.queue) = job
        BY <2>3, <3>2, <4>1
      <4>3. Drain(pushed) = [Sends(pushed) EXCEPT
                !.queue = Tail(@), !.draining = TRUE,
                !.sending = Head(pushed.queue), !.bearer = Bearer(pushed)]
        BY <4>2 DEF Drain
      <4>4. Sends(pushed) \in ClientType
        BY <2>3, BearerIsToken DEF Sends, ClientType
      <4>5. Drain(pushed).sending = job
        BY <4>2, <4>3, <4>4 DEF ClientType
      <4>. QED
        BY <4>5 DEF Underway
    <3>. QED
      BY <2>1, <2>6, <2>8, <3>1, <3>2
  <2>. QED
    BY <2>7, <2>8 DEF ClientOK
<1>. QED
  BY <1>1, <1>2
=============================================================================
