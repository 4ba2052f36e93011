---------------------------- MODULE GuardClient ----------------------------
(***************************************************************************)
(* GuardClient, the plugin's one connection to guardd: the cached bearer   *)
(* token, the backoff after a failure, and the queue of observations with  *)
(* the single loop that drains it.                                         *)
(*                                                                         *)
(* All hooks share one client, so the state is one record and everything   *)
(* the class does is a function from that record to the next one: a hook   *)
(* calls several of them between two awaits.  A request is in the state    *)
(* from the fetch to its answer; the backoff's length is left out, only    *)
(* that it is running is kept.                                             *)
(***************************************************************************)
EXTENDS Naturals, Sequences, FiniteSets

CONSTANTS Calls,      \* hook invocations
          MaxQueue,   \* GuardClient.MAX_QUEUE
          Tokens,     \* bearer tokens guardd may create, in their order
          NoToken, NoJob, NoCall

ASSUME ClientAssumption ==
  /\ MaxQueue \in Nat \ {0}
  /\ Tokens \subseteq Nat
  /\ NoToken \notin Tokens
  /\ NoCall \notin Calls

VARIABLES client,   \* the GuardClient
          guardd    \* the service: whether it answers in time, and its token

(* An observation: the answer to an approval, the result of a call, or a   *)
(* note about a session or a sanitized value.                              *)
Job == [kind : {"approval", "result"}, of : Calls, good : BOOLEAN]
         \union [kind : {"note"}, of : {NoCall}, good : {TRUE}]

ASSUME NoJobAssumption == NoJob \notin Job

Note == [kind |-> "note", of |-> NoCall, good |-> TRUE]

Critical(job) == job.kind = "approval" \/ (job.kind = "result" /\ ~job.good)

ClientType ==
  [token : Tokens \union {NoToken}, waiting : BOOLEAN, unfit : BOOLEAN,
   queue : Seq(Job), draining : BOOLEAN, sending : Job \union {NoJob},
   bearer : Tokens \union {NoToken},
   bypass : SUBSET [job : Job, bearer : Tokens]]

ClientTypeOK ==
  /\ client \in ClientType
  /\ Len(client.queue) <= MaxQueue
  /\ guardd \in [up : BOOLEAN, token : Tokens]

ClientInit ==
  /\ client = [token |-> NoToken, waiting |-> FALSE, unfit |-> FALSE,
               queue |-> <<>>, draining |-> FALSE, sending |-> NoJob,
               bearer |-> NoToken, bypass |-> {}]
  /\ guardd \in [up : BOOLEAN, token : {t \in Tokens : \A u \in Tokens : t <= u}]

-----------------------------------------------------------------------------
(* bearer and request.                                                     *)

(* The file is read once; it holds the token guardd started with.          *)
Bearer(c) == IF c.token = NoToken THEN guardd.token ELSE c.token

Sends(c) == [c EXCEPT !.token = Bearer(c)]

Succeeds(c) == [c EXCEPT !.waiting = FALSE]

(* Mutant: a refused token stays in the cache.                             *)
FailsKeepingToken(c, why) == [c EXCEPT !.waiting = TRUE]

(* Any failure starts the backoff; only a 401 drops the token.             *)
Fails(c, why) ==
  [c EXCEPT !.waiting = TRUE, !.token = IF why = "401" THEN NoToken ELSE @]

(* Mutant: the backoff runs on.                                            *)
RetryLater(c) == c

(* retryNow                                                                *)
RetryNow(c) == [c EXCEPT !.waiting = FALSE]

(* How a request can fail.  guardd checks the token before anything else,  *)
(* and it may refuse what it understood; out of reach there is no answer.  *)
Failures(bearer) ==
  CASE ~guardd.up -> {"timeout"}
    [] guardd.up /\ bearer # guardd.token -> {"401"}
    [] guardd.up /\ bearer = guardd.token -> {"refused"}

Accepts(bearer) == guardd.up /\ bearer = guardd.token

-----------------------------------------------------------------------------
(* observe and drain.                                                      *)

(* Mutant: the loop ends without saying so.                                *)
DrainForgets(c) ==
  CASE c.queue = <<>> \/ c.waiting ->
         [c EXCEPT !.queue = <<>>, !.sending = NoJob, !.bearer = NoToken]
    [] c.queue # <<>> /\ ~c.waiting ->
         [Sends(c) EXCEPT !.queue = Tail(@), !.draining = TRUE,
                          !.sending = Head(c.queue), !.bearer = Bearer(c)]

(* The loop from one await to the next.  While the backoff runs, request   *)
(* throws at once for job after job: whatever is queued is discarded.      *)
Drain(c) ==
  CASE c.queue = <<>> \/ c.waiting ->
         [c EXCEPT !.queue = <<>>, !.draining = FALSE, !.sending = NoJob, !.bearer = NoToken]
    [] c.queue # <<>> /\ ~c.waiting ->
         [Sends(c) EXCEPT !.queue = Tail(@), !.draining = TRUE,
                          !.sending = Head(c.queue), !.bearer = Bearer(c)]

(* Mutant: a full queue drops whatever comes.                              *)
ObserveOrDrop(c, job) ==
  IF Len(c.queue) >= MaxQueue THEN c
  ELSE LET pushed == [c EXCEPT !.queue = Append(@, job)]
       IN IF c.draining THEN pushed ELSE Drain(pushed)

Observe(c, job) ==
  IF Len(c.queue) >= MaxQueue
  THEN IF Critical(job) /\ ~c.waiting
       THEN [Sends(c) EXCEPT !.bypass = @ \union {[job |-> job, bearer |-> Bearer(c)]}]
       ELSE c
  ELSE LET pushed == [c EXCEPT !.queue = Append(@, job)]
       IN IF c.draining THEN pushed ELSE Drain(pushed)

(* The job the loop was sending is answered.                               *)
QueueAnswered(c) == Drain(Succeeds(c))
QueueFails(c, why) == Drain(Fails(c, why))

BypassAnswered(c, b) == [Succeeds(c) EXCEPT !.bypass = @ \ {b}]
BypassFails(c, b, why) == [Fails(c, why) EXCEPT !.bypass = @ \ {b}]

(* Where a job is that guardd has not answered yet.                        *)
Underway(c, job) ==
  \/ \E i \in 1..Len(c.queue) : c.queue[i] = job
  \/ c.sending = job
  \/ \E b \in c.bypass : b.job = job

-----------------------------------------------------------------------------
(* The passing of the backoff, and guardd's own comings and goings.  "up"  *)
(* is answering within the client's timeout.  A restart makes a new token  *)
(* only if the file is gone.                                               *)

BackoffElapses ==
  /\ client.waiting
  /\ client' = [client EXCEPT !.waiting = FALSE]
  /\ UNCHANGED guardd

GuarddStops ==
  /\ guardd.up
  /\ guardd' = [guardd EXCEPT !.up = FALSE]
  /\ UNCHANGED client

GuarddStarts ==
  /\ ~guardd.up
  /\ \E t \in {u \in Tokens : u >= guardd.token /\ u <= guardd.token + 1} :
       guardd' = [guardd EXCEPT !.up = TRUE, !.token = t]
  /\ UNCHANGED client
=============================================================================
