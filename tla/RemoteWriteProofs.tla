--------------------------- MODULE RemoteWriteProofs ---------------------------
(***************************************************************************)
(* Proofs about a Prometheus that writes through a proxy that may crash,   *)
(* for any stream, number of crashes, tenants, handlers and answers that   *)
(* come late: when a batch is taken twice, who is served late, and that no *)
(* batch is left behind before it is settled.                              *)
(***************************************************************************)
EXTENDS RemoteWrite, ProxyProofs

-----------------------------------------------------------------------------
(* The inductive invariants.                                               *)

Carries(r, b) == b \in Batches /\ payload[r] = Stream[b]

\* Prometheus waits for one request, with the current batch; what is left of
\* others carries this batch or an earlier one.
AttemptCarries(r) == Attempt(r) => Carries(r, batch)

OrphanCarries(r) ==
    rpc[r] = "abandoned" => \E b \in Batches : b <= batch /\ Carries(r, b)

OneAttempt == \A q, r \in Requests : Attempt(q) /\ Attempt(r) => q = r

CarryInv ==
    /\ batch \in Nat \ {0}
    /\ \A r \in Requests : AttemptCarries(r) /\ OrphanCarries(r)
    /\ OneAttempt

\* A post that is not answered belongs to a handler that forwards, and has data,
\* or to none.
Sent(r) ==
    \A t \in Tenants : post[r][t] \in {"queued", "inflight"} =>
        \/ rpc[r] = "abandoned"
        \/ rpc[r] = "forwarding" /\ tenant_data[r][t] # << >>

SlotInv(r) == NothingSent(r) /\ Sent(r)

Sending(r) == rpc[r] \in {"forwarding", "answered"}

\* Without trouble nothing of the current batch is left behind by a handler that
\* is gone, and who has taken it has taken it from the one attempt there is,
\* which has met no failure.
NoneLeftBehind == \A r \in Requests : rpc[r] = "abandoned" => ~Carries(r, batch)

TakenFromAttempt ==
    \A t \in taken \cap Tenants : \E r \in Requests : Sending(r) /\ post[r][t] = "2xx"

NoFailureYet(r) == Attempt(r) => num_of_failures[r] = 0 /\ status[r] # 500

Calm ==
    ~troubled => /\ NoneLeftBehind
                 /\ TakenFromAttempt
                 /\ \A r \in Requests : NoFailureYet(r)

WriteInv ==
    /\ CarryInv
    /\ \A r \in Requests : SlotInv(r)
    /\ Calm

RemoteInv == ProxyInv /\ WriteInv

\* What a step of somebody else leaves to slot r.
SlotKept(r) == SameAnswer(r) /\ payload'[r] = payload[r]

OthersKept(q) == \A r \in Requests : r # q => SlotKept(r)

historyKept == UNCHANGED <<batch, historyVars>>

-----------------------------------------------------------------------------
(* A crash of the proxy.                                                   *)

\* The proxy begins anew, and the requests that are with the upstream are left
\* to themselves.
LEMMA CrashInv ==
    ASSUME ProxyInv, Crash
    PROVE  ProxyInv'
<1>1. ControllerInv'
  <2>1. /\ readers' = {} /\ writers' = {} /\ waiting' = << >>
        /\ initial_tenants' = {} /\ tenants' = {} /\ tenants_vec' = << >>
        /\ stopping' = FALSE /\ EndListing
        /\ cpc' = "boot" /\ serving' = FALSE /\ published' = {}
    BY DEF Crash, clean
  <2>2. ListingInv'
    BY <2>1, EndListingInv DEF ProxyInv, ControllerInv, ControllerTypeOK, ListingInv
  <2>3. ControllerTypeOK'
    <3>1. LockTypeOK' /\ FieldsTypeOK'
      BY <2>1, EmptySeq DEF LockTypeOK, FieldsTypeOK
    <3> QED
      BY <2>1, <2>2, <3>1 DEF ControllerTypeOK, ControllerStates, ListingInv
  <2>4. Range(tenants_vec') = {} /\ IsInjective(tenants_vec')
    BY <2>1 DEF Range, IsInjective
  <2>5. VecMatchesSets' /\ BootState' /\ PublishedUnlessObserving'
    BY <2>1, <2>4 DEF VecMatchesSets, BootState, PublishedUnlessObserving
  <2>6. ListingOfIteration'
    BY <2>1 DEF ListingOfIteration, EndListing
  <2> QED
    BY <2>2, <2>3, <2>5, <2>6 DEF ControllerInv, ListingInv
<1>2. ForwardTypeOK'
  <2> DEFINE left(r) == [t \in Tenants |-> IF t \in Orphans(r) THEN "inflight" ELSE "none"]
             posts == {"none", "queued", "inflight"} \cup Replies
  <2>1. ForwardTypeOK
    BY DEF ProxyInv
  <2>2. /\ NoData \in [Tenants -> Seq(Nat)] /\ 0 \in 0 .. U16 - 1
        /\ \A r : left(r) \in [Tenants -> posts]
    BY DEF NoData, U16
  <2>3. post' = [r \in Requests |-> left(r)]
    BY DEF Crash
  <2> HIDE DEF left
  <2>4. /\ tenant_data' \in [Requests -> [Tenants -> Seq(Nat)]]
        /\ post' \in [Requests -> [Tenants -> posts]]
    BY <2>2, <2>3 DEF Crash
  <2>5. /\ num_of_failures' \in [Requests -> 0 .. U16 - 1]
        /\ allowed' \in [Requests -> SUBSET Tenants]
        /\ status' \in [Requests -> {0, 200, 400, 500}]
        /\ next' \in [Requests -> Nat]
    BY <2>2 DEF Crash
  <2>6. /\ rpc' \in [Requests -> {"idle", "waiting", "routing", "forwarding",
                                 "answered", "abandoned"}]
        /\ payload' \in [Requests -> Payloads \cup {Garbage}]
    BY <2>1 DEF Crash, ForwardTypeOK
  <2> QED
    BY <2>4, <2>5, <2>6 DEF ForwardTypeOK
<1>3. LockExclusive'
  BY DEF Crash, LockExclusive
<1>4. ASSUME NEW r \in Requests PROVE HandlerInv(r)'
  <2>1. /\ rpc'[r] \in {"idle", "abandoned"} /\ tenant_data'[r] = NoData
        /\ \A t \in Tenants : post'[r][t] # "queued"
    BY DEF Crash
  <2> QED
    BY <2>1
       DEF HandlerInv, IdleUntilServing, ListBorrowed, InHand, RoutedSoFar, QueuedHasData
<1> QED
  BY <1>1, <1>2, <1>3, <1>4 DEF ProxyInv

\* What a crash leaves of a slot.
LEMMA CrashLeaves ==
    ASSUME Crash, NEW r \in Requests
    PROVE  /\ rpc'[r] = IF Orphans(r) = {} THEN "idle" ELSE "abandoned"
           /\ rpc'[r] = "abandoned" => payload'[r] = payload[r]
           /\ \A t \in Tenants : post'[r][t] = IF t \in Orphans(r) THEN "inflight" ELSE "none"
           /\ num_of_failures'[r] = 0 /\ status'[r] = 0
BY DEF Crash

\* A crash answers nobody.
LEMMA CrashAck ==
    ASSUME Crash, NEW r \in Requests
    PROVE  AckInv(r)'
BY CrashLeaves DEF AckInv, NothingSent, Counting, Answered

-----------------------------------------------------------------------------
(* The other steps are steps of the proxy.                                 *)

\* Prometheus is one of the clients, its upstream the one there is.
LEMMA RemoteStepIsProxyStep ==
    ASSUME ProxyInv, [RemoteNext]_remoteVars
    PROVE  Crash \/ [ProxyNext]_proxyVars
<1>1. CASE UNCHANGED remoteVars
  BY <1>1 DEF remoteVars
<1>2. CASE ControllerTurn \/ Environment \/ Granting \/ \E r \in Requests : Handle(r)
  BY <1>2 DEF ProxyNext
<1>3. ASSUME NEW r \in Requests, Send(r) \/ Learn(r) \/ AnswerLost(r) \/ TimesOut(r)
      PROVE  ProxyNext
  <2>1. UNCHANGED notLockVars /\ (Receive(r) \/ Recycle(r) \/ Abandon(r))
    BY <1>3 DEF Send, Learn, AnswerLost, TimesOut
  <2>2. serving
    <3>1. CASE Send(r)
      BY <3>1 DEF Send
    <3>2. CASE Learn(r) \/ AnswerLost(r) \/ TimesOut(r)
      <4>1. rpc[r] \in {"answered", "waiting", "forwarding"}
        BY <3>2 DEF Learn, AnswerLost, TimesOut, Abandon
      <4>2. rpc[r] \notin {"idle", "abandoned"}
        BY <4>1
      <4> QED
        BY <4>2, BusyMeansServing
    <3> QED
      BY <1>3, <3>1, <3>2
  <2> QED
    BY <2>1, <2>2 DEF ProxyNext, Client
<1>4. ASSUME NEW r \in Requests, NEW t \in Tenants, NEW reply \in UpstreamReplies,
             Upstream(r, t, reply)
      PROVE  ProxyNext
  <2>1. Answer(r, t)
    BY <1>4 DEF Upstream, Answer
  <2> QED
    BY <2>1 DEF ProxyNext
<1> QED
  BY <1>1, <1>2, <1>3, <1>4 DEF RemoteNext, Prometheus

\* The invariant of the proxy outlives crashes.
LEMMA RemoteProxyInv ==
    ASSUME ProxyInv, [RemoteNext]_remoteVars
    PROVE  ProxyInv'
BY RemoteStepIsProxyStep, CrashInv, ProxyStepInv, ProxyStutterInv

\* And so does what an answer says.
LEMMA RemoteAckInv ==
    ASSUME FewTenants, ProxyInv, \A r \in Requests : AckInv(r), [RemoteNext]_remoteVars,
           NEW r \in Requests
    PROVE  AckInv(r)'
BY RemoteStepIsProxyStep, CrashAck, AckStepInv

-----------------------------------------------------------------------------
(* What the steps do to a slot.                                            *)

\* A post answered with a batch in hand is answered for that batch.
LEMMA CarriedBatch ==
    ASSUME NEW r \in Requests, NEW b, Carries(r, b)
    PROVE  Carried(r) = b
BY StreamAssumption DEF Carried, Carries, Batches, IsInjective

\* A slot that is left alone keeps its part of the invariants.
LEMMA KeptSlot ==
    ASSUME NEW r \in Requests, SlotKept(r)
    PROVE  /\ SlotInv(r) => SlotInv(r)'
           /\ Attempt(r)' = Attempt(r)
           /\ Sending(r)' = Sending(r)
           /\ rpc'[r] = rpc[r]
           /\ post'[r] = post[r]
           /\ NoFailureYet(r) => NoFailureYet(r)'
           /\ \A b : Carries(r, b)' = Carries(r, b)
BY DEF SlotKept, SameAnswer, SlotInv, NothingSent, Sent, Attempt, Sending, NoFailureYet,
       Carries, Batches

\* A handler moves, a client comes or goes, a post is answered: the other slots
\* do not notice.
LEMMA OthersAreKept ==
    ASSUME ForwardTypeOK, NEW q \in Requests,
           \/ HandlerStep(q)
           \/ Receive(q)
           \/ \E orphans : KeepOrphans(q, orphans)
           \/ \E t \in Tenants : \E reply \in UpstreamReplies : Reply(q, t, reply)
    PROVE  OthersKept(q)
<1> SUFFICES ASSUME NEW r \in Requests, r # q PROVE SlotKept(r)
  BY DEF OthersKept
<1> USE DEF SlotKept, SameAnswer, ForwardTypeOK
<1>1. CASE RejectGarbage(q) \/ Decode(q) \/ Respond(q)
  BY <1>1 DEF RejectGarbage, Decode, Respond, Move
<1>2. CASE RouteSeries(q)
  BY <1>2 DEF RouteSeries
<1>3. CASE StartForwarding(q)
  BY <1>3 DEF StartForwarding, Move
<1>4. CASE \E t \in Tenants : Spawn(q, t)
  BY <1>4 DEF Spawn
<1>5. CASE Receive(q)
  BY <1>5 DEF Receive, Move
<1>6. CASE \E orphans : KeepOrphans(q, orphans)
  BY <1>6 DEF KeepOrphans
<1>7. CASE \E t \in Tenants : \E reply \in UpstreamReplies : Reply(q, t, reply)
  BY <1>7 DEF Reply
<1> QED
  BY <1>1, <1>2, <1>3, <1>4, <1>5, <1>6, <1>7 DEF HandlerStep

\* A handler goes on with what it has; only while it forwards do its posts move,
\* and a failure is in its answer.
LEMMA HandlerMoves ==
    ASSUME ForwardTypeOK, NEW r \in Requests, SlotInv(r), HandlerStep(r)
    PROVE  /\ Attempt(r) /\ Attempt(r)' /\ payload'[r] = payload[r]
           /\ SlotInv(r)'
           /\ num_of_failures[r] = 0 /\ status[r] # 500 =>
                 num_of_failures'[r] = 0 /\ status'[r] # 500
           /\ Sending(r) =>
                 /\ Sending(r)'
                 /\ \A t \in Tenants : post[r][t] = "2xx" => post'[r][t] = "2xx"
<1> USE DEF SlotInv, NothingSent, Sent, Attempt, Sending
<1>1. CASE RejectGarbage(r)
  BY <1>1 DEF RejectGarbage, Move, ForwardTypeOK
<1>2. CASE Decode(r)
  BY <1>2 DEF Decode, Move, ForwardTypeOK
<1>3. CASE RouteSeries(r)
  BY <1>3 DEF RouteSeries
<1>4. CASE StartForwarding(r)
  <2>1. /\ rpc[r] = "routing" /\ rpc'[r] = "forwarding" /\ payload' = payload
        /\ num_of_failures' = num_of_failures /\ status' = status
        /\ tenant_data' = tenant_data
        /\ \A t \in Tenants :
              post'[r][t] = IF tenant_data[r][t] = << >> THEN "none" ELSE "queued"
    BY <1>4 DEF StartForwarding, Move, ForwardTypeOK
  <2> QED
    BY <2>1
<1>5. CASE \E t \in Tenants : Spawn(r, t)
  <2>1. PICK t \in Tenants : Spawn(r, t)
    BY <1>5
  <2>2. /\ rpc[r] = "forwarding" /\ post[r][t] = "queued" /\ post'[r][t] = "inflight"
        /\ \A u \in Tenants : u # t => post'[r][u] = post[r][u]
        /\ rpc' = rpc /\ status' = status /\ tenant_data' = tenant_data
        /\ num_of_failures' = num_of_failures /\ payload' = payload
    BY <2>1 DEF Spawn, ForwardTypeOK
  <2> QED
    BY <2>2
<1>6. CASE Respond(r)
  <2>1. /\ rpc[r] = "forwarding" /\ rpc'[r] = "answered" /\ payload' = payload
        /\ num_of_failures' = num_of_failures /\ post' = post
        /\ status'[r] = IF num_of_failures[r] = 0 THEN 200 ELSE 500
        /\ \A t \in Tenants : post[r][t] \notin {"queued", "inflight"}
    BY <1>6 DEF Respond, Move, InState, ForwardTypeOK
  <2> QED
    BY <2>1
<1> QED
  BY <1>1, <1>2, <1>3, <1>4, <1>5, <1>6 DEF HandlerStep

\* A slot that keeps orphans has no attempt any more, and keeps its payload.
LEMMA OrphansKept ==
    ASSUME ForwardTypeOK, NEW r \in Requests, NEW orphans, KeepOrphans(r, orphans)
    PROVE  /\ ~Attempt(r)'
           /\ rpc'[r] = IF orphans = {} THEN "idle" ELSE "abandoned"
           /\ rpc'[r] = "abandoned" => payload'[r] = payload[r]
           /\ SlotInv(r)'
<1>1. /\ rpc'[r] = IF orphans = {} THEN "idle" ELSE "abandoned"
      /\ payload'[r] = IF orphans = {} THEN Garbage ELSE payload[r]
      /\ status'[r] = 0 /\ num_of_failures'[r] = 0
      /\ \A t \in Tenants : post'[r][t] = IF t \in orphans THEN "inflight" ELSE "none"
  BY DEF KeepOrphans, ForwardTypeOK
<1> QED
  BY <1>1 DEF Attempt, SlotInv, NothingSent, Sent

\* Only a handler that forwards has a post answered.
LEMMA ReplyMoves ==
    ASSUME ForwardTypeOK, NEW r \in Requests, SlotInv(r), NEW t \in Tenants,
           NEW reply \in UpstreamReplies, Reply(r, t, reply)
    PROVE  /\ rpc[r] = "forwarding" /\ rpc'[r] = "forwarding"
           /\ payload'[r] = payload[r] /\ status'[r] = status[r]
           /\ post'[r][t] = reply
           /\ \A u \in Tenants : u # t => post'[r][u] = post[r][u]
           /\ SlotInv(r)'
           /\ ~IsFailure(reply) => num_of_failures'[r] = num_of_failures[r]
<1>1. /\ post[r][t] = "inflight" /\ post'[r][t] = reply /\ rpc[r] # "abandoned"
      /\ \A u \in Tenants : u # t => post'[r][u] = post[r][u]
      /\ rpc' = rpc /\ status' = status /\ tenant_data' = tenant_data
      /\ payload' = payload
      /\ ~IsFailure(reply) => num_of_failures'[r] = num_of_failures[r]
  BY DEF Reply, ForwardTypeOK
<1>2. rpc[r] = "forwarding"
  BY <1>1 DEF SlotInv, Sent
<1>3. reply \notin {"queued", "inflight"}
  BY ForwardingAssumption DEF Replies
<1> QED
  BY <1>1, <1>2, <1>3 DEF SlotInv, NothingSent, Sent

-----------------------------------------------------------------------------
(* The steps, one by one.                                                  *)

\* What carries a batch, carries it until the slot is used for something else.
LEMMA CarryKept ==
    ASSUME CarryInv, batch' = batch,
           \A r \in Requests : Attempt(r)' => Attempt(r),
           \A r \in Requests : rpc'[r] = "abandoned" => Attempt(r) \/ rpc[r] = "abandoned",
           \A r \in Requests : rpc'[r] # "idle" => payload'[r] = payload[r]
    PROVE  CarryInv'
<1>1. ASSUME NEW r \in Requests, rpc'[r] # "idle", NEW b
      PROVE  Carries(r, b)' = Carries(r, b)
  BY <1>1 DEF Carries, Batches
<1>2. ASSUME NEW r \in Requests PROVE AttemptCarries(r)'
  BY <1>1 DEF CarryInv, AttemptCarries, Attempt
<1>3. ASSUME NEW r \in Requests PROVE OrphanCarries(r)'
  <2> SUFFICES ASSUME rpc'[r] = "abandoned"
               PROVE  \E b \in Batches : b <= batch /\ Carries(r, b)'
    BY DEF OrphanCarries, Batches
  <2>1. CASE rpc[r] = "abandoned"
    BY <1>1, <2>1 DEF CarryInv, OrphanCarries
  <2>2. CASE Attempt(r)
    <3>1. Carries(r, batch)' /\ batch \in Batches /\ batch <= batch
      BY <1>1, <2>2 DEF CarryInv, AttemptCarries, Carries
    <3> QED
      BY <3>1
  <2> QED
    BY <2>1, <2>2
<1>4. OneAttempt'
  BY DEF CarryInv, OneAttempt
<1> QED
  BY <1>2, <1>3, <1>4 DEF CarryInv

\* A step that leaves slots and batch alone.
LEMMA QuietWrite ==
    ASSUME WriteInv, UNCHANGED forwardVars, historyKept
    PROVE  WriteInv'
<1>1. \A r \in Requests : SlotKept(r)
  BY DEF SlotKept, SameAnswer, forwardVars
<1>2. CarryInv'
  BY <1>1, KeptSlot, CarryKept
     DEF WriteInv, historyKept, SlotKept, Attempt, SameAnswer
<1>3. \A r \in Requests : SlotInv(r)'
  BY <1>1, KeptSlot DEF WriteInv
<1>4. Calm'
  BY <1>1, KeptSlot
     DEF WriteInv, Calm, NoneLeftBehind, TakenFromAttempt, historyKept, historyVars
<1> QED
  BY <1>2, <1>3, <1>4 DEF WriteInv

\* A handler's own step: what was taken is still taken from the one attempt.
LEMMA HandleWrite ==
    ASSUME ForwardTypeOK, WriteInv, NEW q \in Requests, HandlerStep(q), historyKept
    PROVE  WriteInv'
<1>1. \A r \in Requests : r # q => SlotKept(r)
  BY OthersAreKept DEF OthersKept
<1>2. /\ Attempt(q) /\ Attempt(q)' /\ payload'[q] = payload[q]
      /\ SlotInv(q)'
      /\ num_of_failures[q] = 0 /\ status[q] # 500 =>
            num_of_failures'[q] = 0 /\ status'[q] # 500
      /\ Sending(q) =>
            /\ Sending(q)'
            /\ \A t \in Tenants : post[q][t] = "2xx" => post'[q][t] = "2xx"
  BY HandlerMoves DEF WriteInv
<1>3. \A r \in Requests : SlotInv(r)'
  BY <1>1, <1>2, KeptSlot DEF WriteInv
<1>4. \A r \in Requests : /\ Attempt(r)' = Attempt(r)
                          /\ payload'[r] = payload[r]
                          /\ rpc'[r] = "abandoned" => rpc[r] = "abandoned"
  <2>1. rpc'[q] # "abandoned"
    BY <1>2 DEF Attempt
  <2> QED
    BY <1>1, <1>2, <2>1, KeptSlot DEF SlotKept, SameAnswer, Attempt
<1>5. CarryInv'
  BY <1>4, CarryKept DEF WriteInv, historyKept
<1>6. Calm'
  <2> SUFFICES ASSUME ~troubled
               PROVE  /\ NoneLeftBehind'
                      /\ TakenFromAttempt'
                      /\ \A r \in Requests : NoFailureYet(r)'
    BY DEF Calm, historyKept, historyVars
  <2>1. NoneLeftBehind'
    BY <1>4 DEF WriteInv, Calm, NoneLeftBehind, historyKept, Carries, Batches
  <2>2. \A r \in Requests : NoFailureYet(r)'
    BY <1>1, <1>2, KeptSlot DEF WriteInv, Calm, NoFailureYet
  <2>3. TakenFromAttempt'
    <3> SUFFICES ASSUME NEW t \in taken \cap Tenants
                 PROVE  \E r \in Requests : Sending(r)' /\ post'[r][t] = "2xx"
      BY DEF TakenFromAttempt, historyKept, historyVars
    <3>1. PICK r \in Requests : Sending(r) /\ post[r][t] = "2xx"
      BY DEF WriteInv, Calm, TakenFromAttempt
    <3>2. r = q
      BY <1>2, <3>1 DEF WriteInv, CarryInv, OneAttempt, Sending, Attempt
    <3> QED
      BY <1>2, <3>1, <3>2
  <2> QED
    BY <2>1, <2>2, <2>3
<1> QED
  BY <1>3, <1>5, <1>6 DEF WriteInv

\* A new request carries the current batch, and nothing was taken of it before,
\* or there was trouble.
LEMMA SendWrite ==
    ASSUME ForwardTypeOK, WriteInv, NEW q \in Requests, Send(q)
    PROVE  WriteInv'
<1>1. /\ batch \in Batches /\ \A r \in Requests : ~Attempt(r)
      /\ Receive(q) /\ payload'[q] = Stream[batch] /\ historyKept
  BY DEF Send, historyKept, historyVars
<1>2. /\ rpc[q] = "idle" /\ rpc'[q] = "waiting"
      /\ UNCHANGED <<tenant_data, post, num_of_failures, status>>
  BY <1>1 DEF Receive, Move, ForwardTypeOK
<1>3. \A r \in Requests : r # q => SlotKept(r)
  BY <1>1, OthersAreKept DEF OthersKept
<1>4. \A r \in Requests : SlotInv(r)'
  <2>1. SlotInv(q)'
    BY <1>2 DEF WriteInv, SlotInv, NothingSent, Sent
  <2> QED
    BY <1>3, <2>1, KeptSlot DEF WriteInv
<1>5. CarryInv'
  <2>1. ASSUME NEW r \in Requests, r # q PROVE AttemptCarries(r)' /\ OrphanCarries(r)'
    BY <1>1, <1>3, <2>1, KeptSlot
       DEF WriteInv, CarryInv, AttemptCarries, OrphanCarries, historyKept, historyVars,
           Batches
  <2>2. AttemptCarries(q)' /\ OrphanCarries(q)'
    BY <1>1, <1>2
       DEF AttemptCarries, OrphanCarries, Carries, historyKept, historyVars, Batches
  <2>3. OneAttempt'
    BY <1>1, <1>3, KeptSlot DEF OneAttempt
  <2> QED
    BY <1>1, <2>1, <2>2, <2>3 DEF WriteInv, CarryInv, historyKept
<1>6. Calm'
  <2> SUFFICES ASSUME ~troubled
               PROVE  /\ NoneLeftBehind'
                      /\ TakenFromAttempt'
                      /\ \A r \in Requests : NoFailureYet(r)'
    BY <1>1 DEF Calm, historyKept, historyVars
  <2>1. NoneLeftBehind'
    BY <1>1, <1>2, <1>3, KeptSlot DEF WriteInv, Calm, NoneLeftBehind, historyKept
  <2>2. taken \cap Tenants = {}
    BY <1>1 DEF WriteInv, Calm, TakenFromAttempt, Sending, Attempt
  <2>3. TakenFromAttempt'
    BY <1>1, <2>2 DEF TakenFromAttempt, historyKept, historyVars
  <2>4. \A r \in Requests : NoFailureYet(r)'
    <3>1. NoFailureYet(q)'
      BY <1>2 DEF WriteInv, SlotInv, NothingSent, NoFailureYet
    <3> QED
      BY <1>3, <3>1, KeptSlot DEF WriteInv, Calm
  <2> QED
    BY <2>1, <2>3, <2>4
<1> QED
  BY <1>4, <1>5, <1>6 DEF WriteInv

\* The attempt ends: Prometheus has an answer or does not want one any more.
LEMMA AttemptEnds ==
    ASSUME ForwardTypeOK, WriteInv, NEW q \in Requests, Recycle(q) \/ Abandon(q)
    PROVE  /\ \A r \in Requests : ~Attempt(r)'
           /\ \A r \in Requests : SlotInv(r)'
           /\ \A r \in Requests : rpc'[r] = "abandoned" =>
                 /\ payload'[r] = payload[r]
                 /\ rpc[r] = "abandoned" \/ (Attempt(r) /\ Abandon(q))
<1>1. Attempt(q) /\ KeepOrphans(q, InState(q, "inflight"))
  BY DEF Recycle, Abandon, Attempt
<1>2. /\ ~Attempt(q)'
      /\ rpc'[q] = IF InState(q, "inflight") = {} THEN "idle" ELSE "abandoned"
      /\ rpc'[q] = "abandoned" => payload'[q] = payload[q]
      /\ SlotInv(q)'
  BY <1>1, OrphansKept
<1>3. \A r \in Requests : r # q => SlotKept(r)
  BY <1>1, OthersAreKept DEF OthersKept
<1>4. \A r \in Requests : ~Attempt(r)'
  BY <1>1, <1>2, <1>3, KeptSlot DEF WriteInv, CarryInv, OneAttempt
<1>5. \A r \in Requests : SlotInv(r)'
  BY <1>2, <1>3, KeptSlot DEF WriteInv
<1>6. ASSUME Recycle(q) PROVE InState(q, "inflight") = {}
  BY <1>6 DEF WriteInv, SlotInv, Sent, InState, Recycle
<1>7. ASSUME NEW r \in Requests, rpc'[r] = "abandoned"
      PROVE  /\ payload'[r] = payload[r]
             /\ rpc[r] = "abandoned" \/ (Attempt(r) /\ Abandon(q))
  <2>1. CASE r = q
    <3>1. ~Recycle(q)
      BY <1>2, <1>6, <1>7, <2>1
    <3> QED
      BY <1>1, <1>2, <1>7, <2>1, <3>1
  <2>2. CASE r # q
    BY <1>3, <1>7, <2>2 DEF SlotKept, SameAnswer
  <2> QED
    BY <2>1, <2>2
<1> QED
  BY <1>4, <1>5, <1>7

\* An attempt that is answered in vain, or given up, is trouble.
LEMMA VainWrite ==
    ASSUME ForwardTypeOK, WriteInv, NEW q \in Requests, AnswerLost(q) \/ TimesOut(q)
    PROVE  WriteInv'
<1>1. (Recycle(q) \/ Abandon(q)) /\ batch' = batch /\ troubled' = TRUE
  BY DEF AnswerLost, TimesOut, InVain
<1>2. /\ \A r \in Requests : ~Attempt(r)' /\ SlotInv(r)'
      /\ \A r \in Requests : rpc'[r] = "abandoned" =>
            payload'[r] = payload[r] /\ (rpc[r] = "abandoned" \/ Attempt(r))
  BY <1>1, AttemptEnds
<1>3. \A r \in Requests : rpc'[r] # "idle" => rpc'[r] = "abandoned"
  BY <1>2 DEF Attempt
<1>4. CarryInv'
  BY <1>1, <1>2, <1>3, CarryKept DEF WriteInv
<1>5. Calm'
  BY <1>1 DEF Calm
<1> QED
  BY <1>2, <1>4, <1>5 DEF WriteInv

\* After 500 the batch stays and there was trouble; after another answer the next
\* batch is on, of which nothing is on its way.
LEMMA LearnWrite ==
    ASSUME ForwardTypeOK, WriteInv, NEW q \in Requests, Learn(q)
    PROVE  WriteInv'
<1>1. rpc[q] = "answered" /\ Recycle(q) /\ Attempt(q)
  BY DEF Learn, Attempt
<1>2. /\ \A r \in Requests : ~Attempt(r)' /\ SlotInv(r)'
      /\ \A r \in Requests : rpc'[r] = "abandoned" =>
            payload'[r] = payload[r] /\ rpc[r] = "abandoned"
  <2>1. ~Abandon(q)
    BY <1>1 DEF Abandon
  <2> QED
    BY <1>1, <2>1, AttemptEnds
<1>3. \A r \in Requests : rpc'[r] # "idle" => rpc'[r] = "abandoned"
  BY <1>2 DEF Attempt
<1>4. CASE status[q] = 500
  <2>1. historyKept
    BY <1>4 DEF Learn, historyKept, historyVars
  <2>2. CarryInv'
    BY <1>2, <1>3, <2>1, CarryKept DEF WriteInv, historyKept
  <2>3. troubled
    BY <1>1, <1>4 DEF WriteInv, Calm, NoFailureYet
  <2>4. Calm'
    BY <2>1, <2>3 DEF Calm, historyKept, historyVars
  <2> QED
    BY <1>2, <2>2, <2>4 DEF WriteInv
<1>5. CASE status[q] # 500
  <2>1. batch' = batch + 1 /\ taken' = {} /\ batch \in Nat \ {0}
    BY <1>5 DEF Learn, MoveOn, WriteInv, CarryInv
  <2>2. ASSUME NEW r \in Requests, rpc'[r] = "abandoned"
        PROVE  \E b \in Batches : b <= batch /\ Carries(r, b)'
    BY <1>2, <2>2 DEF WriteInv, CarryInv, OrphanCarries, Carries, Batches
  <2>3. CarryInv'
    <3>1. \A r \in Requests : AttemptCarries(r)'
      BY <1>2 DEF AttemptCarries
    <3>2. ASSUME NEW r \in Requests, rpc'[r] = "abandoned"
          PROVE  \E b \in Batches : b <= batch' /\ Carries(r, b)'
      <4>1. PICK b \in Batches : b <= batch /\ Carries(r, b)'
        BY <2>2, <3>2
      <4>2. b \in Nat
        BY StreamAssumption, LenProperties DEF Batches
      <4> QED
        BY <2>1, <4>1, <4>2
    <3>3. \A r \in Requests : OrphanCarries(r)'
      BY <3>2 DEF OrphanCarries, Batches
    <3>4. OneAttempt'
      BY <1>2 DEF OneAttempt
    <3> QED
      BY <2>1, <3>1, <3>3, <3>4 DEF CarryInv
  <2>4. Calm'
    <3>1. ASSUME NEW r \in Requests, rpc'[r] = "abandoned",
                 NEW n, n = batch', Carries(r, n)'
          PROVE  FALSE
      <4>1. PICK b \in Batches : b <= batch /\ Carries(r, b)'
        BY <2>2, <3>1
      <4>2. b = n
        BY <3>1, <4>1, StreamAssumption DEF Carries, Batches, IsInjective
      <4>3. b \in Nat
        BY StreamAssumption, LenProperties DEF Batches
      <4> QED
        BY <2>1, <3>1, <4>1, <4>2, <4>3
    <3>2. NoneLeftBehind'
      BY <3>1 DEF NoneLeftBehind
    <3>3. TakenFromAttempt' /\ \A r \in Requests : NoFailureYet(r)'
      BY <1>2, <2>1 DEF TakenFromAttempt, NoFailureYet
    <3> QED
      BY <3>2, <3>3 DEF Calm
  <2> QED
    BY <1>2, <2>3, <2>4 DEF WriteInv
<1> QED
  BY <1>4, <1>5

\* An orphan ends; its answer is for nobody, and without trouble it is for an
\* earlier batch.
LEMMA OrphanWrite ==
    ASSUME ForwardTypeOK, WriteInv, NEW q \in Requests, NEW t \in Tenants,
           NEW reply \in UpstreamReplies, Upstream(q, t, reply), OrphanReply(q, t)
    PROVE  WriteInv'
<1>1. /\ rpc[q] = "abandoned"
      /\ KeepOrphans(q, InState(q, "inflight") \ {t})
      /\ batch' = batch
      /\ troubled => troubled'
  BY DEF OrphanReply, Upstream, historyVars
<1>2. \A r \in Requests : r # q => SlotKept(r)
  BY <1>1, OthersAreKept DEF OthersKept
<1>3. /\ ~Attempt(q)' /\ SlotInv(q)' /\ rpc'[q] \in {"idle", "abandoned"}
      /\ rpc'[q] = "abandoned" => payload'[q] = payload[q]
  BY <1>1, OrphansKept
<1>4. \A r \in Requests : SlotInv(r)'
  BY <1>2, <1>3, KeptSlot DEF WriteInv
<1>5. /\ \A r \in Requests : Attempt(r)' = Attempt(r)
      /\ \A r \in Requests : rpc'[r] = "abandoned" => rpc[r] = "abandoned"
      /\ \A r \in Requests : rpc'[r] # "idle" => payload'[r] = payload[r]
  BY <1>1, <1>2, <1>3, KeptSlot DEF SlotKept, SameAnswer, Attempt
<1>6. CarryInv'
  BY <1>1, <1>5, CarryKept DEF WriteInv
<1>7. Calm'
  <2> SUFFICES ASSUME ~troubled
               PROVE  /\ NoneLeftBehind'
                      /\ TakenFromAttempt'
                      /\ \A r \in Requests : NoFailureYet(r)'
    BY <1>1 DEF Calm
  <2>1. NoneLeftBehind'
    BY <1>1, <1>5 DEF WriteInv, Calm, NoneLeftBehind, Carries, Batches
  <2>2. taken' = taken
    <3>1. PICK b \in Batches : b <= batch /\ Carries(q, b)
      BY <1>1 DEF WriteInv, CarryInv, OrphanCarries
    <3>2. Carried(q) = b
      BY <3>1, CarriedBatch
    <3>3. b # batch
      BY <1>1, <3>1 DEF WriteInv, Calm, NoneLeftBehind
    <3> QED
      BY <3>2, <3>3 DEF Upstream, historyVars
  <2>3. TakenFromAttempt'
    <3> SUFFICES ASSUME NEW u \in taken \cap Tenants
                 PROVE  \E r \in Requests : Sending(r)' /\ post'[r][u] = "2xx"
      BY <2>2 DEF TakenFromAttempt
    <3>1. PICK r \in Requests : Sending(r) /\ post[r][u] = "2xx"
      BY DEF WriteInv, Calm, TakenFromAttempt
    <3>2. r # q
      BY <1>1, <3>1 DEF Sending
    <3> QED
      BY <1>2, <3>1, <3>2, KeptSlot
  <2>4. \A r \in Requests : NoFailureYet(r)'
    BY <1>2, <1>3, KeptSlot DEF WriteInv, Calm, NoFailureYet
  <2> QED
    BY <2>1, <2>3, <2>4
<1> QED
  BY <1>4, <1>6, <1>7 DEF WriteInv

\* A post of the attempt is answered; a failure is trouble.
LEMMA ReplyWrite ==
    ASSUME ForwardTypeOK, WriteInv, NEW q \in Requests, NEW t \in Tenants,
           NEW reply \in UpstreamReplies, Upstream(q, t, reply), Reply(q, t, reply)
    PROVE  WriteInv'
<1>1. \A r \in Requests : r # q => SlotKept(r)
  BY OthersAreKept DEF OthersKept
<1>2. /\ rpc[q] = "forwarding" /\ rpc'[q] = "forwarding"
      /\ payload'[q] = payload[q] /\ status'[q] = status[q]
      /\ post'[q][t] = reply
      /\ \A u \in Tenants : u # t => post'[q][u] = post[q][u]
      /\ SlotInv(q)'
      /\ ~IsFailure(reply) => num_of_failures'[q] = num_of_failures[q]
  BY ReplyMoves DEF WriteInv
<1>3. Attempt(q) /\ Carries(q, batch) /\ Carried(q) = batch
  BY <1>2, CarriedBatch DEF WriteInv, CarryInv, AttemptCarries, Attempt
<1>4. /\ batch' = batch
      /\ taken' = IF reply = "2xx" THEN taken \cup {t} ELSE taken
      /\ troubled' = (troubled \/ reply \notin {"2xx", "4xx"})
  BY <1>3 DEF Upstream
<1>5. \A r \in Requests : SlotInv(r)'
  BY <1>1, <1>2, KeptSlot DEF WriteInv
<1>6. \A r \in Requests : rpc'[r] = rpc[r] /\ payload'[r] = payload[r]
  BY <1>1, <1>2 DEF SlotKept, SameAnswer
<1>7. CarryInv'
  BY <1>4, <1>6, CarryKept DEF WriteInv, Attempt
<1>8. Calm'
  <2> SUFFICES ASSUME ~troubled, reply \in {"2xx", "4xx"}
               PROVE  /\ NoneLeftBehind'
                      /\ TakenFromAttempt'
                      /\ \A r \in Requests : NoFailureYet(r)'
    BY <1>4 DEF Calm
  <2>1. NoneLeftBehind'
    BY <1>4, <1>6 DEF WriteInv, Calm, NoneLeftBehind, Carries, Batches
  <2>2. TakenFromAttempt'
    <3> SUFFICES ASSUME NEW u \in taken' \cap Tenants
                 PROVE  \E r \in Requests : Sending(r)' /\ post'[r][u] = "2xx"
      BY DEF TakenFromAttempt
    <3>1. CASE u \in taken
      <4>1. PICK r \in Requests : Sending(r) /\ post[r][u] = "2xx"
        BY <3>1 DEF WriteInv, Calm, TakenFromAttempt
      <4>2. r = q
        BY <1>3, <4>1 DEF WriteInv, CarryInv, OneAttempt, Sending, Attempt
      <4>3. u # t
        BY <4>1, <4>2 DEF Reply
      <4> QED
        BY <1>2, <4>1, <4>2, <4>3 DEF Sending
    <3>2. CASE u \notin taken
      <4>1. u = t /\ reply = "2xx"
        BY <1>4, <3>2
      <4> QED
        BY <1>2, <4>1 DEF Sending
    <3> QED
      BY <3>1, <3>2
  <2>3. \A r \in Requests : NoFailureYet(r)'
    <3>1. NoFailureYet(q)'
      BY <1>2, <1>3 DEF WriteInv, Calm, NoFailureYet, IsFailure
    <3> QED
      BY <1>1, <3>1, KeptSlot DEF WriteInv, Calm
  <2> QED
    BY <2>1, <2>2, <2>3
<1> QED
  BY <1>5, <1>7, <1>8 DEF WriteInv

\* A crash with an attempt under way is trouble.
LEMMA CrashWrite ==
    ASSUME ForwardTypeOK, WriteInv, Crash
    PROVE  WriteInv'
<1>1. /\ batch' = batch /\ taken' = taken
      /\ troubled' = (troubled \/ \E r \in Requests : Attempt(r))
  BY DEF Crash
<1>2. \A r \in Requests :
         /\ rpc'[r] \in {"idle", "abandoned"}
         /\ rpc'[r] = "abandoned" => payload'[r] = payload[r] /\ Orphans(r) # {}
         /\ \A t \in Tenants : post'[r][t] \in {"none", "inflight"}
         /\ \A t \in Tenants : post'[r][t] = "inflight" => rpc'[r] = "abandoned"
         /\ num_of_failures'[r] = 0 /\ status'[r] = 0
  BY CrashLeaves
<1>3. \A r \in Requests : SlotInv(r)' /\ ~Attempt(r)'
  <2> TAKE r \in Requests
  <2>1. /\ rpc'[r] \in {"idle", "abandoned"}
        /\ \A t \in Tenants : post'[r][t] \in {"none", "inflight"}
        /\ \A t \in Tenants : post'[r][t] = "inflight" => rpc'[r] = "abandoned"
        /\ num_of_failures'[r] = 0 /\ status'[r] = 0
    BY <1>2
  <2> QED
    BY <2>1 DEF SlotInv, NothingSent, Sent, Attempt
<1>4. \A r \in Requests : rpc'[r] = "abandoned" => Attempt(r) \/ rpc[r] = "abandoned"
  BY <1>2 DEF WriteInv, SlotInv, Sent, Attempt, Orphans, InState
<1>5. CarryInv'
  BY <1>1, <1>2, <1>3, <1>4, CarryKept DEF WriteInv
<1>6. Calm'
  <2> SUFFICES ASSUME ~troubled, \A r \in Requests : ~Attempt(r)
               PROVE  /\ NoneLeftBehind'
                      /\ TakenFromAttempt'
                      /\ \A r \in Requests : NoFailureYet(r)'
    BY <1>1 DEF Calm
  <2>1. NoneLeftBehind'
    BY <1>1, <1>2, <1>4 DEF WriteInv, Calm, NoneLeftBehind, Carries, Batches
  <2>2. taken \cap Tenants = {}
    BY DEF WriteInv, Calm, TakenFromAttempt, Sending, Attempt
  <2> QED
    BY <1>1, <1>3, <2>1, <2>2 DEF TakenFromAttempt, NoFailureYet
<1> QED
  BY <1>3, <1>5, <1>6 DEF WriteInv

-----------------------------------------------------------------------------
(* The invariant, and what follows from it.                                *)

\* Nothing is sent yet, and the first batch is on.
LEMMA RemoteInitInv == RemoteInit => RemoteInv
<1> SUFFICES ASSUME RemoteInit PROVE RemoteInv
  OBVIOUS
<1>1. ProxyInv
  BY ProxyInitInv DEF RemoteInit
<1>2. /\ batch = 1 /\ taken = {}
      /\ \A r \in Requests : /\ rpc[r] = "idle" /\ num_of_failures[r] = 0 /\ status[r] = 0
                             /\ \A t \in Tenants : post[r][t] = "none"
  BY DEF RemoteInit, ProxyInit, ForwardInit, NoPosts
<1>3. CarryInv
  BY <1>2 DEF CarryInv, AttemptCarries, OrphanCarries, OneAttempt, Attempt
<1>4. \A r \in Requests : SlotInv(r)
  BY <1>2 DEF SlotInv, NothingSent, Sent
<1>5. Calm
  BY <1>2 DEF Calm, NoneLeftBehind, TakenFromAttempt, NoFailureYet, Attempt
<1> QED
  BY <1>1, <1>3, <1>4, <1>5 DEF RemoteInv, WriteInv

\* One step of Prometheus, proxy, cluster and upstream.
LEMMA RemoteStepInv ==
    ASSUME RemoteInv, [RemoteNext]_remoteVars
    PROVE  RemoteInv'
<1>1. ForwardTypeOK /\ WriteInv
  BY DEF RemoteInv, ProxyInv
<1>2. ProxyInv'
  BY RemoteProxyInv DEF RemoteInv
<1>3. CASE UNCHANGED remoteVars
  <2>1. UNCHANGED forwardVars /\ historyKept
    BY <1>3 DEF remoteVars, proxyVars, historyKept
  <2> QED
    BY <1>1, <1>2, <2>1, QuietWrite DEF RemoteInv
<1>4. CASE /\ ControllerTurn \/ Environment \/ Granting
           /\ UNCHANGED <<batch, crashes, historyVars>>
  <2>1. UNCHANGED forwardVars /\ historyKept
    BY <1>4 DEF ControllerTurn, Environment, Granting, historyKept
  <2> QED
    BY <1>1, <1>2, <2>1, QuietWrite DEF RemoteInv
<1>5. ASSUME NEW r \in Requests, Handle(r), UNCHANGED <<batch, crashes, historyVars>>
      PROVE  RemoteInv'
  BY <1>1, <1>2, <1>5, HandleWrite DEF Handle, historyKept, RemoteInv
<1>6. ASSUME Prometheus PROVE RemoteInv'
  BY <1>1, <1>2, <1>6, SendWrite, LearnWrite, VainWrite DEF Prometheus, RemoteInv
<1>7. ASSUME NEW r \in Requests, NEW t \in Tenants, NEW reply \in UpstreamReplies,
             Upstream(r, t, reply)
      PROVE  RemoteInv'
  <2>1. Reply(r, t, reply) \/ OrphanReply(r, t)
    BY <1>7 DEF Upstream
  <2> QED
    BY <1>1, <1>2, <1>7, <2>1, ReplyWrite, OrphanWrite DEF RemoteInv
<1>8. CASE Crash
  BY <1>1, <1>2, <1>8, CrashWrite DEF RemoteInv
<1> QED
  BY <1>3, <1>4, <1>5, <1>6, <1>7, <1>8 DEF RemoteNext

\* RemoteInv is inductive.
THEOREM RemoteInvariant == RemoteSpec => []RemoteInv
<1>1. RemoteInv /\ [RemoteNext]_remoteVars => RemoteInv'
  BY RemoteStepInv
<1> QED
  BY <1>1, RemoteInitInv, PTL DEF RemoteSpec

\* The upstream answers for a batch that is not the current one, or for a tenant
\* that is barred at that moment, only when the handler that sent it is gone: a
\* handler that lives has the lock and its client (forward.rs, 161 and 172).
THEOREM OnlyOrphansComeLate == RemoteSpec => OnlyOrphansAreLate
<1>1. ASSUME RemoteInv, NEW r \in Requests, NEW t \in Tenants, post[r][t] = "inflight"
      PROVE  \/ rpc[r] = "abandoned"
             \/ /\ Carried(r) = batch
                /\ t \in Range(tenants_vec) \cup Range(replicate_to)
  <2> SUFFICES ASSUME rpc[r] # "abandoned"
               PROVE  /\ Carried(r) = batch
                      /\ t \in Range(tenants_vec) \cup Range(replicate_to)
    OBVIOUS
  <2>1. rpc[r] = "forwarding" /\ tenant_data[r][t] # << >>
    BY <1>1 DEF RemoteInv, WriteInv, SlotInv, Sent
  <2>2. Carries(r, batch)
    BY <1>1, <2>1 DEF RemoteInv, WriteInv, CarryInv, AttemptCarries, Attempt
  <2> QED
    BY <1>1, <2>1, <2>2, CarriedBatch, DataMeansEntitled DEF RemoteInv
<1>2. RemoteInv =>
        [\A r \in Requests : \A t \in Tenants :
          post[r][t] = "inflight" /\ post'[r][t] # "inflight" =>
              \/ rpc[r] = "abandoned"
              \/ /\ Carried(r) = batch
                 /\ t \in Range(tenants_vec) \cup Range(replicate_to)]_remoteVars
  BY <1>1
<1> QED
  BY <1>2, RemoteInvariant, PTL DEF OnlyOrphansAreLate

\* A batch is taken twice by a tenant only when an attempt at it failed for
\* somebody, was given up, or was answered in vain (forward.rs, 185-189).
THEOREM NoDuplicatesUntroubled == RemoteSpec => NoDuplicateWithoutTrouble
<1>1. ASSUME RemoteInv, NEW r \in Requests, NEW t \in Tenants,
             post[r][t] = "inflight", Carried(r) = batch, ~troubled
      PROVE  t \notin taken
  <2>1. rpc[r] = "forwarding"
    <3>1. ASSUME rpc[r] = "abandoned" PROVE FALSE
      <4>1. PICK b \in Batches : Carries(r, b)
        BY <1>1, <3>1 DEF RemoteInv, WriteInv, CarryInv, OrphanCarries
      <4>2. b = batch
        BY <1>1, <4>1, CarriedBatch
      <4> QED
        BY <1>1, <3>1, <4>1, <4>2 DEF RemoteInv, WriteInv, Calm, NoneLeftBehind
    <3> QED
      BY <1>1, <3>1 DEF RemoteInv, WriteInv, SlotInv, Sent
  <2>2. ASSUME t \in taken PROVE FALSE
    <3>1. PICK q \in Requests : Sending(q) /\ post[q][t] = "2xx"
      BY <1>1, <2>2 DEF RemoteInv, WriteInv, Calm, TakenFromAttempt
    <3>2. q = r
      BY <1>1, <2>1, <3>1
         DEF RemoteInv, WriteInv, CarryInv, OneAttempt, Sending, Attempt
    <3> QED
      BY <1>1, <3>1, <3>2
  <2> QED
    BY <2>2
<1>2. RemoteInv =>
        [\A r \in Requests : \A t \in Tenants :
          post[r][t] = "inflight" /\ post'[r][t] = "2xx" /\ Carried(r) = batch /\ ~troubled
              => t \notin taken]_remoteVars
  BY <1>1
<1> QED
  BY <1>2, RemoteInvariant, PTL DEF NoDuplicateWithoutTrouble

\* What the proxy promises of routing survives crashes and retries: also then
\* each request is what one published allow-list makes of the payload (main.rs,
\* 284-285).
THEOREM RoutedThroughCrashes == RemoteSpec => []RoutedByOneAllowList
<1>1. RemoteInv => RoutedByOneAllowList
  BY RoutedByInv DEF RemoteInv
<1> QED
  BY <1>1, RemoteInvariant, PTL

\* So does what it promises of sending: a proxy that has crashed and knows only
\* the command line again sends for nobody else, and no crash sends (main.rs,
\* 284-299).
THEOREM SentThroughCrashes == RemoteSpec => SentOnlyWhileAllowed
<1>1. ASSUME RemoteInv, [RemoteNext]_remoteVars,
             NEW r \in Requests, NEW t \in Tenants,
             post[r][t] # "inflight", post'[r][t] = "inflight"
      PROVE  t \in Range(tenants_vec') \cup Range(replicate_to)
  <2>1. ASSUME Crash PROVE FALSE
    BY <1>1, <2>1, CrashLeaves DEF Orphans, InState
  <2>2. [ProxyNext]_proxyVars
    BY <1>1, <2>1, RemoteStepIsProxyStep DEF RemoteInv
  <2> QED
    BY <1>1, <2>2, SentByTheList DEF RemoteInv
<1>2. RemoteInv /\ [RemoteNext]_remoteVars =>
        [\A r \in Requests : \A t \in Tenants :
          (post[r][t] # "inflight" /\ post'[r][t] = "inflight") =>
              t \in Range(tenants_vec') \cup Range(replicate_to)]_proxyVars
  BY <1>1
<1> QED
  BY <1>2, RemoteInvariant, PTL DEF RemoteSpec, SentOnlyWhileAllowed

\* And so does its answer: no post that a crash or a client has left behind is
\* counted for the request that uses the slot next (forward.rs, 161-194).
THEOREM AckThroughCrashes ==
    ASSUME FewTenants
    PROVE  RemoteSpec => []AckMeansDelivered
<1> DEFINE AllAckInv == \A r \in Requests : AckInv(r)
<1>1. RemoteInv /\ AllAckInv /\ [RemoteNext]_remoteVars => AllAckInv'
  BY RemoteAckInv DEF RemoteInv
<1>2. RemoteInit => AllAckInv
  BY AckInitInv DEF RemoteInit
<1>3. RemoteInv /\ AllAckInv => AckMeansDelivered
  BY AckByInv DEF RemoteInv
<1> HIDE DEF AllAckInv
<1> QED
  BY <1>1, <1>2, <1>3, RemoteInvariant, PTL DEF RemoteSpec

-----------------------------------------------------------------------------
(* Nobody is passed by: the promise of Delivery, while nobody stops the      *)
(* controller.                                                               *)

\* The tenants of the command line stay on the allow-list.
CommandLineKept ==
    /\ ~stopping
    /\ cpc \notin {"break", "clean_wait"}
    /\ cpc # "boot" => initial_tenants = Range(allow_listed_tenants)

\* Whose post was taken, or refused for good, has settled the batch; an answer
\* other than 400 was given with a request made for everyone the batch is due to.
Delivered(r) ==
    /\ Sending(r) => \A t \in Tenants : post[r][t] \in {"2xx", "4xx"} => t \in settled
    /\ rpc[r] = "answered" =>
          /\ status[r] \in {200, 500}
          /\ \A t \in DueTo(batch) : tenant_data[r][t] # << >>

DeliveryInv ==
    /\ RemoteInv
    /\ CommandLineKept
    /\ \A r \in Requests : AckInv(r) /\ Delivered(r)

\* No step but the boot sets the tenants of the command line, and only a crash or
\* the directive to stop takes them away.
LEMMA CommandLineStays ==
    ASSUME ~Stoppable, ProxyInv, CommandLineKept, [RemoteNext]_remoteVars
    PROVE  CommandLineKept'
<1> USE DEF CommandLineKept
<1>1. CASE Crash
  BY <1>1 DEF Crash, clean
<1>2. CASE UNCHANGED notLockVars
  BY <1>2 DEF notLockVars, fieldVars, controllerVars
<1>3. CASE Edit \/ Stop \/ Grant
  BY <1>3 DEF Edit, Stop, Grant, fieldVars, controllerVars
<1>4. CASE ControllerStep
  <2>1. ~StopSeen /\ ~AskClean /\ ~Clean
    BY DEF StopSeen, AskClean, Clean, Goto
  <2>2. CASE Boot
    <3>1. initial_tenants = {}
      BY <2>2 DEF Boot, Goto, ProxyInv, ControllerInv, BootState
    <3>2. /\ initial_tenants' = Range(allow_listed_tenants)
          /\ stopping' = stopping /\ cpc' \in {"iterate", "spawn"}
      BY <2>2, <3>1 DEF Boot, Goto, set_initial_allowed_tenants
    <3> QED
      BY <3>2
  <2>3. CASE ObserveStep
    <3>1. cpc = "observing" /\ initial_tenants' = initial_tenants /\ stopping' = stopping
      BY <2>3
         DEF ObserveStep, ObserveAdd, ObserveRemove, ObserveDone, Observing, add_tenant,
             remove_tenant, fieldVars
    <3>2. cpc' \in {"observing", "sleeping", "spawn"}
      BY <2>3
         DEF ObserveStep, ObserveAdd, ObserveRemove, ObserveDone, Observing,
             IterationEnds, controllerVars
    <3> QED
      BY <3>1, <3>2
  <2>4. CASE ~Boot /\ ~ObserveStep
    BY <1>4, <2>1, <2>4
       DEF ControllerStep, StartServing, AskRead, StartListing, ListRules, ListingOk,
           ListingErr, IterationEnds, AskWrite, AskInit, init_k8s, AskCheck,
           CheckClient, Goto, fieldVars, controllerVars
  <2> QED
    BY <2>2, <2>3, <2>4
<1>5. CASE UNCHANGED proxyVars
  BY <1>5 DEF proxyVars, allControllerVars, fieldVars, controllerVars
<1>6. ProxyNext => \/ ControllerStep \/ Edit \/ Stop \/ Grant
                   \/ UNCHANGED notLockVars
  BY DEF ProxyNext, ControllerTurn, Environment, Granting, Handle, Client, Answer
<1> QED
  BY <1>1, <1>2, <1>3, <1>4, <1>5, <1>6, RemoteStepIsProxyStep

\* A handler that forwards has a request for everyone the batch is due to.
LEMMA EveryoneIsServed ==
    ASSUME ProxyInv, CommandLineKept, NEW r \in Requests, rpc[r] = "forwarding",
           NEW b, Carries(r, b), NEW t \in DueTo(b)
    PROVE  tenant_data[r][t] # << >>
<1>1. /\ Routed(tenant_data[r][t], Len(payload[r]), Due(r, t)) /\ t \in Tenants
      /\ allowed[r] = Range(tenants_vec) /\ payload[r] \in Payloads /\ serving
  BY DEF ProxyInv, HandlerInv, RoutedSoFar, RoutedUpTo, ListBorrowed, InHand,
         IdleUntilServing, DueTo
<1>2. Range(allow_listed_tenants) \subseteq allowed[r]
  <2>1. cpc # "boot"
    BY <1>1 DEF ProxyInv, ControllerInv, BootState
  <2>2. Range(tenants_vec) = initial_tenants \cup tenants
    BY DEF ProxyInv, ControllerInv, VecMatchesSets
  <2> QED
    BY <1>1, <2>1, <2>2 DEF CommandLineKept
<1>3. PICK i \in DOMAIN payload[r] : Entitled(r, i, t)
  <2>1. payload[r] = Stream[b]
    BY DEF Carries
  <2> QED
    BY <1>2, <2>1 DEF DueTo, Entitled
<1>4. i \in 1 .. Len(payload[r]) /\ i \in Nat
  BY <1>1, <1>3, PayloadIsList
<1>5. i \in Due(r, t)
  BY <1>3, <1>4 DEF Due
<1>6. i \in Range(tenant_data[r][t])
  BY <1>1, <1>4, <1>5 DEF Routed
<1> QED
  BY <1>6 DEF Range

\* A handler that answers has made a request for everyone, and what was settled
\* of its posts was settled before.
LEMMA HandleDelivers ==
    ASSUME ProxyInv, CommandLineKept, NEW r \in Requests, Attempt(r) => Carries(r, batch),
           SlotInv(r), Delivered(r), HandlerStep(r), historyKept
    PROVE  Delivered(r)'
<1> USE DEF Delivered, Sending, historyKept, historyVars, DueTo
<1>1. ForwardTypeOK /\ batch' = batch /\ settled' = settled
  BY DEF ProxyInv
<1>2. CASE RejectGarbage(r)
  <2>1. rpc[r] = "waiting" /\ payload[r] = Garbage
    BY <1>2 DEF RejectGarbage, Move
  <2>2. Stream[batch] \in Payloads /\ payload[r] = Stream[batch]
    BY <2>1, StreamAssumption, LenProperties DEF Attempt, Carries, Batches
  <2> QED
    BY <2>1, <2>2, ForwardingAssumption
<1>3. CASE Decode(r) \/ RouteSeries(r)
  <2>1. rpc'[r] = "routing"
    <3>1. CASE Decode(r)
      BY <1>1, <3>1 DEF Decode, Move, ForwardTypeOK
    <3>2. CASE RouteSeries(r)
      BY <3>2 DEF RouteSeries
    <3> QED
      BY <1>3, <3>1, <3>2
  <2> QED
    BY <2>1
<1>4. CASE StartForwarding(r)
  <2>1. /\ rpc'[r] = "forwarding"
        /\ \A t \in Tenants : post'[r][t] \in {"none", "queued"}
    BY <1>1, <1>4 DEF StartForwarding, Move, ForwardTypeOK
  <2> QED
    BY <2>1
<1>5. CASE \E t \in Tenants : Spawn(r, t)
  <2>1. PICK t \in Tenants : Spawn(r, t)
    BY <1>5
  <2>2. /\ rpc[r] = "forwarding" /\ rpc' = rpc /\ post'[r][t] = "inflight"
        /\ \A u \in Tenants : u # t => post'[r][u] = post[r][u]
    BY <1>1, <2>1 DEF Spawn, ForwardTypeOK
  <2> QED
    BY <1>1, <2>2
<1>6. CASE Respond(r)
  <2>1. /\ rpc[r] = "forwarding" /\ rpc'[r] = "answered"
        /\ post' = post /\ tenant_data' = tenant_data /\ status'[r] \in {200, 500}
    BY <1>1, <1>6 DEF Respond, Move, ForwardTypeOK
  <2>2. Carries(r, batch)
    BY <2>1 DEF Attempt
  <2>3. \A t \in DueTo(batch) : tenant_data[r][t] # << >>
    BY <2>1, <2>2, EveryoneIsServed
  <2> QED
    BY <1>1, <2>1, <2>3
<1> QED
  BY <1>2, <1>3, <1>4, <1>5, <1>6 DEF HandlerStep

\* What was delivered stays so with a slot that is left alone.
LEMMA KeptDelivers ==
    ASSUME NEW r \in Requests, SlotKept(r), Delivered(r), batch' = batch,
           settled \subseteq settled'
    PROVE  Delivered(r)'
BY DEF SlotKept, SameAnswer, Delivered, Sending, DueTo

\* An attempt that is over has nothing to account for.
LEMMA IdleDelivers ==
    ASSUME NEW r, ~Sending(r)'
    PROVE  Delivered(r)'
BY DEF Delivered, Sending

\* One step of anybody.
LEMMA DeliveredStep ==
    ASSUME DeliveryInv, [RemoteNext]_remoteVars, NEW r \in Requests
    PROVE  Delivered(r)'
<1>1. /\ ProxyInv /\ ForwardTypeOK /\ WriteInv /\ SlotInv(r) /\ Delivered(r)
      /\ Attempt(r) => Carries(r, batch)
      /\ CommandLineKept
  BY DEF DeliveryInv, RemoteInv, ProxyInv, WriteInv, CarryInv, AttemptCarries
<1>2. CASE UNCHANGED forwardVars /\ historyKept
  <2>1. SlotKept(r)
    BY <1>2 DEF SlotKept, SameAnswer, forwardVars
  <2> QED
    BY <1>1, <1>2, <2>1, KeptDelivers DEF historyKept, historyVars
<1>3. ASSUME NEW q \in Requests, Handle(q), historyKept PROVE Delivered(r)'
  <2>1. HandlerStep(q)
    BY <1>3 DEF Handle
  <2>2. CASE q = r
    BY <1>1, <1>3, <2>1, <2>2, HandleDelivers
  <2>3. CASE q # r
    <3>1. SlotKept(r)
      BY <1>1, <2>1, <2>3, OthersAreKept DEF OthersKept
    <3> QED
      BY <1>1, <1>3, <3>1, KeptDelivers DEF historyKept, historyVars
  <2> QED
    BY <2>2, <2>3
<1>4. ASSUME NEW q \in Requests, Send(q) PROVE Delivered(r)'
  <2>1. /\ Receive(q) /\ batch' = batch /\ settled' = settled
    BY <1>4 DEF Send, historyVars
  <2>2. CASE q = r
    <3>1. rpc'[r] = "waiting"
      BY <1>1, <2>1, <2>2 DEF Receive, Move, ForwardTypeOK
    <3> QED
      BY <3>1, IdleDelivers DEF Sending
  <2>3. CASE q # r
    <3>1. SlotKept(r)
      BY <1>1, <2>1, <2>3, OthersAreKept DEF OthersKept
    <3> QED
      BY <1>1, <2>1, <3>1, KeptDelivers
  <2> QED
    BY <2>2, <2>3
<1>5. ASSUME NEW q \in Requests, Learn(q) \/ AnswerLost(q) \/ TimesOut(q)
      PROVE  Delivered(r)'
  <2>1. Recycle(q) \/ Abandon(q)
    BY <1>5 DEF Learn, AnswerLost, TimesOut
  <2>2. ~Attempt(r)'
    BY <1>1, <2>1, AttemptEnds
  <2>3. ~Sending(r)'
    BY <2>2 DEF Attempt, Sending
  <2> QED
    BY <2>3, IdleDelivers
<1>6. ASSUME NEW q \in Requests, NEW t \in Tenants, NEW reply \in UpstreamReplies,
             Upstream(q, t, reply)
      PROVE  Delivered(r)'
  <2>1. /\ batch' = batch /\ settled \subseteq settled'
        /\ Reply(q, t, reply) \/ OrphanReply(q, t)
    BY <1>6 DEF Upstream, historyVars
  <2>2. CASE q # r
    <3>1. SlotKept(r)
      BY <1>1, <1>6, <2>1, <2>2, OthersAreKept DEF OthersKept, OrphanReply
    <3> QED
      BY <1>1, <2>1, <3>1, KeptDelivers
  <2>3. CASE q = r /\ OrphanReply(r, t)
    <3>1. ~Attempt(r)'
      BY <1>1, <2>3, OrphansKept DEF OrphanReply
    <3>2. ~Sending(r)'
      BY <3>1 DEF Attempt, Sending
    <3> QED
      BY <3>2, IdleDelivers
  <2>4. CASE q = r /\ Reply(r, t, reply)
    <3>1. /\ rpc[r] = "forwarding" /\ rpc'[r] = "forwarding" /\ post'[r][t] = reply
          /\ \A u \in Tenants : u # t => post'[r][u] = post[r][u]
      BY <1>1, <2>4, ReplyMoves
    <3>2. Carried(r) = batch
      BY <1>1, <3>1, CarriedBatch DEF Attempt
    <3>3. reply \in {"2xx", "4xx"} => t \in settled'
      BY <1>6, <2>4, <3>2 DEF Upstream
    <3> QED
      BY <1>1, <2>1, <3>1, <3>3 DEF Delivered, Sending
  <2> QED
    BY <2>1, <2>2, <2>3, <2>4
<1>7. CASE Crash
  <2>1. ~Sending(r)'
    BY <1>7, CrashLeaves DEF Sending
  <2> QED
    BY <2>1, IdleDelivers
<1>8. UNCHANGED remoteVars => UNCHANGED forwardVars /\ historyKept
  BY DEF remoteVars, proxyVars, historyKept
<1>9. UNCHANGED <<batch, crashes, historyVars>> => historyKept
  BY DEF historyKept
<1>10. ControllerTurn \/ Environment \/ Granting => UNCHANGED forwardVars
  BY DEF ControllerTurn, Environment, Granting
<1> QED
  BY <1>2, <1>3, <1>4, <1>5, <1>6, <1>7, <1>8, <1>9, <1>10 DEF RemoteNext, Prometheus

\* DeliveryInv is inductive.
LEMMA DeliveryStepInv ==
    ASSUME FewTenants, ~Stoppable, DeliveryInv, [RemoteNext]_remoteVars
    PROVE  DeliveryInv'
<1>1. ProxyInv /\ RemoteInv /\ CommandLineKept /\ \A r \in Requests : AckInv(r)
  BY DEF DeliveryInv, RemoteInv
<1>2. RemoteInv' /\ CommandLineKept'
  BY <1>1, RemoteStepInv, CommandLineStays
<1>3. \A r \in Requests : AckInv(r)'
  BY <1>1, RemoteAckInv
<1>4. \A r \in Requests : Delivered(r)'
  BY DeliveredStep
<1> QED
  BY <1>2, <1>3, <1>4 DEF DeliveryInv

\* At the start nothing is due from anybody.
LEMMA DeliveryInitInv == RemoteInit => DeliveryInv
<1> SUFFICES ASSUME RemoteInit PROVE DeliveryInv
  OBVIOUS
<1>1. RemoteInv /\ \A r \in Requests : AckInv(r)
  BY RemoteInitInv, AckInitInv DEF RemoteInit
<1>2. CommandLineKept
  BY DEF CommandLineKept, RemoteInit, ProxyInit, ControllerInit, EmptyController
<1>3. \A r \in Requests : Delivered(r)
  BY DEF Delivered, Sending, RemoteInit, ProxyInit, ForwardInit
<1> QED
  BY <1>1, <1>2, <1>3 DEF DeliveryInv

\* A batch that is answered well is settled by everyone it is due to.
LEMMA GoodAnswerSettles ==
    ASSUME DeliveryInv, NEW r \in Requests, rpc[r] = "answered", status[r] # 500
    PROVE  batch \in Batches /\ DueTo(batch) \subseteq settled
<1>1. AckInv(r) /\ Delivered(r) /\ Carries(r, batch)
  BY DEF DeliveryInv, RemoteInv, WriteInv, CarryInv, AttemptCarries, Attempt
<1>2. status[r] = 200 /\ \A t \in DueTo(batch) : tenant_data[r][t] # << >>
  BY <1>1 DEF Delivered
<1>3. /\ PostsAreDue(r) /\ Failed(r) = {}
      /\ \A t \in Tenants : post[r][t] \in {"none"} \cup Replies
  BY <1>1, <1>2 DEF AckInv, Answered
<1>4. ASSUME NEW t \in DueTo(batch) PROVE t \in settled
  <2>1. t \in Tenants
    BY DEF DueTo
  <2>2. post[r][t] \in {"2xx", "4xx"}
    BY <1>2, <1>3, <2>1 DEF PostsAreDue, Failed, Failures, Replies
  <2> QED
    BY <1>1, <2>1, <2>2 DEF Delivered, Sending
<1> QED
  BY <1>1, <1>4 DEF Carries

\* Every step moves on to the next batch, settles this one, or does not show.
LEMMA StepDelivers ==
    ASSUME DeliveryInv, [RemoteNext]_remoteVars
    PROVE  [Wanted!Next]_(Wanted!vars)
<1>1. CASE batch' = batch /\ settled' = settled
  BY <1>1 DEF Wanted!vars
<1>2. ASSUME NEW r \in Requests, Learn(r) PROVE [Wanted!Next]_(Wanted!vars)
  <2>1. CASE status[r] = 500
    BY <1>1, <1>2, <2>1 DEF Learn, historyVars
  <2>2. CASE status[r] # 500
    <3>1. rpc[r] = "answered" /\ batch' = batch + 1 /\ settled' = {}
      BY <1>2, <2>2 DEF Learn, MoveOn
    <3>2. batch \in Batches /\ DueTo(batch) \subseteq settled
      BY <2>2, <3>1, GoodAnswerSettles
    <3>3. Wanted!MoveOn
      BY <3>1, <3>2 DEF Wanted!MoveOn
    <3> QED
      BY <3>3 DEF Wanted!Next
  <2> QED
    BY <2>1, <2>2
<1>3. ASSUME NEW r \in Requests, NEW t \in Tenants, NEW reply \in UpstreamReplies,
             Upstream(r, t, reply)
      PROVE  [Wanted!Next]_(Wanted!vars)
  <2>1. batch' = batch /\ settled' \in {settled, settled \cup {t}}
    BY <1>3 DEF Upstream, historyVars
  <2>2. CASE settled' = settled \cup {t}
    <3>1. Wanted!Settle
      BY <2>1, <2>2 DEF Wanted!Settle
    <3> QED
      BY <3>1 DEF Wanted!Next
  <2> QED
    BY <1>1, <2>1, <2>2
<1>4. CASE \/ UNCHANGED remoteVars
           \/ UNCHANGED <<batch, crashes, historyVars>>
           \/ Crash
           \/ \E r \in Requests : Send(r) \/ AnswerLost(r) \/ TimesOut(r)
  <2>1. batch' = batch /\ settled' = settled
    BY <1>4 DEF remoteVars, historyVars, Crash, Send, AnswerLost, TimesOut, InVain
  <2> QED
    BY <1>1, <2>1
<1> QED
  BY <1>2, <1>3, <1>4 DEF RemoteNext, Prometheus

\* No batch is left behind before every tenant of the command line that it has
\* series for has taken it or refused it for good, through retries, abandoned
\* handlers and crashes (forward.rs, 144-194); while nobody stops the controller,
\* and with fewer tenants than the 16 bits of the count can tell apart.
THEOREM RemoteWriteDelivers ==
    ASSUME FewTenants, ~Stoppable
    PROVE  RemoteSpec => ImplementsDelivery
<1>1. RemoteInit => Wanted!Init
  BY DEF RemoteInit, Wanted!Init
<1>2. DeliveryInv /\ [RemoteNext]_remoteVars => DeliveryInv'
  BY DeliveryStepInv
<1>3. DeliveryInv /\ [RemoteNext]_remoteVars => [Wanted!Next]_(Wanted!vars)
  BY StepDelivers
<1> QED
  BY <1>1, <1>2, <1>3, DeliveryInitInv, PTL
  DEF RemoteSpec, ImplementsDelivery, Wanted!Spec
=============================================================================
