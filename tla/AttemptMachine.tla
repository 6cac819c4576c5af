--------------------------- MODULE AttemptMachine ---------------------------
(***************************************************************************)
(* The gateway's request pipeline: admission, routing, the failover loop   *)
(* (Gateway::dispatch), one attempt on one upstream, the terminal          *)
(* settlement, and the three ways a request is cancelled while any of that *)
(* runs.  Every request is a blocking worker thread; the threads share the *)
(* admission counters, the health tracker and the quota cooldowns.         *)
(*                                                                         *)
(* A request walks through the values of pc:                               *)
(*   arrive -> agent -> route -> loop -> begin -> send -> errbody | body   *)
(*   -> render -> stream -> result -> wait -> loop ... -> settle -> done   *)
(***************************************************************************)
EXTENDS HealthTracker, Sequences, FiniteSets

CONSTANTS Requests,       \* requests that reach chat_scoped
          Agents,         \* Agent identities
          AgentOf,        \* the Agent of a request
          Upstreams,      \* configured upstreams (accounts)
          UpstreamOf,     \* the upstream of a target
          Place,          \* a target's place in the operator's order of the pool
          GlobalLimit, AgentLimit, ProviderLimit,  \* admission::Limits
          MaxAttempts,    \* gateway.rs MAX_ATTEMPTS
          Payloads,       \* the <<kind, streaming>> pairs callers send
          Causes          \* the causes of cancellation that occur

ASSUME MachineAssumption ==
    /\ IsFiniteSet(Requests)
    /\ AgentOf \in [Requests -> Agents]
    /\ UpstreamOf \in [Targets -> Upstreams]
    /\ IsFiniteSet(Targets) /\ Targets # {}
    /\ Place \in [Targets -> Nat]
    /\ GlobalLimit \in Nat /\ AgentLimit \in Nat /\ ProviderLimit \in Nat
    /\ MaxAttempts \in Nat \ {0}
    /\ Payloads \subseteq {"canonical", "native"} \X BOOLEAN
    /\ Causes \subseteq {"client", "drain", "deadline"}

None == "none"

VARIABLES
    pc,          \* where the worker of a request is
    global,      \* Admission.global
    agents,      \* Admission.agents
    providers,   \* Admission.providers
    cooled,      \* accounts the quota tracker reports exhausted after a 429 or 402
    kind,        \* payload: Canonical, or a verbatim native body
    streaming,   \* whether the caller asked for a stream
    order,       \* the decision's targets not tried yet
    cur,         \* the target of the attempt under way, or of the last one
    attempts,    \* AttemptBudget.attempts
    lastErr,     \* dispatch's last_error
    parked,      \* the native payload's last_upstream_error slot is filled
    output,      \* output_started of the attempt under way
    res,         \* what the attempt, then dispatch, returned
    own,         \* the request token's own cancel reason
    elapsed,     \* the request deadline has passed
    draining,    \* the server's root token is cancelled
    begins,      \* Reply::Begin* handed to emit
    early,       \* a Reply::Chunk was handed to emit before any Begin*
    obs,         \* health observations made of the attempt in cur
    blame,       \* who caused the attempt's error: the provider or a cancellation
    final        \* the outcome written on the RequestRecord

admission == <<global, agents, providers>>
health == <<fails, ejected>>
request == <<kind, streaming, order, cur, attempts, lastErr, parked>>
cancels == <<own, elapsed, draining>>
attempt == <<output, res, blame>>
vars == <<pc, admission, health, cooled, request, attempt, cancels,
          begins, early, obs, final>>

-----------------------------------------------------------------------------
(* Error codes and results.                                                *)

\* ErrorCode::is_retriable_elsewhere, on the codes the model tells apart.
RetriableElsewhere(code) ==
    code \in {"unwell", "rate", "capacity", "lifecycle", "timeout_final"}

\* is_image_channel_refusal: the channel, not the request, cannot do images.
WorthAnother(code) == RetriableElsewhere(code) \/ code = "image"

\* Mutant of FallbackAllowed: output already out is forgotten.
FallbackAllowedAfterOutput(r) ==
    WorthAnother(res[r]) /\ res[r] # "timeout_final"

\* attempt_fallback_allowed: retriable, and not marked by
\* forbid_attempt_fallback (the South stream deadline, or output already out).
FallbackAllowed(r) ==
    /\ WorthAnother(res[r])
    /\ res[r] # "timeout_final"
    /\ ~output[r]

Outcomes == {"complete", "cancelled", "partial", "failed_before"}
Errors == {"unwell", "rate", "payment", "refused", "image", "timeout_final",
           "lifecycle", "capacity", "internal"}

-----------------------------------------------------------------------------
(* Cancellation (cancel.rs, request_context.rs).                           *)

\* RequestContext::cancel_reason: the request's own reason, else the parent's
\* drain, else a deadline derived from the clock.
CancelReason(r) ==
    IF own[r] # None THEN own[r]
    ELSE IF draining THEN "drain"
    ELSE IF elapsed[r] THEN "deadline" ELSE None

Cancelled(r) == CancelReason(r) # None

\* lifecycle_cancellation answers for a drain and a deadline only.
Lifecycle(r) == CancelReason(r) \in {"drain", "deadline"}

\* CancelOnDrop: the client went away. compare_exchange keeps the first reason.
Disconnect(r) ==
    /\ "client" \in Causes
    /\ pc[r] # "done"
    /\ own[r] = None
    /\ own' = [own EXCEPT ![r] = "client"]
    /\ UNCHANGED <<pc, admission, health, cooled, request, attempt, elapsed,
                   draining, begins, early, obs, final>>

\* ServerControl::cancel_in_flight.
Drain ==
    /\ "drain" \in Causes
    /\ ~draining
    /\ draining' = TRUE
    /\ UNCHANGED <<pc, admission, health, cooled, request, attempt, own,
                   elapsed, begins, early, obs, final>>

\* The request's absolute deadline passes.
DeadlinePasses(r) ==
    /\ "deadline" \in Causes
    /\ pc[r] # "done"
    /\ ~elapsed[r]
    /\ elapsed' = [elapsed EXCEPT ![r] = TRUE]
    /\ UNCHANGED <<pc, admission, health, cooled, request, attempt, own,
                   draining, begins, early, obs, final>>

\* send_reply refuses a reply that is not an error document once the request
\* is cancelled; meeting the deadline there writes it into the token.
SendRefused(r) == Cancelled(r)

NoteSendRefused(r) ==
    own' = IF CancelReason(r) = "deadline" THEN [own EXCEPT ![r] = "deadline"]
                                           ELSE own

-----------------------------------------------------------------------------
(* Admission (chat_scoped_inner) and routing (chat_inner).                 *)

\* What a worker's locals and its token are worth before and after its run.
NoTarget == CHOOSE t \in Targets : TRUE

DropToken(r) ==
    /\ own' = [own EXCEPT ![r] = None]
    /\ elapsed' = [elapsed EXCEPT ![r] = FALSE]

DropLocals(r) ==
    /\ kind' = [kind EXCEPT ![r] = "canonical"]
    /\ streaming' = [streaming EXCEPT ![r] = FALSE]
    /\ order' = [order EXCEPT ![r] = <<>>]
    /\ cur' = [cur EXCEPT ![r] = NoTarget]
    /\ attempts' = [attempts EXCEPT ![r] = 0]
    /\ lastErr' = [lastErr EXCEPT ![r] = None]
    /\ parked' = [parked EXCEPT ![r] = FALSE]

DropResult(r) ==
    /\ output' = [output EXCEPT ![r] = FALSE]
    /\ res' = [res EXCEPT ![r] = None]
    /\ blame' = [blame EXCEPT ![r] = None]

Goto(r, l) == pc' = [pc EXCEPT ![r] = l]

Emit(r) == begins' = [begins EXCEPT ![r] = @ + 1]

\* enter_global.
EnterGlobal(r) ==
    /\ pc[r] = "arrive"
    /\ global < GlobalLimit
    /\ global' = global + 1
    /\ Goto(r, "agent")
    /\ UNCHANGED <<agents, providers, health, cooled, request, attempt,
                   cancels, begins, early, obs, final>>

\* refuse_concurrency at the global ceiling: a 429, recorded.
RefuseGlobal(r) ==
    /\ pc[r] = "arrive"
    /\ global >= GlobalLimit
    /\ Emit(r)
    /\ final' = [final EXCEPT ![r] = "limited"]
    /\ DropToken(r)
    /\ Goto(r, "done")
    /\ UNCHANGED <<admission, health, cooled, request, attempt, draining,
                   early, obs>>

\* enter_agent, with the global permit in hand.
EnterAgent(r) ==
    /\ pc[r] = "agent"
    /\ agents[AgentOf[r]] < AgentLimit
    /\ agents' = [agents EXCEPT ![AgentOf[r]] = @ + 1]
    /\ Goto(r, "route")
    /\ UNCHANGED <<global, providers, health, cooled, request, attempt,
                   cancels, begins, early, obs, final>>

\* Mutant of RefuseAgent: the global permit is leaked.
RefuseAgentLeaks(r) ==
    /\ pc[r] = "agent"
    /\ agents[AgentOf[r]] >= AgentLimit
    /\ Emit(r)
    /\ final' = [final EXCEPT ![r] = "limited"]
    /\ DropToken(r)
    /\ Goto(r, "done")
    /\ UNCHANGED <<admission, health, cooled, request, attempt, draining,
                   early, obs>>

\* refuse_concurrency at the Agent ceiling; the return drops the global permit.
RefuseAgent(r) ==
    /\ pc[r] = "agent"
    /\ agents[AgentOf[r]] >= AgentLimit
    /\ global' = global - 1
    /\ Emit(r)
    /\ final' = [final EXCEPT ![r] = "limited"]
    /\ DropToken(r)
    /\ Goto(r, "done")
    /\ UNCHANGED <<agents, providers, health, cooled, request, attempt,
                   draining, early, obs>>

\* dispatch (or anything before it) returned an error.
ReturnErr(r, code) ==
    /\ res' = [res EXCEPT ![r] = code]
    /\ Goto(r, "settle")

\* No adapter claims the request, it does not normalize, or no route exists.
Reject(r) ==
    /\ pc[r] = "route"
    /\ ReturnErr(r, "refused")
    /\ UNCHANGED <<admission, health, cooled, request, output, blame, cancels,
                   begins, early, obs, final>>

Orders(S) ==
    {s \in [1..Cardinality(S) -> S] :
        \A i, j \in 1..Cardinality(S) : i # j => s[i] # s[j]}

\* usable_targets: the capable candidates in rotation; when rotation would be
\* empty, the ejected ones themselves.
Usable(capable) ==
    LET rotation == {t \in capable : HealthOf(t) # "unavailable"}
    IN  IF rotation = {} THEN capable ELSE rotation

\* Its sort: by health, and in the operator's order inside a class; before that
\* order rank_image_targets puts, for a request with images, the targets known
\* to see. "sees" is empty for any other request.
Sorted(S, sees) ==
    LET above(t, u) == (t \in sees) = (u \in sees) /\ Place[t] < Place[u]
        before(t, u) == \/ HealthOf(t) = "healthy" /\ HealthOf(u) # "healthy"
                        \/ /\ HealthOf(t) = HealthOf(u)
                           /\ (t \in sees /\ u \notin sees) \/ above(t, u)
    IN  {s \in Orders(S) :
            \A i, j \in 1..Cardinality(S) : i < j => before(s[i], s[j])}

\* rank of the selected pool, and extend_with_backups behind it.
TieredOrders(capable, backup, sees) ==
    {p[1] \o p[2] : p \in Sorted(Usable(capable), sees)
                           \X Sorted(Usable(backup) \ Usable(capable), sees)}

\* route_quota_first: capable accounts that are neither ejected nor exhausted,
\* in an order that depends on measured quota, which is not modelled here.
QuotaOrders(capable) ==
    Orders({t \in capable : HealthOf(t) # "unavailable" /\ UpstreamOf[t] \notin cooled})

\* candidates + route_with_mode: the health and quota snapshot is taken here
\* and may be stale by the time a target is tried. Which targets are capable,
\* in which pool, and known to see, is the request's, the configuration's and
\* the image observations', any of which is possible here.
Route(r) ==
    /\ pc[r] = "route"
    /\ \E capable \in (SUBSET Targets) \ {{}}, backup, sees \in SUBSET Targets :
         \E o \in TieredOrders(capable, backup, sees) \union QuotaOrders(capable) :
            /\ o # <<>>
            /\ order' = [order EXCEPT ![r] = o]
    /\ \E p \in Payloads :
         /\ kind' = [kind EXCEPT ![r] = p[1]]
         /\ streaming' = [streaming EXCEPT ![r] = p[2]]
    /\ Goto(r, "loop")
    /\ UNCHANGED <<admission, health, cooled, cur, attempts, lastErr, parked,
                   attempt, cancels, begins, early, obs, final>>

-----------------------------------------------------------------------------
(* The failover loop (Gateway::dispatch).                                  *)

\* The error dispatch ends with when no attempt returned one of its own.
LastError(r) == IF lastErr[r] = None THEN "internal" ELSE lastErr[r]

\* The targets ran out.
LoopExhausted(r) ==
    /\ pc[r] = "loop"
    /\ order[r] = <<>>
    /\ ReturnErr(r, LastError(r))
    /\ UNCHANGED <<admission, health, cooled, request, output, blame, cancels,
                   begins, early, obs, final>>

\* Mutant of LoopCancelled: the 499 goes out for every cancellation, and a
\* drain or deadline is rendered as an error as well.
LoopCancelledAnswersAll(r) ==
    /\ pc[r] = "loop"
    /\ order[r] # <<>>
    /\ Cancelled(r)
    /\ ReturnErr(r, IF Lifecycle(r) THEN "lifecycle" ELSE "cancelled")
    /\ Emit(r)
    /\ UNCHANGED <<admission, health, cooled, request, output, blame, cancels,
                   early, obs, final>>

\* cancel_before_attempt: a drain or deadline is an error to render, a client
\* that left gets a 499 document and the outcome ClientCancelled.
LoopCancelled(r) ==
    /\ pc[r] = "loop"
    /\ order[r] # <<>>
    /\ Cancelled(r)
    /\ IF Lifecycle(r)
       THEN ReturnErr(r, "lifecycle") /\ UNCHANGED begins
       ELSE ReturnErr(r, "cancelled") /\ Emit(r)
    /\ UNCHANGED <<admission, health, cooled, request, output, blame, cancels,
                   early, obs, final>>

LoopNext(r) ==
    /\ pc[r] = "loop"
    /\ order[r] # <<>>
    /\ ~Cancelled(r)
    /\ Goto(r, "begin")
    /\ UNCHANGED <<admission, health, cooled, request, attempt, cancels,
                   begins, early, obs, final>>

\* enter_provider refused: the target is skipped and no attempt is consumed.
ProviderFull(r) ==
    /\ pc[r] = "begin"
    /\ providers[UpstreamOf[Head(order[r])]] >= ProviderLimit
    /\ lastErr' = [lastErr EXCEPT ![r] = "capacity"]
    /\ order' = [order EXCEPT ![r] = Tail(@)]
    /\ Goto(r, "loop")
    /\ UNCHANGED <<admission, health, cooled, kind, streaming, cur, attempts,
                   parked, attempt, cancels, begins, early, obs, final>>

\* Mutant of BudgetSpent: the last attempt of the budget is never made.
BudgetSpentEarly(r) ==
    /\ pc[r] = "begin"
    /\ providers[UpstreamOf[Head(order[r])]] < ProviderLimit
    /\ attempts[r] + 1 >= MaxAttempts \/ elapsed[r]
    /\ ReturnErr(r, LastError(r))
    /\ UNCHANGED <<admission, health, cooled, request, output, blame, cancels,
                   begins, early, obs, final>>

\* AttemptBudget::try_begin says no: the loop breaks, the permit it had just
\* taken is dropped.
BudgetSpent(r) ==
    /\ pc[r] = "begin"
    /\ providers[UpstreamOf[Head(order[r])]] < ProviderLimit
    /\ attempts[r] >= MaxAttempts \/ elapsed[r]
    /\ ReturnErr(r, LastError(r))
    /\ UNCHANGED <<admission, health, cooled, request, output, blame, cancels,
                   begins, early, obs, final>>

\* Mutant of BeginAttempt: the budget's count is not looked at.
BeginAttemptUnbudgeted(r) ==
    LET t == Head(order[r]) IN
    /\ pc[r] = "begin"
    /\ providers[UpstreamOf[t]] < ProviderLimit
    /\ providers' = [providers EXCEPT ![UpstreamOf[t]] = @ + 1]
    /\ order' = [order EXCEPT ![r] = Tail(@)]
    /\ cur' = [cur EXCEPT ![r] = t]
    /\ attempts' = [attempts EXCEPT ![r] = @ + 1]
    /\ parked' = [parked EXCEPT ![r] = FALSE]
    /\ output' = [output EXCEPT ![r] = FALSE]
    /\ obs' = [obs EXCEPT ![r] = 0]
    /\ Goto(r, "send")
    /\ UNCHANGED <<global, agents, health, cooled, kind, streaming, lastErr,
                   res, blame, cancels, begins, early, final>>

\* The provider permit is taken and an attempt begins; a native attempt empties
\* the parked slot first of all. The budget's clock starts after the request's,
\* so it may still allow an attempt just after the request's deadline.
BeginAttempt(r) ==
    LET t == Head(order[r]) IN
    /\ pc[r] = "begin"
    /\ providers[UpstreamOf[t]] < ProviderLimit
    /\ attempts[r] < MaxAttempts
    /\ providers' = [providers EXCEPT ![UpstreamOf[t]] = @ + 1]
    /\ order' = [order EXCEPT ![r] = Tail(@)]
    /\ cur' = [cur EXCEPT ![r] = t]
    /\ attempts' = [attempts EXCEPT ![r] = @ + 1]
    /\ parked' = [parked EXCEPT ![r] = FALSE]
    /\ output' = [output EXCEPT ![r] = FALSE]
    /\ obs' = [obs EXCEPT ![r] = 0]
    /\ Goto(r, "send")
    /\ UNCHANGED <<global, agents, health, cooled, kind, streaming, lastErr,
                   res, blame, cancels, begins, early, final>>

-----------------------------------------------------------------------------
(* One attempt (try_upstream): how it ends, and what it handed to emit.    *)

\* The attempt ends with result x, caused by w, after emitting a Begin* or not.
EndAttempt(r, x, w, begin) ==
    /\ res' = [res EXCEPT ![r] = x]
    /\ blame' = [blame EXCEPT ![r] = w]
    /\ begins' = [begins EXCEPT ![r] = @ + (IF begin THEN 1 ELSE 0)]
    /\ output' = [output EXCEPT ![r] = @ \/ begin]
    /\ Goto(r, "result")

\* A cancellation noticed before anything was committed: emit_cancelled for a
\* client that left, an error for dispatch otherwise.
EndCancelled(r) ==
    IF Lifecycle(r) THEN EndAttempt(r, "lifecycle", "cancel", FALSE)
                    ELSE EndAttempt(r, "cancelled", None, TRUE)

attemptFrame == <<admission, health, cooled, request, obs, final>>

\* send_provider_call fails, or the first hop redirects.
SendFails(r) ==
    /\ pc[r] = "send"
    /\ IF Cancelled(r)
       THEN EndCancelled(r)
       ELSE \E code \in {"unwell", "refused"} :
              EndAttempt(r, code, "provider", FALSE)
    /\ UNCHANGED <<attemptFrame, cancels, early>>

\* A response head arrives: an error status, or a success.
SendAnswers(r) ==
    /\ pc[r] = "send"
    /\ \E l \in {"errbody", "body"} : Goto(r, l)
    /\ UNCHANGED <<attemptFrame, attempt, cancels, begins, early>>

\* classify_provider_error: response_parts looks at the cancellation both when
\* the read fails and after it succeeded.
CanonicalErrorBody(r) ==
    /\ pc[r] = "errbody" /\ kind[r] = "canonical"
    /\ IF Cancelled(r)
       THEN EndCancelled(r)
       ELSE \E code \in {"unwell", "rate", "payment", "refused", "image"} :
              EndAttempt(r, code, "provider", FALSE)
    /\ UNCHANGED <<attemptFrame, cancels, early>>

\* A native error body is read without looking at the cancellation: the read
\* the cancellation aborts is a TransportTruncated like any other.
NativeReadFails(r) ==
    /\ pc[r] \in {"errbody", "body"} /\ kind[r] = "native"
    /\ pc[r] = "body" => ~streaming[r]
    /\ EndAttempt(r, "unwell", IF Cancelled(r) THEN "cancel" ELSE "provider", FALSE)
    /\ UNCHANGED <<attemptFrame, cancels, early>>

\* native_attempt on a 5xx or 429: the body is parked for the caller.
NativeParks(r) ==
    /\ pc[r] = "errbody" /\ kind[r] = "native"
    /\ \E code \in {"unwell", "rate"} : EndAttempt(r, code, "provider", FALSE)
    /\ parked' = [parked EXCEPT ![r] = TRUE]
    /\ UNCHANGED <<admission, health, cooled, kind, streaming, order, cur,
                   attempts, lastErr, obs, final, cancels, early>>

\* native_attempt when a request with images was refused for having them.
NativeRefusesImage(r) ==
    /\ pc[r] = "errbody" /\ kind[r] = "native"
    /\ EndAttempt(r, "image", "provider", FALSE)
    /\ UNCHANGED <<attemptFrame, cancels, early>>

\* native_attempt on any other 4xx (402 included): relayed at once.
NativeRelays4xx(r) ==
    /\ pc[r] = "errbody" /\ kind[r] = "native"
    /\ EndAttempt(r, "failed_before", "provider", TRUE)
    /\ UNCHANGED <<attemptFrame, cancels, early>>

\* A cancellation noticed while a success body is still uncommitted: at the top
\* of the relay loops, and in response_parts.
BodyCancelled(r) ==
    /\ pc[r] = "body"
    /\ kind[r] = "canonical" \/ streaming[r]
    /\ Cancelled(r)
    /\ EndCancelled(r)
    /\ UNCHANGED <<attemptFrame, cancels, early>>

\* The body breaks, does not parse, carries an error event or ends too soon
\* before anything was committed; the South stream deadline forbids fallback.
BodyFails(r) ==
    /\ pc[r] = "body"
    /\ kind[r] = "canonical" \/ streaming[r]
    /\ ~Cancelled(r)
    /\ \E code \in {"unwell", "refused"}
                   \union (IF kind[r] = "canonical" /\ streaming[r]
                           THEN {"rate", "image", "timeout_final"} ELSE {}) :
         EndAttempt(r, code, "provider", FALSE)
    /\ UNCHANGED <<attemptFrame, cancels, early>>

\* The body (or its first event) is ready to be handed to emit.
BodyReady(r) ==
    /\ pc[r] = "body"
    /\ (kind[r] = "canonical" \/ streaming[r]) => ~Cancelled(r)
    /\ Goto(r, "render")
    /\ UNCHANGED <<attemptFrame, attempt, cancels, begins, early>>

\* relay_raw_sse_frames at end of file with half a character pending: the tail
\* goes out as a Chunk although no BeginStream was sent.
NativeTail(r) ==
    /\ pc[r] = "body" /\ kind[r] = "native" /\ streaming[r]
    /\ early' = [early EXCEPT ![r] = TRUE]
    /\ output' = [output EXCEPT ![r] = TRUE]
    /\ IF SendRefused(r)
       THEN /\ res' = [res EXCEPT ![r] = "cancelled"]
            /\ blame' = [blame EXCEPT ![r] = None]
            /\ NoteSendRefused(r)
       ELSE /\ res' = [res EXCEPT ![r] = "unwell"]
            /\ blame' = [blame EXCEPT ![r] = "provider"]
            /\ UNCHANGED own
    /\ Goto(r, "result")
    /\ UNCHANGED <<attemptFrame, elapsed, draining, begins>>

\* emit(BeginJson) of a whole reply. The native path ignores a refusal.
SendJson(r) ==
    /\ pc[r] = "render" /\ ~streaming[r]
    /\ IF SendRefused(r) /\ kind[r] = "canonical"
       THEN EndAttempt(r, "cancelled", None, TRUE)
       ELSE EndAttempt(r, "complete", None, TRUE)
    /\ IF SendRefused(r) THEN NoteSendRefused(r) ELSE UNCHANGED own
    /\ UNCHANGED <<attemptFrame, elapsed, draining, early>>

\* emit(BeginStream) and the first Chunk.
SendBeginStream(r) ==
    /\ pc[r] = "render" /\ streaming[r]
    /\ IF SendRefused(r)
       THEN EndAttempt(r, "cancelled", None, TRUE) /\ NoteSendRefused(r)
       ELSE /\ Emit(r)
            /\ output' = [output EXCEPT ![r] = TRUE]
            /\ Goto(r, "stream")
            /\ UNCHANGED <<res, blame, own>>
    /\ UNCHANGED <<attemptFrame, elapsed, draining, early>>

\* The terminal event was relayed.
StreamCompletes(r) ==
    /\ pc[r] = "stream" /\ ~SendRefused(r)
    /\ EndAttempt(r, "complete", None, FALSE)
    /\ UNCHANGED <<attemptFrame, cancels, early>>

\* The stream breaks after output: terminate_stream appends an error chunk.
StreamBreaks(r) ==
    /\ pc[r] = "stream" /\ ~SendRefused(r)
    /\ EndAttempt(r, "partial", "provider", FALSE)
    /\ UNCHANGED <<attemptFrame, cancels, early>>

\* A chunk (an error chunk for a drain or deadline included) is refused because
\* the request is cancelled: both relays report ClientCancelled.
StreamRefused(r) ==
    /\ pc[r] = "stream" /\ SendRefused(r)
    /\ EndAttempt(r, "cancelled", None, FALSE)
    /\ NoteSendRefused(r)
    /\ UNCHANGED <<attemptFrame, elapsed, draining, early>>

\* raw_stream_cancellation of a committed native stream: nothing is emitted.
NativeStreamStops(r) ==
    /\ pc[r] = "stream" /\ kind[r] = "native" /\ Lifecycle(r)
    /\ EndAttempt(r, "partial", "cancel", FALSE)
    /\ UNCHANGED <<attemptFrame, cancels, early>>

-----------------------------------------------------------------------------
(* Back in dispatch with the attempt's result.                             *)

DropProvider(r) ==
    providers' = [providers EXCEPT ![UpstreamOf[cur[r]]] = @ - 1]

\* Ok: who served and how it ended; settle decides the rest.
AttemptOk(r) ==
    /\ pc[r] = "result" /\ res[r] \in Outcomes
    /\ DropProvider(r)
    /\ Goto(r, "settle")
    /\ UNCHANGED <<global, agents, health, cooled, request, attempt, cancels,
                   begins, early, obs, final>>

\* Err while a drain or deadline is pending: returned before any observation.
AttemptInterrupted(r) ==
    /\ pc[r] = "result" /\ res[r] \in Errors
    /\ Lifecycle(r)
    /\ DropProvider(r)
    /\ ReturnErr(r, "lifecycle")
    /\ UNCHANGED <<global, agents, health, cooled, request, output, blame,
                   cancels, begins, early, obs, final>>

\* observe(Err): one health observation, and a 429 or 402 cools the account.
Observe(r, code) ==
    /\ ObserveFailure(cur[r], code)
    /\ cooled' = IF code \in {"rate", "payment"}
                 THEN cooled \union {UpstreamOf[cur[r]]} ELSE cooled
    /\ obs' = [obs EXCEPT ![r] = @ + 1]

\* Err that ends the loop.
AttemptFatal(r) ==
    /\ pc[r] = "result" /\ res[r] \in Errors
    /\ ~Lifecycle(r)
    /\ ~FallbackAllowed(r)
    /\ Observe(r, res[r])
    /\ lastErr' = [lastErr EXCEPT ![r] = res[r]]
    /\ DropProvider(r)
    /\ Goto(r, "settle")
    /\ UNCHANGED <<global, agents, kind, streaming, order, cur, attempts,
                   parked, attempt, cancels, begins, early, final>>

\* Mutant of AttemptRetriable: the permit is also dropped before the wait.
AttemptRetriableDropsTwice(r) ==
    /\ pc[r] = "result" /\ res[r] \in Errors
    /\ ~Lifecycle(r)
    /\ FallbackAllowed(r)
    /\ Observe(r, res[r])
    /\ lastErr' = [lastErr EXCEPT ![r] = res[r]]
    /\ DropProvider(r)
    /\ Goto(r, IF order[r] # <<>> THEN "wait" ELSE "loop")
    /\ DropResult(r)
    /\ UNCHANGED <<global, agents, kind, streaming, order, cur, attempts,
                   parked, cancels, begins, early, final>>

\* Err that moves on: the quota lease is dropped now, the provider permit only
\* when the iteration ends, after any Retry-After has been waited out.
AttemptRetriable(r) ==
    /\ pc[r] = "result" /\ res[r] \in Errors
    /\ ~Lifecycle(r)
    /\ FallbackAllowed(r)
    /\ Observe(r, res[r])
    /\ lastErr' = [lastErr EXCEPT ![r] = res[r]]
    /\ \E retryAfter \in BOOLEAN :
         IF /\ retryAfter /\ order[r] # <<>>
            /\ attempts[r] < MaxAttempts /\ ~Cancelled(r)
         THEN Goto(r, "wait") /\ UNCHANGED providers
         ELSE Goto(r, "loop") /\ DropProvider(r)
    /\ DropResult(r)
    /\ UNCHANGED <<global, agents, kind, streaming, order, cur, attempts,
                   parked, cancels, begins, early, final>>

\* Mutant of WaitEnds: the wait has no deadline of its own.
WaitEndsOnCancelOnly(r) ==
    /\ pc[r] = "wait" /\ Cancelled(r)
    /\ DropProvider(r)
    /\ Goto(r, "loop")
    /\ UNCHANGED <<global, agents, health, cooled, request, attempt, cancels,
                   begins, early, obs, final>>

\* wait_retry_delay ends, by the clock or by a cancellation.
WaitEnds(r) ==
    /\ pc[r] = "wait"
    /\ DropProvider(r)
    /\ Goto(r, "loop")
    /\ UNCHANGED <<global, agents, health, cooled, request, attempt, cancels,
                   begins, early, obs, final>>

-----------------------------------------------------------------------------
(* The terminal settlement; the global and Agent permits drop with it.     *)

Finish(r, outcome) ==
    /\ final' = [final EXCEPT ![r] = outcome]
    /\ global' = global - 1
    /\ agents' = [agents EXCEPT ![AgentOf[r]] = @ - 1]
    /\ DropLocals(r)
    /\ DropResult(r)
    /\ DropToken(r)
    /\ Goto(r, "done")

\* settle(Complete): the one success observation.
SettleComplete(r) ==
    /\ pc[r] = "settle" /\ res[r] = "complete"
    /\ ObserveSuccess(cur[r])
    /\ obs' = [obs EXCEPT ![r] = @ + 1]
    /\ Finish(r, "ok")
    /\ UNCHANGED <<providers, cooled, draining, begins, early>>

\* settle(FailedBeforeOutput) of a 4xx relayed at once: observed here, with a
\* code that neither counts nor cools.
SettleFailedBefore(r) ==
    /\ pc[r] = "settle" /\ res[r] = "failed_before"
    /\ Observe(r, "refused")
    /\ Finish(r, "upstream_error")
    /\ UNCHANGED <<providers, draining, begins, early>>

\* settle(FailedAfterPartial) and settle(ClientCancelled): no health verdict.
SettleUncharged(r) ==
    /\ pc[r] = "settle" /\ res[r] \in {"partial", "cancelled"}
    /\ Finish(r, IF res[r] = "partial" THEN "truncated" ELSE "cancelled")
    /\ UNCHANGED <<providers, health, cooled, draining, begins, early, obs>>

\* Mutant of SettleParked: the relayed error is observed a second time.
SettleParkedObserves(r) ==
    /\ pc[r] = "settle" /\ res[r] \in Errors \ {"image"}
    /\ parked[r]
    /\ Emit(r)
    /\ Observe(r, res[r])
    /\ Finish(r, "upstream_error")
    /\ UNCHANGED <<providers, draining, early>>

\* dispatch failed, not on an image refusal, with a native error parked: the
\* upstream's own body is relayed as FailedBeforeOutput and settle sees an
\* attempt dispatch observed.
SettleParked(r) ==
    /\ pc[r] = "settle" /\ res[r] \in Errors \ {"image"}
    /\ parked[r]
    /\ Emit(r)
    /\ Finish(r, "upstream_error")
    /\ UNCHANGED <<providers, health, cooled, draining, early, obs>>

\* Any other error is rendered whole by chat_scoped; no health verdict.
SettleError(r) ==
    /\ pc[r] = "settle" /\ res[r] \in Errors
    /\ ~parked[r] \/ res[r] = "image"
    /\ Emit(r)
    /\ Finish(r, IF res[r] = "lifecycle" THEN "interrupted" ELSE "error")
    /\ UNCHANGED <<providers, health, cooled, draining, early, obs>>

-----------------------------------------------------------------------------
PCs == {"arrive", "agent", "route", "loop", "begin", "send", "errbody", "body",
        "render", "stream", "result", "wait", "settle", "done"}

Init ==
    /\ pc = [r \in Requests |-> "arrive"]
    /\ global = 0
    /\ agents = [a \in Agents |-> 0]
    /\ providers = [u \in Upstreams |-> 0]
    /\ HealthInit
    /\ cooled = {}
    /\ kind = [r \in Requests |-> "canonical"]
    /\ streaming = [r \in Requests |-> FALSE]
    /\ order = [r \in Requests |-> <<>>]
    /\ cur = [r \in Requests |-> NoTarget]
    /\ attempts = [r \in Requests |-> 0]
    /\ lastErr = [r \in Requests |-> None]
    /\ parked = [r \in Requests |-> FALSE]
    /\ output = [r \in Requests |-> FALSE]
    /\ res = [r \in Requests |-> None]
    /\ blame = [r \in Requests |-> None]
    /\ own = [r \in Requests |-> None]
    /\ elapsed = [r \in Requests |-> FALSE]
    /\ draining = FALSE
    /\ begins = [r \in Requests |-> 0]
    /\ early = [r \in Requests |-> FALSE]
    /\ obs = [r \in Requests |-> 0]
    /\ final = [r \in Requests |-> None]

\* The worker thread of one request.
Work(r) ==
    \/ EnterGlobal(r) \/ RefuseGlobal(r) \/ EnterAgent(r) \/ RefuseAgent(r)
    \/ Reject(r) \/ Route(r)
    \/ LoopExhausted(r) \/ LoopCancelled(r) \/ LoopNext(r)
    \/ ProviderFull(r) \/ BudgetSpent(r) \/ BeginAttempt(r)
    \/ SendFails(r) \/ SendAnswers(r)
    \/ CanonicalErrorBody(r) \/ NativeReadFails(r)
    \/ NativeParks(r) \/ NativeRefusesImage(r) \/ NativeRelays4xx(r)
    \/ BodyCancelled(r) \/ BodyFails(r) \/ BodyReady(r) \/ NativeTail(r)
    \/ SendJson(r) \/ SendBeginStream(r)
    \/ StreamCompletes(r) \/ StreamBreaks(r) \/ StreamRefused(r)
    \/ NativeStreamStops(r)
    \/ AttemptOk(r) \/ AttemptInterrupted(r) \/ AttemptFatal(r)
    \/ AttemptRetriable(r) \/ WaitEnds(r)
    \/ SettleComplete(r) \/ SettleFailedBefore(r) \/ SettleUncharged(r)
    \/ SettleParked(r) \/ SettleError(r)

\* Ejections end and quota cooldowns expire with the clock.
HealthClock(t) ==
    /\ CooldownElapses(t)
    /\ UNCHANGED <<pc, admission, cooled, request, attempt, cancels, begins,
                   early, obs, final>>

QuotaClock(u) ==
    /\ u \in cooled
    /\ cooled' = cooled \ {u}
    /\ UNCHANGED <<pc, admission, health, request, attempt, cancels, begins,
                   early, obs, final>>

Next ==
    \/ \E r \in Requests : Work(r) \/ Disconnect(r) \/ DeadlinePasses(r)
    \/ Drain
    \/ \E t \in Targets : HealthClock(t)
    \/ \E u \in Upstreams : QuotaClock(u)

\* A worker thread is scheduled, and every upstream call and wait it makes has
\* a timeout; nothing is assumed of clients, drains or the clock.
Fairness == \A r \in Requests : WF_vars(Work(r))

Spec == Init /\ [][Next]_vars /\ Fairness

-----------------------------------------------------------------------------
PermitTypes ==
    global \in Nat /\ agents \in [Agents -> Nat] /\ providers \in [Upstreams -> Nat]

VerdictTypes ==
    HealthTypeOK /\ cooled \in SUBSET Upstreams /\ obs \in [Requests -> Nat]

LocalTypes ==
    /\ kind \in [Requests -> {"canonical", "native"}]
    /\ streaming \in [Requests -> BOOLEAN]
    /\ order \in [Requests -> Seq(Targets)]
    /\ cur \in [Requests -> Targets]
    /\ attempts \in [Requests -> 0..MaxAttempts]
    /\ lastErr \in [Requests -> Errors \union {None}]
    /\ parked \in [Requests -> BOOLEAN]

ResultTypes ==
    /\ pc \in [Requests -> PCs]
    /\ output \in [Requests -> BOOLEAN]
    /\ res \in [Requests -> Errors \union Outcomes \union {None}]
    /\ blame \in [Requests -> {None, "provider", "cancel"}]
    /\ begins \in [Requests -> Nat]

TokenTypes ==
    /\ own \in [Requests -> {None, "client", "deadline"}]
    /\ elapsed \in [Requests -> BOOLEAN]
    /\ draining \in BOOLEAN

RecordTypes ==
    /\ early \in [Requests -> BOOLEAN]
    /\ final \in [Requests -> {None, "ok", "limited", "error", "interrupted",
                               "upstream_error", "truncated", "cancelled"}]

TypeOK ==
    /\ PermitTypes /\ VerdictTypes /\ LocalTypes /\ ResultTypes
    /\ TokenTypes /\ RecordTypes

(* Who holds a permit, read off the point the worker has reached.          *)
InFlightPCs == {"send", "errbody", "body", "render", "stream", "result", "wait"}
HoldsGlobal == {r \in Requests : pc[r] \notin {"arrive", "done"}}
HoldsAgent(a) ==
    {r \in Requests : AgentOf[r] = a /\ pc[r] \notin {"arrive", "agent", "done"}}
HoldsProvider(u) ==
    {r \in Requests : UpstreamOf[cur[r]] = u /\ pc[r] \in InFlightPCs}

GlobalBalanced == global = Cardinality(HoldsGlobal) /\ global <= GlobalLimit
AgentsBalanced ==
    \A a \in Agents :
        agents[a] = Cardinality(HoldsAgent(a)) /\ agents[a] <= AgentLimit
ProvidersBalanced ==
    \A u \in Upstreams :
        providers[u] = Cardinality(HoldsProvider(u)) /\ providers[u] <= ProviderLimit

\* Every permit counter equals the number of requests that hold one and never
\* passes its ceiling, on every exit path: refusals, breaks, cancellations and
\* the Retry-After wait give back exactly what was taken.
PermitsBalanced == GlobalBalanced /\ AgentsBalanced /\ ProvidersBalanced

\* chat: "emit receives exactly one Reply::Begin*". At most one on every path
\* and one by the end, except after a native stream's headless tail chunk.
OneBegin ==
    \A r \in Requests :
        /\ begins[r] <= 1
        /\ pc[r] = "done" /\ ~early[r] => begins[r] = 1

\* "Only before first byte out": once a Begin* or a chunk was handed to emit,
\* no later step of the request starts another attempt.
NoFallbackAfterOutput ==
    [][\A r \in Requests :
         attempts'[r] > attempts[r] => begins[r] = 0 /\ ~early[r]]_vars

\* settle: "Observing it here as well would count one network attempt twice".
\* One attempt is observed at most once for health, by dispatch or by settle,
\* and a success exactly once.
ObservedAtMostOnce ==
    \A r \in Requests : /\ obs[r] <= 1
                        /\ final[r] = "ok" => obs[r] = 1

\* A request is not answered with a retriable upstream failure while the
\* decision still holds a target, unless its budget is spent or output is out.
NoEarlyGiveUp ==
    [][\A r \in Requests :
         (/\ final'[r] # final[r] /\ final'[r] \in {"error", "upstream_error"}
          /\ WorthAnother(res[r])
          /\ res[r] \notin {"lifecycle", "timeout_final"})
         => \/ order[r] = <<>> \/ attempts[r] = MaxAttempts
            \/ elapsed[r] \/ early[r]]_vars

\* Every request that arrives is answered and recorded, whatever its upstreams,
\* its client and the server do.
EveryRequestSettles == \A r \in Requests : <>(pc[r] = "done")

\* settle: "A cancel is not the upstream's failure: no health penalty".
CancelNotCharged ==
    [][\A r \in Requests :
         (pc[r] = "result" /\ pc'[r] # "result" /\ blame[r] = "cancel")
         => UNCHANGED <<fails, ejected>>]_vars

\* native_attempt: "Server drain and deadline are host lifecycle failures", a
\* 499 is for a client that left.
CancelledMeansClient ==
    [][\A r \in Requests :
         (final'[r] # final[r] /\ final'[r] = "cancelled") => own[r] = "client"]_vars

=============================================================================
