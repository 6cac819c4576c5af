----------------------- MODULE AttemptMachineProofs -----------------------
(***************************************************************************)
(* Proofs about AttemptMachine, for every set of requests, targets and     *)
(* Agents and every limit: its types, the balance of the admission         *)
(* permits, one Begin* per request, no attempt after output and at most    *)
(* one health observation per attempt.                                     *)
(***************************************************************************)
EXTENDS AttemptMachine, FiniteSetTheorems, SequenceTheorems, TLAPS

-----------------------------------------------------------------------------
(* Types.                                                                  *)

\* What is left alone keeps its type.
LEMMA FrameTypes ==
    ASSUME TypeOK
    PROVE  /\ UNCHANGED admission => PermitTypes'
           /\ UNCHANGED <<health, cooled, obs>> => VerdictTypes'
           /\ UNCHANGED request => LocalTypes'
           /\ UNCHANGED cancels => TokenTypes'
           /\ UNCHANGED <<early, final>> => RecordTypes'
BY DEF TypeOK, PermitTypes, VerdictTypes, HealthTypeOK, LocalTypes, TokenTypes,
       RecordTypes, admission, health, request, cancels

\* A worker that only moves on.
LEMMA GotoTypes ==
    ASSUME TypeOK, NEW r \in Requests, NEW l \in PCs, Goto(r, l),
           UNCHANGED <<attempt, begins>>
    PROVE  ResultTypes'
BY DEF TypeOK, ResultTypes, Goto, attempt

\* A worker that moves on and answers.
LEMMA EmitTypes ==
    ASSUME TypeOK, NEW r \in Requests, NEW l \in PCs, Goto(r, l), Emit(r),
           UNCHANGED attempt
    PROVE  ResultTypes'
BY DEF TypeOK, ResultTypes, Goto, Emit, attempt

\* dispatch returns an error, or an outcome for settle, having answered or not.
LEMMA ReturnTypes ==
    ASSUME TypeOK, NEW r \in Requests, NEW x \in Errors \union Outcomes,
           ReturnErr(r, x), UNCHANGED <<output, blame>>,
           UNCHANGED begins \/ Emit(r)
    PROVE  ResultTypes'
<1>1. pc' \in [Requests -> PCs] /\ res' \in [Requests -> Errors \union Outcomes \union {None}]
  BY DEF TypeOK, ResultTypes, ReturnErr, Goto, PCs
<1>2. begins' \in [Requests -> Nat]
  BY DEF TypeOK, ResultTypes, Emit
<1> QED BY <1>1, <1>2 DEF TypeOK, ResultTypes

\* An attempt ends.
LEMMA EndAttemptTypes ==
    ASSUME TypeOK, NEW r \in Requests, NEW x \in Errors \union Outcomes,
           NEW w \in {None, "provider", "cancel"}, NEW b \in BOOLEAN,
           EndAttempt(r, x, w, b)
    PROVE  ResultTypes'
<1>1. pc' \in [Requests -> PCs] /\ res' \in [Requests -> Errors \union Outcomes \union {None}]
  BY DEF TypeOK, ResultTypes, EndAttempt, Goto, PCs
<1>2. begins' \in [Requests -> Nat]
  BY DEF TypeOK, ResultTypes, EndAttempt
<1>3. output' \in [Requests -> BOOLEAN] /\ blame' \in [Requests -> {None, "provider", "cancel"}]
  BY DEF TypeOK, ResultTypes, EndAttempt
<1> QED BY <1>1, <1>2, <1>3 DEF ResultTypes

\* An attempt that ends because the request was cancelled.
LEMMA EndCancelledTypes ==
    ASSUME TypeOK, NEW r \in Requests, EndCancelled(r)
    PROVE  ResultTypes'
<1>1. "lifecycle" \in Errors /\ "cancelled" \in Outcomes
  BY DEF Errors, Outcomes
<1>2. CASE Lifecycle(r)
  BY <1>1, <1>2, EndAttemptTypes DEF EndCancelled
<1>3. CASE ~Lifecycle(r)
  BY <1>1, <1>3, EndAttemptTypes DEF EndCancelled
<1> QED BY <1>2, <1>3

\* A refused send writes the deadline into the token, or nothing.
LEMMA NoteTypes ==
    ASSUME TypeOK, NEW r \in Requests, UNCHANGED <<elapsed, draining>>,
           NoteSendRefused(r) \/ UNCHANGED own
    PROVE  TokenTypes'
BY DEF TypeOK, TokenTypes, NoteSendRefused

\* The last error of the loop is an error.
LEMMA LastErrorType == ASSUME TypeOK, NEW r \in Requests PROVE LastError(r) \in Errors
BY DEF TypeOK, LocalTypes, LastError, Errors, None

\* One observation of the attempt under way.
LEMMA ObserveTypes ==
    ASSUME TypeOK, NEW r \in Requests, NEW x, Observe(r, x)
    PROVE  VerdictTypes'
<1>1. cur[r] \in Targets /\ UpstreamOf[cur[r]] \in Upstreams
  BY MachineAssumption DEF TypeOK, LocalTypes
<1>2. HealthTypeOK'
  BY <1>1, EjectAfterAssumption
  DEF TypeOK, VerdictTypes, HealthTypeOK, Ejections, Observe, ObserveFailure, healthVars
<1>3. cooled' \in SUBSET Upstreams
  BY <1>1 DEF TypeOK, VerdictTypes, Observe
<1>4. obs' \in [Requests -> Nat]
  BY DEF TypeOK, VerdictTypes, Observe
<1> QED BY <1>2, <1>3, <1>4 DEF VerdictTypes

\* The end of a request.
LEMMA FinishTypes ==
    ASSUME TypeOK, NEW r \in Requests, global # 0, agents[AgentOf[r]] # 0,
           NEW x \in {"ok", "error", "interrupted", "upstream_error", "truncated",
                      "cancelled"},
           Finish(r, x), UNCHANGED <<providers, draining, early>>,
           UNCHANGED begins \/ Emit(r)
    PROVE  PermitTypes' /\ LocalTypes' /\ ResultTypes' /\ TokenTypes' /\ RecordTypes'
<1>1. PermitTypes'
  <2>1. AgentOf[r] \in Agents
    BY MachineAssumption
  <2> QED BY <2>1 DEF TypeOK, PermitTypes, Finish
<1>2. LocalTypes'
  <2>1. NoTarget \in Targets
    BY MachineAssumption DEF NoTarget
  <2> QED BY <2>1, MachineAssumption DEF TypeOK, LocalTypes, Finish, DropLocals
<1>3. ResultTypes'
  <2>1. pc' \in [Requests -> PCs]
    BY DEF TypeOK, ResultTypes, Finish, Goto, PCs
  <2>2. begins' \in [Requests -> Nat]
    BY DEF TypeOK, ResultTypes, Emit
  <2>3. /\ output' \in [Requests -> BOOLEAN]
        /\ res' \in [Requests -> Errors \union Outcomes \union {None}]
        /\ blame' \in [Requests -> {None, "provider", "cancel"}]
    BY DEF TypeOK, ResultTypes, Finish, DropResult
  <2> QED BY <2>1, <2>2, <2>3 DEF ResultTypes
<1>4. TokenTypes'
  BY DEF TypeOK, TokenTypes, Finish, DropToken
<1>5. RecordTypes'
  BY DEF TypeOK, RecordTypes, Finish
<1> QED BY <1>1, <1>2, <1>3, <1>4, <1>5

\* Giving the provider permit back.
LEMMA DropProviderTypes ==
    ASSUME TypeOK, NEW r \in Requests, providers[UpstreamOf[cur[r]]] # 0,
           DropProvider(r), UNCHANGED <<global, agents>>
    PROVE  PermitTypes'
<1>1. UpstreamOf[cur[r]] \in Upstreams
  BY MachineAssumption DEF TypeOK, LocalTypes
<1> QED BY <1>1 DEF TypeOK, PermitTypes, DropProvider

\* Whatever the router decides is a sequence of targets.
LEMMA OrdersType == ASSUME NEW S \in SUBSET Targets PROVE Orders(S) \subseteq Seq(Targets)
<1>1. Cardinality(S) \in Nat
  BY MachineAssumption, FS_Subset, FS_CardinalityType
<1>2. [1..Cardinality(S) -> S] \subseteq Seq(Targets)
  <2> SUFFICES ASSUME NEW s \in [1..Cardinality(S) -> S] PROVE s \in Seq(Targets)
    OBVIOUS
  <2>1. s \in [1..Cardinality(S) -> Targets]
    OBVIOUS
  <2> QED BY <1>1, <2>1, SeqDef
<1> QED BY <1>2 DEF Orders

\* The router hands the request a decision and its payload.
LEMMA RouteTypes ==
    ASSUME TypeOK, NEW capable \in SUBSET Targets, NEW backup \in SUBSET Targets,
           NEW sees
    PROVE  TieredOrders(capable, backup, sees) \union QuotaOrders(capable) \subseteq Seq(Targets)
<1>1. QuotaOrders(capable) \subseteq Seq(Targets)
  BY OrdersType DEF QuotaOrders
<1>2. Usable(capable) \in SUBSET Targets /\ Usable(backup) \in SUBSET Targets
  BY DEF Usable
<1>3. \A S \in SUBSET Targets : Sorted(S, sees) \subseteq Seq(Targets)
  BY OrdersType DEF Sorted
<1>4. \A s, t \in Seq(Targets) : s \o t \in Seq(Targets)
  OBVIOUS
<1>5. TieredOrders(capable, backup, sees) \subseteq Seq(Targets)
  <2> SUFFICES ASSUME NEW o \in TieredOrders(capable, backup, sees) PROVE o \in Seq(Targets)
    OBVIOUS
  <2>0. PICK p \in Sorted(Usable(capable), sees)
                     \X Sorted(Usable(backup) \ Usable(capable), sees) :
             o = p[1] \o p[2]
    BY DEF TieredOrders
  <2>1. p[1] \in Seq(Targets)
    BY <1>2, <1>3
  <2>2. p[2] \in Seq(Targets)
    <3>1. Usable(backup) \ Usable(capable) \in SUBSET Targets
      BY <1>2
    <3> QED BY <1>3, <3>1
  <2> QED BY <1>4, <2>0, <2>1, <2>2
<1> QED BY <1>1, <1>5

\* Every step of a worker keeps the types. The permits it gives back exist, and
\* at "begin" there is a target: both come from the invariant below.
LEMMA WorkTypes ==
    ASSUME TypeOK, NEW r \in Requests, Work(r),
           pc[r] \notin {"arrive", "done"} => global # 0,
           pc[r] \notin {"arrive", "agent", "done"} => agents[AgentOf[r]] # 0,
           pc[r] \in InFlightPCs => providers[UpstreamOf[cur[r]]] # 0,
           pc[r] = "begin" => order[r] # <<>>
    PROVE  TypeOK'
<1> USE FrameTypes
<1>0. /\ {"unwell", "rate", "payment", "refused", "image", "timeout_final", "lifecycle",
          "capacity", "internal"} = Errors
      /\ {"complete", "cancelled", "partial", "failed_before"} = Outcomes
      /\ {"arrive", "agent", "route", "loop", "begin", "send", "errbody", "body",
          "render", "stream", "result", "wait", "settle", "done"} = PCs
  BY DEF Errors, Outcomes, PCs
<1>1. CASE EnterGlobal(r)
  <2>1. ResultTypes'
    BY <1>0, <1>1, GotoTypes DEF EnterGlobal
  <2>2. PermitTypes'
    BY <1>1 DEF EnterGlobal, TypeOK, PermitTypes
  <2> QED BY <1>1, <2>1, <2>2 DEF EnterGlobal, TypeOK
<1>2. CASE RefuseGlobal(r)
  <2>1. ResultTypes'
    BY <1>0, <1>2, EmitTypes DEF RefuseGlobal
  <2>2. TokenTypes' /\ RecordTypes'
    BY <1>2 DEF RefuseGlobal, DropToken, TypeOK, TokenTypes, RecordTypes
  <2> QED BY <1>2, <2>1, <2>2 DEF RefuseGlobal, TypeOK
<1>3. CASE EnterAgent(r)
  <2>1. ResultTypes'
    BY <1>0, <1>3, GotoTypes DEF EnterAgent
  <2>2. PermitTypes'
    <3>1. AgentOf[r] \in Agents
      BY MachineAssumption
    <3> QED BY <1>3, <3>1 DEF EnterAgent, TypeOK, PermitTypes
  <2> QED BY <1>3, <2>1, <2>2 DEF EnterAgent, TypeOK
<1>4. CASE RefuseAgent(r)
  <2>1. ResultTypes'
    BY <1>0, <1>4, EmitTypes DEF RefuseAgent
  <2>2. TokenTypes' /\ RecordTypes'
    BY <1>4 DEF RefuseAgent, DropToken, TypeOK, TokenTypes, RecordTypes
  <2>3. PermitTypes'
    BY <1>4 DEF RefuseAgent, TypeOK, PermitTypes
  <2> QED BY <1>4, <2>1, <2>2, <2>3 DEF RefuseAgent, TypeOK
<1>5. CASE Reject(r)
  <2>1. ResultTypes'
    BY <1>0, <1>5, ReturnTypes DEF Reject
  <2> QED BY <1>5, <2>1 DEF Reject, TypeOK
<1>6. CASE Route(r)
  <2>1. ResultTypes'
    BY <1>0, <1>6, GotoTypes DEF Route
  <2>2. order' \in [Requests -> Seq(Targets)]
    <3>0. PICK capable \in (SUBSET Targets) \ {{}}, backup, sees \in SUBSET Targets :
             \E o \in TieredOrders(capable, backup, sees) \union QuotaOrders(capable) :
                o # <<>> /\ order' = [order EXCEPT ![r] = o]
      BY <1>6, Zenon DEF Route
    <3>1. /\ capable \in SUBSET Targets
          /\ \E o \in TieredOrders(capable, backup, sees) \union QuotaOrders(capable) :
                order' = [order EXCEPT ![r] = o]
      BY <3>0
    <3>2. PICK o \in Seq(Targets) : order' = [order EXCEPT ![r] = o]
      BY <3>1, RouteTypes
    <3> QED BY <3>2 DEF TypeOK, LocalTypes
  <2>3. kind' \in [Requests -> {"canonical", "native"}] /\ streaming' \in [Requests -> BOOLEAN]
    <3>1. PICK p \in Payloads : /\ kind' = [kind EXCEPT ![r] = p[1]]
                                /\ streaming' = [streaming EXCEPT ![r] = p[2]]
      BY <1>6 DEF Route
    <3>2. p[1] \in {"canonical", "native"} /\ p[2] \in BOOLEAN
      BY MachineAssumption
    <3> QED BY <3>1, <3>2 DEF TypeOK, LocalTypes
  <2>4. LocalTypes'
    BY <1>6, <2>2, <2>3 DEF Route, TypeOK, LocalTypes
  <2> QED BY <1>6, <2>1, <2>4 DEF Route, TypeOK
<1>7. CASE LoopExhausted(r)
  <2>1. ResultTypes'
    BY <1>7, LastErrorType, ReturnTypes DEF LoopExhausted
  <2> QED BY <1>7, <2>1 DEF LoopExhausted, TypeOK
<1>8. CASE LoopCancelled(r)
  <2>1. ResultTypes'
    BY <1>0, <1>8, ReturnTypes DEF LoopCancelled
  <2> QED BY <1>8, <2>1 DEF LoopCancelled, TypeOK
<1>9. CASE LoopNext(r)
  <2>1. ResultTypes'
    BY <1>0, <1>9, GotoTypes DEF LoopNext
  <2> QED BY <1>9, <2>1 DEF LoopNext, TypeOK
<1>10. CASE ProviderFull(r)
  <2>1. ResultTypes'
    BY <1>0, <1>10, GotoTypes DEF ProviderFull
  <2>2. LocalTypes'
    BY <1>0, <1>10 DEF ProviderFull, TypeOK, LocalTypes
  <2> QED BY <1>10, <2>1, <2>2 DEF ProviderFull, TypeOK
<1>11. CASE BudgetSpent(r)
  <2>1. ResultTypes'
    BY <1>11, LastErrorType, ReturnTypes DEF BudgetSpent
  <2> QED BY <1>11, <2>1 DEF BudgetSpent, TypeOK
<1>12. CASE BeginAttempt(r)
  <2>1. Head(order[r]) \in Targets /\ Tail(order[r]) \in Seq(Targets)
    BY <1>12 DEF BeginAttempt, TypeOK, LocalTypes
  <2>2. UpstreamOf[Head(order[r])] \in Upstreams
    BY <2>1, MachineAssumption
  <2>3. PermitTypes'
    BY <1>12, <2>2 DEF BeginAttempt, TypeOK, PermitTypes
  <2>4. attempts' \in [Requests -> 0..MaxAttempts]
    BY <1>12, MachineAssumption DEF BeginAttempt, TypeOK, LocalTypes
  <2>5. LocalTypes'
    BY <1>12, <2>1, <2>4 DEF BeginAttempt, TypeOK, LocalTypes
  <2>6. ResultTypes'
    BY <1>0, <1>12 DEF BeginAttempt, TypeOK, ResultTypes, Goto
  <2>7. VerdictTypes'
    BY <1>12 DEF BeginAttempt, TypeOK, VerdictTypes, HealthTypeOK, health
  <2> QED BY <1>12, <2>3, <2>5, <2>6, <2>7 DEF BeginAttempt, TypeOK
<1>13. CASE SendFails(r)
  <2>1. ResultTypes'
    BY <1>0, <1>13, EndAttemptTypes, EndCancelledTypes DEF SendFails
  <2> QED BY <1>13, <2>1 DEF SendFails, attemptFrame, TypeOK
<1>14. CASE SendAnswers(r)
  <2>1. ResultTypes'
    BY <1>0, <1>14, GotoTypes DEF SendAnswers
  <2> QED BY <1>14, <2>1 DEF SendAnswers, attemptFrame, TypeOK
<1>15. CASE CanonicalErrorBody(r)
  <2>1. ResultTypes'
    BY <1>0, <1>15, EndAttemptTypes, EndCancelledTypes DEF CanonicalErrorBody
  <2> QED BY <1>15, <2>1 DEF CanonicalErrorBody, attemptFrame, TypeOK
<1>16. CASE NativeReadFails(r)
  <2>1. ResultTypes'
    BY <1>0, <1>16, EndAttemptTypes DEF NativeReadFails
  <2> QED BY <1>16, <2>1 DEF NativeReadFails, attemptFrame, TypeOK
<1>17. CASE NativeParks(r)
  <2>1. ResultTypes'
    BY <1>0, <1>17, EndAttemptTypes DEF NativeParks
  <2>2. LocalTypes'
    BY <1>17 DEF NativeParks, TypeOK, LocalTypes
  <2> QED BY <1>17, <2>1, <2>2 DEF NativeParks, TypeOK
<1>18. CASE NativeRelays4xx(r)
  <2>1. ResultTypes'
    BY <1>0, <1>18, EndAttemptTypes DEF NativeRelays4xx
  <2> QED BY <1>18, <2>1 DEF NativeRelays4xx, attemptFrame, TypeOK
<1>39. CASE NativeRefusesImage(r)
  <2>1. ResultTypes'
    BY <1>0, <1>39, EndAttemptTypes DEF NativeRefusesImage
  <2> QED BY <1>39, <2>1 DEF NativeRefusesImage, attemptFrame, TypeOK
<1>19. CASE BodyCancelled(r)
  <2>1. ResultTypes'
    BY <1>0, <1>19, EndCancelledTypes DEF BodyCancelled
  <2> QED BY <1>19, <2>1 DEF BodyCancelled, attemptFrame, TypeOK
<1>20. CASE BodyFails(r)
  <2>1. ResultTypes'
    BY <1>0, <1>20, EndAttemptTypes DEF BodyFails
  <2> QED BY <1>20, <2>1 DEF BodyFails, attemptFrame, TypeOK
<1>21. CASE BodyReady(r)
  <2>1. ResultTypes'
    BY <1>0, <1>21, GotoTypes DEF BodyReady
  <2> QED BY <1>21, <2>1 DEF BodyReady, attemptFrame, TypeOK
<1>22. CASE NativeTail(r)
  <2>1. ResultTypes'
    BY <1>0, <1>22 DEF NativeTail, TypeOK, ResultTypes, Goto
  <2>2. TokenTypes'
    BY <1>22, NoteTypes DEF NativeTail
  <2>3. RecordTypes'
    BY <1>22 DEF NativeTail, attemptFrame, TypeOK, RecordTypes
  <2> QED BY <1>22, <2>1, <2>2, <2>3 DEF NativeTail, attemptFrame, TypeOK
<1>23. CASE SendJson(r)
  <2>1. ResultTypes'
    BY <1>0, <1>23, EndAttemptTypes DEF SendJson
  <2>2. TokenTypes'
    BY <1>23, NoteTypes DEF SendJson
  <2> QED BY <1>23, <2>1, <2>2 DEF SendJson, attemptFrame, TypeOK
<1>24. CASE SendBeginStream(r)
  <2>1. ResultTypes'
    <3>1. CASE SendRefused(r)
      BY <1>0, <1>24, <3>1, EndAttemptTypes DEF SendBeginStream
    <3>2. CASE ~SendRefused(r)
      <4>1. pc' \in [Requests -> PCs] /\ begins' \in [Requests -> Nat]
        BY <1>0, <1>24, <3>2 DEF SendBeginStream, Emit, Goto, TypeOK, ResultTypes
      <4>2. output' \in [Requests -> BOOLEAN] /\ UNCHANGED <<res, blame>>
        BY <1>24, <3>2 DEF SendBeginStream, TypeOK, ResultTypes
      <4> QED BY <4>1, <4>2 DEF TypeOK, ResultTypes
    <3> QED BY <3>1, <3>2
  <2>2. TokenTypes'
    BY <1>24, NoteTypes DEF SendBeginStream
  <2> QED BY <1>24, <2>1, <2>2 DEF SendBeginStream, attemptFrame, TypeOK
<1>25. CASE StreamCompletes(r)
  <2>1. ResultTypes'
    BY <1>0, <1>25, EndAttemptTypes DEF StreamCompletes
  <2> QED BY <1>25, <2>1 DEF StreamCompletes, attemptFrame, TypeOK
<1>26. CASE StreamBreaks(r)
  <2>1. ResultTypes'
    BY <1>0, <1>26, EndAttemptTypes DEF StreamBreaks
  <2> QED BY <1>26, <2>1 DEF StreamBreaks, attemptFrame, TypeOK
<1>27. CASE StreamRefused(r)
  <2>1. ResultTypes'
    BY <1>0, <1>27, EndAttemptTypes DEF StreamRefused
  <2>2. TokenTypes'
    BY <1>27, NoteTypes DEF StreamRefused
  <2> QED BY <1>27, <2>1, <2>2 DEF StreamRefused, attemptFrame, TypeOK
<1>28. CASE NativeStreamStops(r)
  <2>1. ResultTypes'
    BY <1>0, <1>28, EndAttemptTypes DEF NativeStreamStops
  <2> QED BY <1>28, <2>1 DEF NativeStreamStops, attemptFrame, TypeOK
<1>29. CASE AttemptOk(r)
  <2>1. ResultTypes'
    BY <1>0, <1>29, GotoTypes DEF AttemptOk
  <2>2. PermitTypes'
    BY <1>29, DropProviderTypes DEF AttemptOk, InFlightPCs
  <2> QED BY <1>29, <2>1, <2>2 DEF AttemptOk, TypeOK
<1>30. CASE AttemptInterrupted(r)
  <2>1. ResultTypes'
    BY <1>0, <1>30, ReturnTypes DEF AttemptInterrupted
  <2>2. PermitTypes'
    BY <1>30, DropProviderTypes DEF AttemptInterrupted, InFlightPCs
  <2> QED BY <1>30, <2>1, <2>2 DEF AttemptInterrupted, TypeOK
<1>31. CASE AttemptFatal(r)
  <2>1. ResultTypes'
    BY <1>0, <1>31, GotoTypes DEF AttemptFatal
  <2>2. PermitTypes'
    BY <1>31, DropProviderTypes DEF AttemptFatal, InFlightPCs
  <2>3. VerdictTypes'
    BY <1>31, ObserveTypes DEF AttemptFatal
  <2>4. LocalTypes'
    BY <1>31 DEF AttemptFatal, TypeOK, LocalTypes
  <2> QED BY <1>31, <2>1, <2>2, <2>3, <2>4 DEF AttemptFatal, TypeOK
<1>32. CASE AttemptRetriable(r)
  <2>1. ResultTypes'
    BY <1>0, <1>32 DEF AttemptRetriable, DropResult, Goto, TypeOK, ResultTypes
  <2>2. PermitTypes'
    <3>1. CASE DropProvider(r)
      BY <1>32, <3>1, DropProviderTypes DEF AttemptRetriable, InFlightPCs
    <3>2. CASE UNCHANGED providers
      BY <1>32, <3>2 DEF AttemptRetriable, TypeOK, PermitTypes
    <3> QED BY <1>32, <3>1, <3>2 DEF AttemptRetriable
  <2>3. VerdictTypes'
    BY <1>32, ObserveTypes DEF AttemptRetriable
  <2>4. LocalTypes'
    BY <1>32 DEF AttemptRetriable, TypeOK, LocalTypes
  <2> QED BY <1>32, <2>1, <2>2, <2>3, <2>4 DEF AttemptRetriable, TypeOK
<1>33. CASE WaitEnds(r)
  <2>1. ResultTypes'
    BY <1>0, <1>33, GotoTypes DEF WaitEnds
  <2>2. PermitTypes'
    BY <1>33, DropProviderTypes DEF WaitEnds, InFlightPCs
  <2> QED BY <1>33, <2>1, <2>2 DEF WaitEnds, TypeOK
<1>34. CASE SettleComplete(r)
  <2>1. PermitTypes' /\ LocalTypes' /\ ResultTypes' /\ TokenTypes' /\ RecordTypes'
    BY <1>34, FinishTypes DEF SettleComplete
  <2>2. VerdictTypes'
    BY <1>34, EjectAfterAssumption
    DEF SettleComplete, ObserveSuccess, TypeOK, VerdictTypes, LocalTypes, HealthTypeOK, Ejections
  <2> QED BY <2>1, <2>2 DEF TypeOK
<1>35. CASE SettleFailedBefore(r)
  <2>1. PermitTypes' /\ LocalTypes' /\ ResultTypes' /\ TokenTypes' /\ RecordTypes'
    BY <1>35, FinishTypes DEF SettleFailedBefore
  <2>2. VerdictTypes'
    BY <1>35, ObserveTypes DEF SettleFailedBefore
  <2> QED BY <2>1, <2>2 DEF TypeOK
<1>36. CASE SettleUncharged(r)
  <2>1. PermitTypes' /\ LocalTypes' /\ ResultTypes' /\ TokenTypes' /\ RecordTypes'
    BY <1>36, FinishTypes DEF SettleUncharged
  <2> QED BY <1>36, <2>1 DEF SettleUncharged, TypeOK
<1>37. CASE SettleParked(r)
  <2>1. PermitTypes' /\ LocalTypes' /\ ResultTypes' /\ TokenTypes' /\ RecordTypes'
    BY <1>37, FinishTypes DEF SettleParked
  <2> QED BY <1>37, <2>1 DEF SettleParked, TypeOK
<1>38. CASE SettleError(r)
  <2>1. PermitTypes' /\ LocalTypes' /\ ResultTypes' /\ TokenTypes' /\ RecordTypes'
    BY <1>38, FinishTypes DEF SettleError
  <2> QED BY <1>38, <2>1 DEF SettleError, TypeOK
<1> QED
  BY <1>1, <1>2, <1>3, <1>4, <1>5, <1>6, <1>7, <1>8, <1>9, <1>10, <1>11,
     <1>12, <1>13, <1>14, <1>15, <1>16, <1>17, <1>18, <1>19, <1>20, <1>21,
     <1>22, <1>23, <1>24, <1>25, <1>26, <1>27, <1>28, <1>29, <1>30, <1>31,
     <1>32, <1>33, <1>34, <1>35, <1>36, <1>37, <1>38, <1>39 DEF Work


-----------------------------------------------------------------------------
(* Permits.                                                                *)

\* Counting with one request more and with one request less.
LEMMA CountAdd ==
    ASSUME NEW S \in SUBSET Requests, NEW r \in Requests, r \notin S
    PROVE  Cardinality(S \union {r}) = Cardinality(S) + 1 /\ Cardinality(S) \in Nat
<1>1. IsFiniteSet(S)
  BY MachineAssumption, FS_Subset
<1> QED BY <1>1, FS_AddElement, FS_CardinalityType

\* One request fewer that holds a permit.
LEMMA CountRemove ==
    ASSUME NEW S \in SUBSET Requests, NEW r \in S
    PROVE  Cardinality(S \ {r}) = Cardinality(S) - 1 /\ Cardinality(S) \in Nat \ {0}
<1>1. IsFiniteSet(S)
  BY MachineAssumption, FS_Subset
<1>2. Cardinality(S) \in Nat /\ Cardinality(S) # 0
  BY <1>1, FS_CardinalityType, FS_EmptySet
<1> QED BY <1>1, <1>2, FS_RemoveElement

\* The counters of a worker that holds permits are not 0.
LEMMA PermitsPositive ==
    ASSUME TypeOK, PermitsBalanced, NEW r \in Requests
    PROVE  /\ pc[r] \notin {"arrive", "done"} => global # 0
           /\ pc[r] \notin {"arrive", "agent", "done"} => agents[AgentOf[r]] # 0
           /\ pc[r] \in InFlightPCs => providers[UpstreamOf[cur[r]]] # 0
<1>1. ASSUME pc[r] \notin {"arrive", "done"} PROVE global # 0
  <2>1. r \in HoldsGlobal
    BY <1>1 DEF HoldsGlobal
  <2>2. HoldsGlobal \in SUBSET Requests
    BY DEF HoldsGlobal
  <2> QED BY <2>1, <2>2, CountRemove DEF PermitsBalanced, GlobalBalanced
<1>2. ASSUME pc[r] \notin {"arrive", "agent", "done"} PROVE agents[AgentOf[r]] # 0
  <2>1. AgentOf[r] \in Agents
    BY MachineAssumption
  <2>2. r \in HoldsAgent(AgentOf[r]) /\ HoldsAgent(AgentOf[r]) \in SUBSET Requests
    BY <1>2 DEF HoldsAgent
  <2> QED BY <2>1, <2>2, CountRemove DEF PermitsBalanced, AgentsBalanced
<1>3. ASSUME pc[r] \in InFlightPCs PROVE providers[UpstreamOf[cur[r]]] # 0
  <2> DEFINE u == UpstreamOf[cur[r]]
  <2>1. u \in Upstreams
    BY MachineAssumption DEF TypeOK, LocalTypes
  <2>2. r \in HoldsProvider(u) /\ HoldsProvider(u) \in SUBSET Requests
    BY <1>3 DEF HoldsProvider
  <2>3. Cardinality(HoldsProvider(u)) # 0
    BY <2>2, CountRemove
  <2> QED BY <2>1, <2>3 DEF PermitsBalanced, ProvidersBalanced
<1> QED BY <1>1, <1>2, <1>3

\* A worker's move keeps the global count, takes a permit or gives one back.
LEMMA GlobalMove ==
    ASSUME TypeOK, GlobalBalanced, NEW r \in Requests, NEW l, Goto(r, l),
           \/ /\ pc[r] \in {"arrive", "done"} <=> l \in {"arrive", "done"}
              /\ UNCHANGED global
           \/ /\ pc[r] = "arrive" /\ l \notin {"arrive", "done"}
              /\ global < GlobalLimit /\ global' = global + 1
           \/ /\ pc[r] \notin {"arrive", "done"} /\ l = "done"
              /\ global' = global - 1
    PROVE  GlobalBalanced'
<1>0. global \in Nat /\ GlobalLimit \in Nat /\ HoldsGlobal \in SUBSET Requests
  BY MachineAssumption DEF TypeOK, PermitTypes, HoldsGlobal
<1>1. HoldsGlobal' = IF l \in {"arrive", "done"} THEN HoldsGlobal \ {r}
                                                 ELSE HoldsGlobal \union {r}
  BY DEF HoldsGlobal, Goto, TypeOK, ResultTypes
<1>2. r \in HoldsGlobal <=> pc[r] \notin {"arrive", "done"}
  BY DEF HoldsGlobal
<1>3. CASE (pc[r] \in {"arrive", "done"} <=> l \in {"arrive", "done"}) /\ UNCHANGED global
  <2>1. HoldsGlobal' = HoldsGlobal
    BY <1>1, <1>2, <1>3
  <2> QED BY <1>3, <2>1 DEF GlobalBalanced
<1>4. CASE /\ pc[r] = "arrive" /\ l \notin {"arrive", "done"}
           /\ global < GlobalLimit /\ global' = global + 1
  <2>1. Cardinality(HoldsGlobal') = Cardinality(HoldsGlobal) + 1
    BY <1>0, <1>1, <1>2, <1>4, CountAdd
  <2> QED BY <1>0, <1>4, <2>1 DEF GlobalBalanced
<1>5. CASE /\ pc[r] \notin {"arrive", "done"} /\ l = "done"
           /\ global' = global - 1
  <2>1. Cardinality(HoldsGlobal') = Cardinality(HoldsGlobal) - 1
    BY <1>0, <1>1, <1>2, <1>5, CountRemove
  <2> QED BY <1>0, <1>5, <2>1 DEF GlobalBalanced
<1> QED BY <1>3, <1>4, <1>5

\* The same of the count of the worker's Agent; the other Agents' stand still.
LEMMA AgentsMove ==
    ASSUME TypeOK, AgentsBalanced, NEW r \in Requests, NEW l, Goto(r, l),
           \/ /\ pc[r] \in {"arrive", "agent", "done"} <=> l \in {"arrive", "agent", "done"}
              /\ UNCHANGED agents
           \/ /\ pc[r] = "agent" /\ l \notin {"arrive", "agent", "done"}
              /\ agents[AgentOf[r]] < AgentLimit
              /\ agents' = [agents EXCEPT ![AgentOf[r]] = @ + 1]
           \/ /\ pc[r] \notin {"arrive", "agent", "done"} /\ l = "done"
              /\ agents' = [agents EXCEPT ![AgentOf[r]] = @ - 1]
    PROVE  AgentsBalanced'
<1> DEFINE out == {"arrive", "agent", "done"}
           me == AgentOf[r]
<1>0. me \in Agents /\ agents \in [Agents -> Nat] /\ AgentLimit \in Nat
  BY MachineAssumption DEF TypeOK, PermitTypes
<1>1. /\ HoldsAgent(me)' = IF l \in out THEN HoldsAgent(me) \ {r}
                                        ELSE HoldsAgent(me) \union {r}
      /\ \A a \in Agents : a # me => HoldsAgent(a)' = HoldsAgent(a)
      /\ HoldsAgent(me) \in SUBSET Requests
  BY DEF HoldsAgent, Goto, TypeOK, ResultTypes
<1>2. r \in HoldsAgent(me) <=> pc[r] \notin out
  BY DEF HoldsAgent
<1>3. ASSUME NEW a \in Agents, a # me
      PROVE  agents'[a] = Cardinality(HoldsAgent(a)') /\ agents'[a] <= AgentLimit
  <2>1. agents'[a] = agents[a]
    BY <1>0, <1>3
  <2> QED BY <1>1, <1>3, <2>1 DEF AgentsBalanced
<1>4. agents'[me] = Cardinality(HoldsAgent(me)') /\ agents'[me] <= AgentLimit
  <2>0. agents[me] = Cardinality(HoldsAgent(me)) /\ agents[me] <= AgentLimit
    BY <1>0 DEF AgentsBalanced
  <2>1. CASE (pc[r] \in out <=> l \in out) /\ UNCHANGED agents
    <3>1. HoldsAgent(me)' = HoldsAgent(me)
      BY <1>1, <1>2, <2>1
    <3> QED BY <2>0, <2>1, <3>1
  <2>2. CASE /\ pc[r] = "agent" /\ l \notin out
             /\ agents[me] < AgentLimit /\ agents' = [agents EXCEPT ![me] = @ + 1]
    <3>1. Cardinality(HoldsAgent(me)') = Cardinality(HoldsAgent(me)) + 1
      BY <1>1, <1>2, <2>2, CountAdd
    <3> QED BY <1>0, <2>0, <2>2, <3>1
  <2>3. CASE /\ pc[r] \notin out /\ l = "done"
             /\ agents' = [agents EXCEPT ![me] = @ - 1]
    <3>1. Cardinality(HoldsAgent(me)') = Cardinality(HoldsAgent(me)) - 1
      BY <1>1, <1>2, <2>3, CountRemove
    <3> QED BY <1>0, <2>0, <2>3, <3>1
  <2> QED BY <2>1, <2>2, <2>3
<1> QED BY <1>3, <1>4 DEF AgentsBalanced

\* The same of the upstream a worker's attempt is on; a worker changes its
\* target only between two attempts.
LEMMA ProvidersMove ==
    ASSUME TypeOK, ProvidersBalanced, NEW r \in Requests, NEW l, Goto(r, l),
           NEW t \in Targets, cur' = [cur EXCEPT ![r] = t],
           \/ /\ pc[r] \in InFlightPCs <=> l \in InFlightPCs
              /\ pc[r] \in InFlightPCs => t = cur[r]
              /\ UNCHANGED providers
           \/ /\ pc[r] \notin InFlightPCs /\ l \in InFlightPCs
              /\ providers[UpstreamOf[t]] < ProviderLimit
              /\ providers' = [providers EXCEPT ![UpstreamOf[t]] = @ + 1]
           \/ /\ pc[r] \in InFlightPCs /\ l \notin InFlightPCs
              /\ t = cur[r]
              /\ providers' = [providers EXCEPT ![UpstreamOf[t]] = @ - 1]
    PROVE  ProvidersBalanced'
<1> DEFINE me == UpstreamOf[t]
<1>0. me \in Upstreams /\ providers \in [Upstreams -> Nat] /\ ProviderLimit \in Nat
  BY MachineAssumption DEF TypeOK, PermitTypes
<1>1. /\ \A u \in Upstreams : HoldsProvider(u) \in SUBSET Requests
      /\ \A u \in Upstreams : HoldsProvider(u)' =
            IF l \in InFlightPCs /\ u = me THEN HoldsProvider(u) \union {r}
                                           ELSE HoldsProvider(u) \ {r}
  BY DEF HoldsProvider, Goto, TypeOK, ResultTypes, LocalTypes
<1>2. \A u \in Upstreams :
         r \in HoldsProvider(u) <=> pc[r] \in InFlightPCs /\ u = UpstreamOf[cur[r]]
  BY DEF HoldsProvider
<1>3. ASSUME NEW u \in Upstreams
      PROVE  providers'[u] = Cardinality(HoldsProvider(u)') /\ providers'[u] <= ProviderLimit
  <2>0. /\ providers[u] = Cardinality(HoldsProvider(u)) /\ providers[u] <= ProviderLimit
        /\ providers[u] \in Nat
    BY <1>0 DEF ProvidersBalanced
  <2>1. CASE /\ pc[r] \in InFlightPCs <=> l \in InFlightPCs
             /\ pc[r] \in InFlightPCs => t = cur[r]
             /\ UNCHANGED providers
    <3>1. HoldsProvider(u)' = HoldsProvider(u)
      <4>1. r \in HoldsProvider(u) <=> l \in InFlightPCs /\ u = me
        BY <1>2, <2>1
      <4>2. HoldsProvider(u)' = IF r \in HoldsProvider(u) THEN HoldsProvider(u) \union {r}
                                                          ELSE HoldsProvider(u) \ {r}
        BY <1>1, <4>1
      <4> QED BY <4>2
    <3> QED BY <2>0, <2>1, <3>1
  <2>2. CASE /\ pc[r] \notin InFlightPCs /\ l \in InFlightPCs
             /\ providers[UpstreamOf[t]] < ProviderLimit
             /\ providers' = [providers EXCEPT ![UpstreamOf[t]] = @ + 1]
    <3>1. CASE u = me
      <4>1. HoldsProvider(u)' = HoldsProvider(u) \union {r} /\ r \notin HoldsProvider(u)
        BY <1>1, <1>2, <2>2, <3>1
      <4>2. Cardinality(HoldsProvider(u)') = Cardinality(HoldsProvider(u)) + 1
        BY <1>1, <4>1, CountAdd
      <4> QED BY <1>0, <2>0, <2>2, <3>1, <4>2
    <3>2. CASE u # me
      <4>1. HoldsProvider(u)' = HoldsProvider(u)
        BY <1>1, <1>2, <2>2, <3>2
      <4> QED BY <1>0, <2>0, <2>2, <3>2, <4>1
    <3> QED BY <3>1, <3>2
  <2>3. CASE /\ pc[r] \in InFlightPCs /\ l \notin InFlightPCs
             /\ t = cur[r]
             /\ providers' = [providers EXCEPT ![UpstreamOf[t]] = @ - 1]
    <3>1. CASE u = me
      <4>1. HoldsProvider(u)' = HoldsProvider(u) \ {r} /\ r \in HoldsProvider(u)
        BY <1>1, <1>2, <2>3, <3>1
      <4>2. Cardinality(HoldsProvider(u)') = Cardinality(HoldsProvider(u)) - 1
        BY <1>1, <4>1, CountRemove
      <4> QED BY <1>0, <2>0, <2>3, <3>1, <4>2
    <3>2. CASE u # me
      <4>1. HoldsProvider(u)' = HoldsProvider(u)
        BY <1>1, <1>2, <2>3, <3>2
      <4> QED BY <1>0, <2>0, <2>3, <3>2, <4>1
    <3> QED BY <3>1, <3>2
  <2> QED BY <2>1, <2>2, <2>3
<1> QED BY <1>3 DEF ProvidersBalanced

\* A worker moves between two places at which it holds the same permits.
LEMMA StayMove ==
    ASSUME TypeOK, PermitsBalanced, NEW r \in Requests, NEW l, Goto(r, l),
           UNCHANGED <<admission, cur>>,
           \/ /\ pc[r] \in {"route", "loop", "begin"}
              /\ l \in {"loop", "begin", "settle"}
           \/ pc[r] \in InFlightPCs /\ l \in InFlightPCs
           \/ pc[r] = "arrive" /\ l = "done"
    PROVE  PermitsBalanced'
<1>1. GlobalBalanced'
  BY GlobalMove DEF PermitsBalanced, admission, InFlightPCs
<1>2. AgentsBalanced'
  BY AgentsMove DEF PermitsBalanced, admission, InFlightPCs
<1>3. ProvidersBalanced'
  <2>1. cur[r] \in Targets /\ cur' = [cur EXCEPT ![r] = cur[r]]
    BY DEF TypeOK, LocalTypes
  <2>2. (pc[r] \in InFlightPCs <=> l \in InFlightPCs) /\ UNCHANGED providers
    BY DEF admission, InFlightPCs
  <2> QED BY <2>1, <2>2, ProvidersMove DEF PermitsBalanced
<1> QED BY <1>1, <1>2, <1>3 DEF PermitsBalanced

\* The provider permit is dropped at the end of an iteration of the loop.
LEMMA DropMove ==
    ASSUME TypeOK, PermitsBalanced, NEW r \in Requests, NEW l, Goto(r, l),
           pc[r] \in {"result", "wait"}, l \in {"loop", "settle"},
           DropProvider(r), UNCHANGED <<global, agents, cur>>
    PROVE  PermitsBalanced'
<1>1. GlobalBalanced'
  BY GlobalMove DEF PermitsBalanced
<1>2. AgentsBalanced'
  BY AgentsMove DEF PermitsBalanced
<1>3. ProvidersBalanced'
  <2>1. cur[r] \in Targets /\ cur' = [cur EXCEPT ![r] = cur[r]]
    BY DEF TypeOK, LocalTypes
  <2>2. pc[r] \in InFlightPCs /\ l \notin InFlightPCs
    BY DEF InFlightPCs
  <2> QED BY <2>1, <2>2, ProvidersMove DEF PermitsBalanced, DropProvider
<1> QED BY <1>1, <1>2, <1>3 DEF PermitsBalanced

\* The global and the Agent permit are dropped when the request is settled.
LEMMA FinishMove ==
    ASSUME TypeOK, PermitsBalanced, NEW r \in Requests, NEW x, Finish(r, x),
           pc[r] = "settle", UNCHANGED providers
    PROVE  PermitsBalanced'
<1>1. Goto(r, "done")
  BY DEF Finish
<1>2. GlobalBalanced'
  BY <1>1, GlobalMove DEF PermitsBalanced, Finish
<1>3. AgentsBalanced'
  BY <1>1, AgentsMove DEF PermitsBalanced, Finish
<1>4. ProvidersBalanced'
  <2>1. NoTarget \in Targets /\ cur' = [cur EXCEPT ![r] = NoTarget]
    BY MachineAssumption DEF NoTarget, Finish, DropLocals
  <2>2. pc[r] \notin InFlightPCs /\ "done" \notin InFlightPCs
    BY DEF InFlightPCs
  <2> QED BY <1>1, <2>1, <2>2, ProvidersMove DEF PermitsBalanced
<1> QED BY <1>2, <1>3, <1>4 DEF PermitsBalanced

\* The steps of one attempt.
AttemptStep(r) ==
    \/ SendFails(r) \/ SendAnswers(r)
    \/ CanonicalErrorBody(r) \/ NativeReadFails(r)
    \/ NativeParks(r) \/ NativeRefusesImage(r) \/ NativeRelays4xx(r)
    \/ BodyCancelled(r) \/ BodyFails(r) \/ BodyReady(r) \/ NativeTail(r)
    \/ SendJson(r) \/ SendBeginStream(r)
    \/ StreamCompletes(r) \/ StreamBreaks(r) \/ StreamRefused(r)
    \/ NativeStreamStops(r)

\* An attempt touches no permit and stays an attempt until dispatch has its
\* result.
LEMMA AttemptStays ==
    ASSUME NEW r \in Requests, AttemptStep(r)
    PROVE  /\ pc[r] \in InFlightPCs
           /\ UNCHANGED <<admission, cur>>
           /\ \E l \in InFlightPCs : Goto(r, l)
<1> USE DEF InFlightPCs, attemptFrame, request, EndAttempt, EndCancelled
<1>1. CASE SendFails(r) \/ SendAnswers(r)
  BY <1>1 DEF SendFails, SendAnswers
<1>2. CASE CanonicalErrorBody(r) \/ NativeReadFails(r)
  BY <1>2 DEF CanonicalErrorBody, NativeReadFails
<1>3. CASE NativeParks(r) \/ NativeRefusesImage(r) \/ NativeRelays4xx(r)
  BY <1>3 DEF NativeParks, NativeRefusesImage, NativeRelays4xx
<1>4. CASE BodyCancelled(r) \/ BodyFails(r) \/ BodyReady(r)
  BY <1>4 DEF BodyCancelled, BodyFails, BodyReady
<1>5. CASE NativeTail(r)
  BY <1>5 DEF NativeTail
<1>6. CASE SendJson(r) \/ SendBeginStream(r)
  BY <1>6 DEF SendJson, SendBeginStream
<1>7. CASE StreamCompletes(r) \/ StreamBreaks(r) \/ StreamRefused(r) \/ NativeStreamStops(r)
  BY <1>7 DEF StreamCompletes, StreamBreaks, StreamRefused, NativeStreamStops
<1> QED BY <1>1, <1>2, <1>3, <1>4, <1>5, <1>6, <1>7 DEF AttemptStep

\* Every step of a worker keeps the permits balanced.
LEMMA WorkPermits ==
    ASSUME TypeOK, PermitsBalanced, NEW r \in Requests, Work(r),
           pc[r] = "begin" => order[r] # <<>>
    PROVE  PermitsBalanced'
<1>0. /\ cur \in [Requests -> Targets]
      /\ cur[r] \in Targets /\ cur' = cur => cur' = [cur EXCEPT ![r] = cur[r]]
  BY DEF TypeOK, LocalTypes
<1>1. CASE EnterGlobal(r)
  <2>1. GlobalBalanced'
    BY <1>1, GlobalMove DEF PermitsBalanced, EnterGlobal
  <2>2. AgentsBalanced'
    BY <1>1, AgentsMove DEF PermitsBalanced, EnterGlobal
  <2>3. ProvidersBalanced'
    BY <1>0, <1>1, ProvidersMove DEF PermitsBalanced, EnterGlobal, request, InFlightPCs
  <2> QED BY <2>1, <2>2, <2>3 DEF PermitsBalanced
<1>2. CASE RefuseGlobal(r)
  BY <1>2, StayMove DEF RefuseGlobal, request
<1>3. CASE EnterAgent(r)
  <2>1. GlobalBalanced'
    BY <1>3, GlobalMove DEF PermitsBalanced, EnterAgent
  <2>2. AgentsBalanced'
    BY <1>3, AgentsMove DEF PermitsBalanced, EnterAgent
  <2>3. ProvidersBalanced'
    BY <1>0, <1>3, ProvidersMove DEF PermitsBalanced, EnterAgent, request, InFlightPCs
  <2> QED BY <2>1, <2>2, <2>3 DEF PermitsBalanced
<1>4. CASE RefuseAgent(r)
  <2>1. GlobalBalanced'
    BY <1>4, GlobalMove DEF PermitsBalanced, RefuseAgent
  <2>2. AgentsBalanced'
    BY <1>4, AgentsMove DEF PermitsBalanced, RefuseAgent
  <2>3. ProvidersBalanced'
    BY <1>0, <1>4, ProvidersMove DEF PermitsBalanced, RefuseAgent, request, InFlightPCs
  <2> QED BY <2>1, <2>2, <2>3 DEF PermitsBalanced
<1>5. CASE Reject(r) \/ LoopExhausted(r) \/ LoopCancelled(r) \/ BudgetSpent(r)
  BY <1>5, StayMove DEF Reject, LoopExhausted, LoopCancelled, BudgetSpent, ReturnErr, request
<1>6. CASE Route(r) \/ LoopNext(r) \/ ProviderFull(r)
  BY <1>6, StayMove DEF Route, LoopNext, ProviderFull, request
<1>7. CASE BeginAttempt(r)
  <2>1. GlobalBalanced'
    BY <1>7, GlobalMove DEF PermitsBalanced, BeginAttempt
  <2>2. AgentsBalanced'
    BY <1>7, AgentsMove DEF PermitsBalanced, BeginAttempt
  <2>3. ProvidersBalanced'
    <3>1. Head(order[r]) \in Targets
      BY <1>7 DEF BeginAttempt, TypeOK, LocalTypes
    <3>2. pc[r] \notin InFlightPCs /\ "send" \in InFlightPCs
      BY <1>7 DEF BeginAttempt, InFlightPCs
    <3> QED BY <1>7, <3>1, <3>2, ProvidersMove DEF PermitsBalanced, BeginAttempt
  <2> QED BY <2>1, <2>2, <2>3 DEF PermitsBalanced
<1>8. CASE AttemptStep(r)
  BY <1>8, AttemptStays, StayMove
<1>9. CASE AttemptOk(r) \/ AttemptInterrupted(r) \/ AttemptFatal(r) \/ WaitEnds(r)
  BY <1>9, DropMove DEF AttemptOk, AttemptInterrupted, AttemptFatal, WaitEnds, ReturnErr, request
<1>10. CASE AttemptRetriable(r)
  <2>1. CASE Goto(r, "loop") /\ DropProvider(r)
    BY <1>10, <2>1, DropMove DEF AttemptRetriable
  <2>2. CASE Goto(r, "wait") /\ UNCHANGED providers
    BY <1>10, <2>2, StayMove DEF AttemptRetriable, admission, InFlightPCs
  <2> QED BY <1>10, <2>1, <2>2 DEF AttemptRetriable
<1>11. CASE SettleComplete(r) \/ SettleFailedBefore(r) \/ SettleUncharged(r)
            \/ SettleParked(r) \/ SettleError(r)
  BY <1>11, FinishMove
  DEF SettleComplete, SettleFailedBefore, SettleUncharged, SettleParked, SettleError
<1> QED
  BY <1>1, <1>2, <1>3, <1>4, <1>5, <1>6, <1>7, <1>8, <1>9, <1>10, <1>11
  DEF Work, AttemptStep

-----------------------------------------------------------------------------
(* What a request has shown its caller, and which verdict its attempt has  *)
(* been given, at every point of the worker.                               *)

Uncommitted == {"arrive", "agent", "route", "loop", "begin", "send", "errbody",
                "body", "render", "wait"}

\* Nothing is out before the stream or the result; a result that is an error
\* comes with no Begin*, and one that put a headless chunk out may not fall back.
Shown(r) ==
    /\ pc[r] \in Uncommitted => begins[r] = 0 /\ ~early[r]
    /\ pc[r] \in {"send", "errbody", "body", "render"} => ~output[r]
    /\ pc[r] = "stream" => begins[r] = 1 /\ output[r] /\ ~early[r]
    /\ pc[r] \in {"result", "settle"} =>
         /\ res[r] \in Errors \union Outcomes
         /\ res[r] \in Errors => begins[r] = 0
         /\ res[r] \in Outcomes => begins[r] = IF early[r] THEN 0 ELSE 1
    /\ pc[r] = "result" /\ res[r] \in Errors => (early[r] => output[r])
    /\ pc[r] = "begin" => order[r] # <<>>
    /\ pc[r] = "done" /\ ~early[r] => begins[r] = 1
    /\ begins[r] <= 1

\* An attempt under way has not been observed; a result settle will observe has
\* not been observed by dispatch.
Judged(r) ==
    /\ obs[r] <= 1
    /\ pc[r] \in {"send", "errbody", "body", "render", "stream", "result"} => obs[r] = 0
    /\ pc[r] = "settle" /\ res[r] \in {"complete", "failed_before"} => obs[r] = 0
    /\ pc[r] # "done" => final[r] = None
    /\ final[r] = "ok" => obs[r] = 1

\* The inductive invariant.
IInv ==
    /\ TypeOK /\ PermitsBalanced
    /\ \A r \in Requests : Shown(r) /\ Judged(r)

\* The state of one request.
Same(q) ==
    /\ pc'[q] = pc[q] /\ begins'[q] = begins[q] /\ early'[q] = early[q]
    /\ output'[q] = output[q] /\ res'[q] = res[q] /\ order'[q] = order[q]
    /\ obs'[q] = obs[q] /\ final'[q] = final[q]

\* A request whose own state does not change keeps what is known of it.
LEMMA SameKeeps ==
    ASSUME NEW q \in Requests, Shown(q), Judged(q), Same(q)
    PROVE  Shown(q)' /\ Judged(q)'
BY DEF Same, Shown, Judged

\* A worker leaves the other requests' state alone.
LEMMA OthersSame ==
    ASSUME TypeOK, NEW r \in Requests, Work(r), NEW q \in Requests, q # r
    PROVE  Same(q) /\ attempts'[q] = attempts[q]
<1> USE DEF TypeOK, ResultTypes, LocalTypes, RecordTypes, VerdictTypes, Same, Goto,
        attempt, request
<1>1. CASE EnterGlobal(r) \/ RefuseGlobal(r) \/ EnterAgent(r) \/ RefuseAgent(r)
  BY <1>1 DEF EnterGlobal, RefuseGlobal, EnterAgent, RefuseAgent, Emit
<1>2. CASE Reject(r) \/ Route(r) \/ LoopExhausted(r) \/ LoopCancelled(r)
  BY <1>2 DEF Reject, Route, LoopExhausted, LoopCancelled, ReturnErr, Emit
<1>3. CASE LoopNext(r) \/ ProviderFull(r) \/ BudgetSpent(r)
  BY <1>3 DEF LoopNext, ProviderFull, BudgetSpent, ReturnErr
<1>4. CASE BeginAttempt(r)
  BY <1>4 DEF BeginAttempt
<1>5. CASE SendFails(r) \/ SendAnswers(r) \/ CanonicalErrorBody(r)
  BY <1>5 DEF SendFails, SendAnswers, CanonicalErrorBody, EndAttempt,
       EndCancelled, attemptFrame
<1>6. CASE NativeReadFails(r) \/ NativeParks(r) \/ NativeRefusesImage(r) \/ NativeRelays4xx(r)
  BY <1>6 DEF NativeReadFails, NativeParks, NativeRefusesImage, NativeRelays4xx, EndAttempt,
       attemptFrame
<1>7. CASE BodyCancelled(r) \/ BodyFails(r) \/ BodyReady(r)
  BY <1>7 DEF BodyCancelled, BodyFails, BodyReady, EndAttempt, EndCancelled,
       attemptFrame
<1>8. CASE NativeTail(r)
  BY <1>8 DEF NativeTail, attemptFrame
<1>9. CASE SendJson(r) \/ SendBeginStream(r)
  BY <1>9 DEF SendJson, SendBeginStream, EndAttempt, Emit, attemptFrame
<1>10. CASE StreamCompletes(r) \/ StreamBreaks(r) \/ StreamRefused(r) \/ NativeStreamStops(r)
  BY <1>10 DEF StreamCompletes, StreamBreaks, StreamRefused,
       NativeStreamStops, EndAttempt, attemptFrame
<1>11. CASE AttemptOk(r) \/ AttemptInterrupted(r) \/ WaitEnds(r)
  BY <1>11 DEF AttemptOk, AttemptInterrupted, WaitEnds, ReturnErr
<1>12. CASE AttemptFatal(r) \/ AttemptRetriable(r)
  BY <1>12 DEF AttemptFatal, AttemptRetriable, Observe, DropResult
<1>13. CASE SettleComplete(r) \/ SettleFailedBefore(r)
  BY <1>13 DEF SettleComplete, SettleFailedBefore, Observe, Finish,
       DropLocals, DropResult
<1>14. CASE SettleUncharged(r) \/ SettleParked(r) \/ SettleError(r)
  BY <1>14 DEF SettleUncharged, SettleParked, SettleError, Emit, Finish,
       DropLocals, DropResult
<1> QED
  BY <1>1, <1>2, <1>3, <1>4, <1>5, <1>6, <1>7, <1>8, <1>9, <1>10, <1>11,
     <1>12, <1>13, <1>14
  DEF Work

\* Every step of a worker keeps what it knows of its own request.
LEMMA WorkKeeps ==
    ASSUME TypeOK, NEW r \in Requests, Work(r), Shown(r), Judged(r)
    PROVE  Shown(r)' /\ Judged(r)'
<1> USE DEF TypeOK, ResultTypes, LocalTypes, RecordTypes, VerdictTypes, Shown, Judged,
        Uncommitted, Errors, Outcomes, None, Goto, attempt, request
<1>1. CASE EnterGlobal(r)
  BY <1>1 DEF EnterGlobal
<1>2. CASE RefuseGlobal(r)
  BY <1>2 DEF RefuseGlobal, Emit
<1>3. CASE EnterAgent(r)
  BY <1>3 DEF EnterAgent
<1>4. CASE RefuseAgent(r)
  BY <1>4 DEF RefuseAgent, Emit
<1>5. CASE Reject(r)
  BY <1>5 DEF Reject, ReturnErr
<1>6. CASE Route(r)
  BY <1>6 DEF Route
<1>7. CASE LoopExhausted(r)
  BY <1>7, LastErrorType DEF LoopExhausted, ReturnErr
<1>8. CASE LoopCancelled(r)
  BY <1>8 DEF LoopCancelled, ReturnErr, Emit
<1>9. CASE LoopNext(r)
  BY <1>9 DEF LoopNext
<1>10. CASE ProviderFull(r)
  BY <1>10 DEF ProviderFull
<1>11. CASE BudgetSpent(r)
  BY <1>11, LastErrorType DEF BudgetSpent, ReturnErr
<1>12. CASE BeginAttempt(r)
  BY <1>12 DEF BeginAttempt
<1>13. CASE SendFails(r)
  BY <1>13 DEF SendFails, EndAttempt, EndCancelled, attemptFrame
<1>14. CASE SendAnswers(r)
  BY <1>14 DEF SendAnswers, attemptFrame
<1>15. CASE CanonicalErrorBody(r)
  <2>1. CASE EndCancelled(r)
    BY <1>15, <2>1 DEF CanonicalErrorBody, EndAttempt, EndCancelled, attemptFrame
  <2>2. ASSUME NEW code \in Errors, EndAttempt(r, code, "provider", FALSE)
        PROVE  Shown(r)' /\ Judged(r)'
    BY <1>15, <2>2 DEF CanonicalErrorBody, EndAttempt, attemptFrame
  <2> QED BY <1>15, <2>1, <2>2 DEF CanonicalErrorBody
<1>16. CASE NativeReadFails(r)
  BY <1>16 DEF NativeReadFails, EndAttempt, attemptFrame
<1>17. CASE NativeParks(r)
  BY <1>17 DEF NativeParks, EndAttempt, attemptFrame
<1>18. CASE NativeRelays4xx(r)
  BY <1>18 DEF NativeRelays4xx, EndAttempt, attemptFrame
<1>39. CASE NativeRefusesImage(r)
  BY <1>39 DEF NativeRefusesImage, EndAttempt, attemptFrame
<1>19. CASE BodyCancelled(r)
  BY <1>19 DEF BodyCancelled, EndAttempt, EndCancelled, attemptFrame
<1>20. CASE BodyFails(r)
  BY <1>20 DEF BodyFails, EndAttempt, attemptFrame
<1>21. CASE BodyReady(r)
  BY <1>21 DEF BodyReady, attemptFrame
<1>22. CASE NativeTail(r)
  BY <1>22 DEF NativeTail, attemptFrame
<1>23. CASE SendJson(r)
  BY <1>23 DEF SendJson, EndAttempt, attemptFrame
<1>24. CASE SendBeginStream(r)
  BY <1>24 DEF SendBeginStream, EndAttempt, Emit, attemptFrame
<1>25. CASE StreamCompletes(r)
  BY <1>25 DEF StreamCompletes, EndAttempt, attemptFrame
<1>26. CASE StreamBreaks(r)
  BY <1>26 DEF StreamBreaks, EndAttempt, attemptFrame
<1>27. CASE StreamRefused(r)
  BY <1>27 DEF StreamRefused, EndAttempt, attemptFrame
<1>28. CASE NativeStreamStops(r)
  BY <1>28 DEF NativeStreamStops, EndAttempt, attemptFrame
<1>29. CASE AttemptOk(r)
  BY <1>29 DEF AttemptOk
<1>30. CASE AttemptInterrupted(r)
  BY <1>30 DEF AttemptInterrupted, ReturnErr
<1>31. CASE AttemptFatal(r)
  BY <1>31 DEF AttemptFatal, Observe
<1>32. CASE AttemptRetriable(r)
  BY <1>32 DEF AttemptRetriable, Observe, DropResult, FallbackAllowed
<1>33. CASE WaitEnds(r)
  BY <1>33 DEF WaitEnds
<1>34. CASE SettleComplete(r)
  BY <1>34 DEF SettleComplete, Finish, DropLocals, DropResult
<1>35. CASE SettleFailedBefore(r)
  BY <1>35 DEF SettleFailedBefore, Finish, DropLocals, DropResult, Observe
<1>36. CASE SettleUncharged(r)
  BY <1>36 DEF SettleUncharged, Finish, DropLocals, DropResult
<1>37. CASE SettleParked(r)
  BY <1>37 DEF SettleParked, Finish, DropLocals, DropResult, Emit
<1>38. CASE SettleError(r)
  BY <1>38 DEF SettleError, Finish, DropLocals, DropResult, Emit
<1> QED
  BY <1>1, <1>2, <1>3, <1>4, <1>5, <1>6, <1>7, <1>8, <1>9, <1>10, <1>11,
     <1>12, <1>13, <1>14, <1>15, <1>16, <1>17, <1>18, <1>19, <1>20, <1>21,
     <1>22, <1>23, <1>24, <1>25, <1>26, <1>27, <1>28, <1>29, <1>30, <1>31,
     <1>32, <1>33, <1>34, <1>35, <1>36, <1>37, <1>38, <1>39
  DEF Work

-----------------------------------------------------------------------------
(* The invariant.                                                          *)

\* Clients, drains, deadlines and the clock touch no worker.
Environment ==
    \/ \E r \in Requests : Disconnect(r) \/ DeadlinePasses(r)
    \/ Drain
    \/ \E t \in Targets : HealthClock(t)
    \/ \E u \in Upstreams : QuotaClock(u)

\* A client, a drain, a deadline or the clock touches no worker and no permit.
LEMMA EnvironmentFrame ==
    ASSUME Environment
    PROVE  UNCHANGED <<pc, admission, request, attempt, begins, early, obs, final>>
BY DEF Environment, Disconnect, DeadlinePasses, Drain, HealthClock, QuotaClock

\* What the environment writes has its type.
LEMMA EnvironmentTypes == ASSUME TypeOK, Environment PROVE TypeOK'
<1> USE FrameTypes
<1>1. ResultTypes'
  BY EnvironmentFrame DEF TypeOK, ResultTypes, attempt
<1>2. PermitTypes' /\ LocalTypes' /\ RecordTypes'
  BY EnvironmentFrame
<1>3. VerdictTypes' /\ TokenTypes'
  <2>1. ASSUME NEW r \in Requests, Disconnect(r) PROVE VerdictTypes' /\ TokenTypes'
    BY <2>1 DEF Disconnect, TypeOK, TokenTypes
  <2>2. ASSUME NEW r \in Requests, DeadlinePasses(r) PROVE VerdictTypes' /\ TokenTypes'
    BY <2>2 DEF DeadlinePasses, TypeOK, TokenTypes
  <2>3. CASE Drain
    BY <2>3 DEF Drain, TypeOK, TokenTypes
  <2>4. ASSUME NEW t \in Targets, HealthClock(t) PROVE VerdictTypes' /\ TokenTypes'
    BY <2>4 DEF HealthClock, CooldownElapses, TypeOK, VerdictTypes, HealthTypeOK, Ejections
  <2>5. ASSUME NEW u \in Upstreams, QuotaClock(u) PROVE VerdictTypes' /\ TokenTypes'
    BY <2>5 DEF QuotaClock, TypeOK, VerdictTypes, HealthTypeOK, health
  <2> QED BY <2>1, <2>2, <2>3, <2>4, <2>5 DEF Environment
<1> QED BY <1>1, <1>2, <1>3 DEF TypeOK

\* A step that moves no worker and touches no counter keeps the permits.
LEMMA PermitsFrame ==
    ASSUME PermitsBalanced, UNCHANGED <<pc, admission, cur>>
    PROVE  PermitsBalanced'
BY DEF PermitsBalanced, GlobalBalanced, AgentsBalanced, ProvidersBalanced,
       HoldsGlobal, HoldsAgent, HoldsProvider, admission

\* A gateway that has just started satisfies the invariant.
LEMMA InitIInv == Init => IInv
<1> SUFFICES ASSUME Init PROVE IInv
  OBVIOUS
<1>1. TypeOK
  <2>1. NoTarget \in Targets /\ 0 \in 0..MaxAttempts /\ 0 \in 0..(EjectAfter - 1)
    BY MachineAssumption, EjectAfterAssumption DEF NoTarget
  <2>2. PermitTypes /\ VerdictTypes
    BY <2>1 DEF Init, PermitTypes, VerdictTypes, HealthInit, HealthTypeOK, Ejections
  <2>3. LocalTypes
    BY <2>1 DEF Init, LocalTypes
  <2>4. ResultTypes /\ TokenTypes /\ RecordTypes
    BY DEF Init, ResultTypes, TokenTypes, RecordTypes, PCs
  <2> QED BY <2>2, <2>3, <2>4 DEF TypeOK
<1>2. PermitsBalanced
  <2>1. /\ HoldsGlobal = {}
        /\ \A a \in Agents : HoldsAgent(a) = {}
        /\ \A u \in Upstreams : HoldsProvider(u) = {}
    BY DEF Init, HoldsGlobal, HoldsAgent, HoldsProvider, InFlightPCs
  <2>2. Cardinality({}) = 0
    BY FS_EmptySet
  <2>3. GlobalLimit >= 0 /\ AgentLimit >= 0 /\ ProviderLimit >= 0
    BY MachineAssumption
  <2>4. GlobalBalanced
    BY <2>1, <2>2, <2>3 DEF Init, GlobalBalanced
  <2>5. AgentsBalanced
    BY <2>1, <2>2, <2>3 DEF Init, AgentsBalanced
  <2>6. ProvidersBalanced
    BY <2>1, <2>2, <2>3 DEF Init, ProvidersBalanced
  <2> QED BY <2>4, <2>5, <2>6 DEF PermitsBalanced
<1>3. \A r \in Requests : Shown(r) /\ Judged(r)
  BY DEF Init, Shown, Judged, Uncommitted, None
<1> QED BY <1>1, <1>2, <1>3 DEF IInv

\* Every step, of a worker or of the environment, preserves the invariant.
LEMMA NextIInv == IInv /\ [Next]_vars => IInv'
<1> SUFFICES ASSUME IInv, [Next]_vars PROVE IInv'
  OBVIOUS
<1>1. ASSUME NEW r \in Requests, Work(r) PROVE IInv'
  <2>1. /\ TypeOK /\ PermitsBalanced /\ Shown(r) /\ Judged(r)
        /\ pc[r] = "begin" => order[r] # <<>>
    BY DEF IInv, Shown
  <2>2. TypeOK'
    BY <1>1, <2>1, PermitsPositive, WorkTypes
  <2>3. PermitsBalanced'
    BY <1>1, <2>1, WorkPermits
  <2>4. ASSUME NEW q \in Requests PROVE Shown(q)' /\ Judged(q)'
    <3>1. CASE q = r
      BY <1>1, <2>1, <3>1, WorkKeeps
    <3>2. CASE q # r
      <4>1. Same(q)
        BY <1>1, <2>1, <3>2, OthersSame
      <4> QED BY <4>1, SameKeeps DEF IInv
    <3> QED BY <3>1, <3>2
  <2> QED BY <2>2, <2>3, <2>4 DEF IInv
<1>2. CASE Environment
  <2>1. TypeOK'
    BY <1>2, EnvironmentTypes DEF IInv
  <2>2. PermitsBalanced'
    BY <1>2, EnvironmentFrame, PermitsFrame DEF IInv, request
  <2>3. ASSUME NEW q \in Requests PROVE Shown(q)' /\ Judged(q)'
    <3>1. Same(q)
      BY <1>2, EnvironmentFrame DEF Same, attempt, request
    <3> QED BY <3>1, SameKeeps DEF IInv
  <2> QED BY <2>1, <2>2, <2>3 DEF IInv
<1>3. CASE UNCHANGED vars
  <2>1. TypeOK'
    <3>1. ResultTypes'
      BY <1>3 DEF IInv, TypeOK, ResultTypes, vars, attempt
    <3> QED BY <1>3, <3>1, FrameTypes DEF IInv, TypeOK, vars
  <2>2. PermitsBalanced'
    BY <1>3, PermitsFrame DEF IInv, vars, request
  <2>3. ASSUME NEW q \in Requests PROVE Shown(q)' /\ Judged(q)'
    <3>1. Same(q)
      BY <1>3 DEF Same, vars, attempt, request
    <3> QED BY <3>1, SameKeeps DEF IInv
  <2> QED BY <2>1, <2>2, <2>3 DEF IInv
<1> QED BY <1>1, <1>2, <1>3 DEF Next, Environment

\* The pipeline keeps its invariant.
THEOREM PipelineInvariant == Spec => []IInv
BY InitIInv, NextIInv, PTL DEF Spec

-----------------------------------------------------------------------------
(* The results.                                                            *)

\* Every variable of the pipeline keeps its type; no counter goes below 0 and no
\* request starts more than MaxAttempts attempts.
THEOREM TypeCorrect == Spec => []TypeOK
<1>1. IInv => TypeOK
  BY DEF IInv
<1> QED BY <1>1, PipelineInvariant, PTL

\* Global, Agent and Provider counters equal the permits held and respect their
\* ceilings, for any number of requests and on every exit path.
THEOREM PermitsAreBalanced == Spec => []PermitsBalanced
<1>1. IInv => PermitsBalanced
  BY DEF IInv
<1> QED BY <1>1, PipelineInvariant, PTL

\* Every request hands at most one Begin* to emit, and one by its end.
THEOREM ExactlyOneBegin == Spec => []OneBegin
<1>1. IInv => OneBegin
  BY DEF IInv, Shown, OneBegin
<1> QED BY <1>1, PipelineInvariant, PTL

\* One attempt gets at most one health observation, a success exactly one.
THEOREM OneObservation == Spec => []ObservedAtMostOnce
<1>1. IInv => ObservedAtMostOnce
  BY DEF IInv, Judged, ObservedAtMostOnce
<1> QED BY <1>1, PipelineInvariant, PTL

\* The worker that starts an attempt has shown its caller nothing yet.
LEMMA BeginShowsNothing ==
    ASSUME IInv, NEW r \in Requests, Work(r), attempts'[r] > attempts[r]
    PROVE  begins[r] = 0 /\ ~early[r]
<1>0. attempts[r] \in Nat /\ attempts \in [Requests -> 0..MaxAttempts]
  BY MachineAssumption DEF IInv, TypeOK, LocalTypes
<1>1. CASE BeginAttempt(r)
  BY <1>1 DEF BeginAttempt, IInv, Shown, Uncommitted
<1>2. ASSUME ~BeginAttempt(r) PROVE attempts'[r] = attempts[r] \/ attempts'[r] = 0
  <2>1. CASE AttemptStep(r)
    <3>1. UNCHANGED attempts
      BY <2>1 DEF AttemptStep, attemptFrame, request, SendFails, SendAnswers,
         CanonicalErrorBody, NativeReadFails, NativeParks, NativeRefusesImage, NativeRelays4xx,
         BodyCancelled, BodyFails, BodyReady, NativeTail, SendJson, SendBeginStream,
         StreamCompletes, StreamBreaks, StreamRefused, NativeStreamStops
    <3> QED BY <3>1
  <2>2. CASE EnterGlobal(r) \/ RefuseGlobal(r) \/ EnterAgent(r) \/ RefuseAgent(r)
             \/ Reject(r) \/ Route(r)
    BY <2>2 DEF EnterGlobal, RefuseGlobal, EnterAgent, RefuseAgent, Reject, Route, request
  <2>3. CASE LoopExhausted(r) \/ LoopCancelled(r) \/ LoopNext(r) \/ ProviderFull(r)
             \/ BudgetSpent(r)
    BY <2>3 DEF LoopExhausted, LoopCancelled, LoopNext, ProviderFull, BudgetSpent, request
  <2>4. CASE AttemptOk(r) \/ AttemptInterrupted(r) \/ AttemptFatal(r)
             \/ AttemptRetriable(r) \/ WaitEnds(r)
    BY <2>4 DEF AttemptOk, AttemptInterrupted, AttemptFatal, AttemptRetriable, WaitEnds,
       request
  <2>5. CASE SettleComplete(r) \/ SettleFailedBefore(r) \/ SettleUncharged(r)
             \/ SettleParked(r) \/ SettleError(r)
    BY <1>0, <2>5 DEF SettleComplete, SettleFailedBefore, SettleUncharged, SettleParked,
       SettleError, Finish, DropLocals
  <2> QED BY <1>2, <2>1, <2>2, <2>3, <2>4, <2>5 DEF Work, AttemptStep
<1> QED BY <1>0, <1>1, <1>2

\* "Only before first byte out": no attempt is started for a request whose
\* caller has been shown a Begin* or a chunk.
THEOREM FallbackBeforeOutputOnly == Spec => NoFallbackAfterOutput
<1>1. IInv /\ [Next]_vars =>
        [\A r \in Requests :
           attempts'[r] > attempts[r] => begins[r] = 0 /\ ~early[r]]_vars
  <2> SUFFICES ASSUME IInv, Next, NEW r \in Requests, attempts'[r] > attempts[r]
               PROVE  begins[r] = 0 /\ ~early[r]
    OBVIOUS
  <2>0. attempts[r] \in Nat
    BY MachineAssumption DEF IInv, TypeOK, LocalTypes
  <2>1. CASE Environment
    BY <2>0, <2>1, EnvironmentFrame DEF request
  <2>2. CASE Work(r)
    BY <2>2, BeginShowsNothing
  <2>3. ASSUME NEW q \in Requests, Work(q), q # r PROVE FALSE
    <3>1. attempts'[r] = attempts[r]
      BY <2>3, OthersSame DEF IInv
    <3> QED BY <2>0, <3>1
  <2> QED BY <2>1, <2>2, <2>3 DEF Next, Environment
<1> QED BY <1>1, PipelineInvariant, PTL DEF Spec, NoFallbackAfterOutput

-----------------------------------------------------------------------------
(* No answer of a request is a failure another target might have mended.   *)

\* The errors another target is worth trying after.
Retried == {"unwell", "rate", "image", "capacity"}

\* An error dispatch is about to judge came with no output, or with a headless
\* chunk; one it has ended with leaves nothing to try, or nothing to try it with.
GivenUp(r) ==
    /\ (pc[r] = "result" /\ res[r] \in Retried) => (output[r] => early[r])
    /\ (pc[r] = "settle" /\ res[r] \in Retried) =>
         \/ order[r] = <<>> \/ attempts[r] = MaxAttempts
         \/ elapsed[r] \/ early[r]

\* What GivenUp speaks of, where it can only become true.
Undecided(q) ==
    /\ Same(q) /\ attempts'[q] = attempts[q]
    /\ elapsed[q] => elapsed'[q] \/ pc[q] \notin {"result", "settle"}

\* A request that is left alone stays as far as it was from giving up.
LEMMA UndecidedKeeps ==
    ASSUME NEW q \in Requests, GivenUp(q), Undecided(q)
    PROVE  GivenUp(q)'
BY DEF Same, Undecided, GivenUp

\* The token of a request is dropped by its own worker only.
LEMMA OthersElapsed ==
    ASSUME TypeOK, NEW r \in Requests, Work(r), NEW q \in Requests, q # r
    PROVE  elapsed'[q] = elapsed[q]
<1> USE DEF TypeOK, TokenTypes, cancels
<1>1. CASE EnterGlobal(r) \/ RefuseGlobal(r) \/ EnterAgent(r) \/ RefuseAgent(r)
  BY <1>1 DEF EnterGlobal, RefuseGlobal, EnterAgent, RefuseAgent, DropToken
<1>2. CASE \/ Reject(r) \/ Route(r) \/ LoopExhausted(r) \/ LoopCancelled(r)
           \/ LoopNext(r) \/ ProviderFull(r) \/ BudgetSpent(r) \/ BeginAttempt(r)
  BY <1>2 DEF Reject, Route, LoopExhausted, LoopCancelled, LoopNext, ProviderFull,
       BudgetSpent, BeginAttempt
<1>3. CASE AttemptStep(r)
  BY <1>3 DEF AttemptStep, SendFails, SendAnswers,
     CanonicalErrorBody, NativeReadFails, NativeParks, NativeRefusesImage, NativeRelays4xx,
     BodyCancelled, BodyFails, BodyReady, NativeTail, SendJson, SendBeginStream,
     StreamCompletes, StreamBreaks, StreamRefused, NativeStreamStops
<1>4. CASE AttemptOk(r) \/ AttemptInterrupted(r) \/ AttemptFatal(r)
           \/ AttemptRetriable(r) \/ WaitEnds(r)
  BY <1>4 DEF AttemptOk, AttemptInterrupted, AttemptFatal, AttemptRetriable, WaitEnds
<1>5. CASE SettleComplete(r) \/ SettleFailedBefore(r) \/ SettleUncharged(r)
           \/ SettleParked(r) \/ SettleError(r)
  BY <1>5 DEF SettleComplete, SettleFailedBefore, SettleUncharged, SettleParked,
     SettleError, Finish, DropToken
<1> QED BY <1>1, <1>2, <1>3, <1>4, <1>5 DEF Work, AttemptStep

\* A worker gives up for one of the four reasons only.
LEMMA WorkGivesUp ==
    ASSUME TypeOK, NEW r \in Requests, Work(r), Shown(r), GivenUp(r)
    PROVE  GivenUp(r)'
<1> USE DEF TypeOK, ResultTypes, LocalTypes, RecordTypes, TokenTypes, GivenUp, Retried,
        Goto, attempt, request, cancels
<1>1. CASE EnterGlobal(r) \/ RefuseGlobal(r) \/ EnterAgent(r) \/ RefuseAgent(r)
  BY <1>1 DEF EnterGlobal, RefuseGlobal, EnterAgent, RefuseAgent
<1>2. CASE Reject(r) \/ Route(r) \/ LoopCancelled(r)
  BY <1>2 DEF Reject, Route, LoopCancelled, ReturnErr
<1>3. CASE LoopExhausted(r)
  BY <1>3 DEF LoopExhausted, ReturnErr
<1>4. CASE BudgetSpent(r)
  <2>1. attempts[r] \in 0..MaxAttempts /\ MaxAttempts \in Nat
    BY MachineAssumption
  <2>2. attempts[r] = MaxAttempts \/ elapsed[r]
    BY <1>4, <2>1 DEF BudgetSpent
  <2> QED BY <1>4, <2>2 DEF BudgetSpent, ReturnErr
<1>5. CASE LoopNext(r) \/ ProviderFull(r) \/ BeginAttempt(r)
  BY <1>5 DEF LoopNext, ProviderFull, BeginAttempt
<1>6. CASE AttemptStep(r)
  <2> USE <1>6 DEF Shown, attemptFrame
  <2>1. CASE SendFails(r) \/ SendAnswers(r)
    BY <2>1 DEF SendFails, SendAnswers, EndAttempt, EndCancelled
  <2>2. CASE CanonicalErrorBody(r) \/ NativeReadFails(r)
    BY <2>2 DEF CanonicalErrorBody, NativeReadFails, EndAttempt, EndCancelled
  <2>3. CASE NativeParks(r) \/ NativeRefusesImage(r) \/ NativeRelays4xx(r)
    BY <2>3 DEF NativeParks, NativeRefusesImage, NativeRelays4xx, EndAttempt
  <2>4. CASE BodyCancelled(r) \/ BodyFails(r) \/ BodyReady(r)
    BY <2>4 DEF BodyCancelled, BodyFails, BodyReady, EndAttempt, EndCancelled
  <2>5. CASE NativeTail(r)
    BY <2>5 DEF NativeTail
  <2>6. CASE SendJson(r) \/ SendBeginStream(r)
    BY <2>6 DEF SendJson, SendBeginStream, EndAttempt
  <2>7. CASE StreamCompletes(r) \/ StreamBreaks(r) \/ StreamRefused(r) \/ NativeStreamStops(r)
    BY <2>7 DEF StreamCompletes, StreamBreaks, StreamRefused, NativeStreamStops, EndAttempt
  <2> QED BY <2>1, <2>2, <2>3, <2>4, <2>5, <2>6, <2>7 DEF AttemptStep
<1>7. CASE AttemptOk(r) \/ AttemptInterrupted(r) \/ WaitEnds(r)
  BY <1>7 DEF AttemptOk, AttemptInterrupted, WaitEnds, ReturnErr, Outcomes
<1>8. CASE AttemptFatal(r)
  <2>1. res[r] \in Retried => output[r]
    BY <1>8 DEF AttemptFatal, FallbackAllowed, WorthAnother, RetriableElsewhere
  <2> QED BY <1>8, <2>1 DEF AttemptFatal
<1>9. CASE AttemptRetriable(r)
  BY <1>9 DEF AttemptRetriable
<1>10. CASE SettleComplete(r) \/ SettleFailedBefore(r) \/ SettleUncharged(r)
            \/ SettleParked(r) \/ SettleError(r)
  BY <1>10 DEF SettleComplete, SettleFailedBefore, SettleUncharged, SettleParked,
     SettleError, Finish
<1> QED
  BY <1>1, <1>2, <1>3, <1>4, <1>5, <1>6, <1>7, <1>8, <1>9, <1>10
  DEF Work, AttemptStep

\* The environment sets deadlines and takes none back.
LEMMA EnvironmentLeaves ==
    ASSUME TypeOK, Environment, NEW q \in Requests
    PROVE  Undecided(q) /\ final'[q] = final[q]
<1>1. Same(q) /\ attempts'[q] = attempts[q] /\ final'[q] = final[q]
  BY EnvironmentFrame DEF Same, attempt, request
<1>2. elapsed[q] => elapsed'[q]
  BY DEF Environment, Disconnect, DeadlinePasses, Drain, HealthClock, QuotaClock,
     TypeOK, TokenTypes, cancels
<1> QED BY <1>1, <1>2 DEF Undecided

\* Every step keeps what is known of the requests that give up.
LEMMA NextGivenUp ==
    IInv /\ (\A q \in Requests : GivenUp(q)) /\ [Next]_vars
    => (\A q \in Requests : GivenUp(q))'
<1> SUFFICES ASSUME IInv, \A q \in Requests : GivenUp(q), [Next]_vars, NEW q \in Requests
             PROVE  GivenUp(q)'
  OBVIOUS
<1>1. ASSUME NEW r \in Requests, Work(r) PROVE GivenUp(q)'
  <2>1. CASE q = r
    BY <1>1, <2>1, WorkGivesUp DEF IInv
  <2>2. CASE q # r
    BY <1>1, <2>2, OthersSame, OthersElapsed, UndecidedKeeps DEF IInv, Undecided
  <2> QED BY <2>1, <2>2
<1>2. CASE Environment
  BY <1>2, EnvironmentLeaves, UndecidedKeeps DEF IInv
<1>3. CASE UNCHANGED vars
  <2>1. Undecided(q)
    BY <1>3 DEF Undecided, Same, vars, attempt, request, cancels
  <2> QED BY <2>1, UndecidedKeeps
<1> QED BY <1>1, <1>2, <1>3 DEF Next, Environment

\* The worker that records a failure worth another target has given up on it.
LEMMA SettlesGivenUp ==
    ASSUME TypeOK, NEW r \in Requests, Work(r), GivenUp(r),
           final'[r] # final[r], final'[r] \in {"error", "upstream_error"},
           WorthAnother(res[r]), res[r] \notin {"lifecycle", "timeout_final"}
    PROVE  order[r] = <<>> \/ attempts[r] = MaxAttempts \/ elapsed[r] \/ early[r]
<1>1. res[r] \in Retried
  BY DEF WorthAnother, RetriableElsewhere, Retried
<1>2. pc[r] = "settle"
  <2>1. CASE AttemptStep(r)
    BY <2>1 DEF AttemptStep, attemptFrame, SendFails, SendAnswers, NativeParks,
       CanonicalErrorBody, NativeReadFails, NativeRefusesImage, NativeRelays4xx,
       BodyCancelled, BodyFails, BodyReady, NativeTail, SendJson, SendBeginStream,
       StreamCompletes, StreamBreaks, StreamRefused, NativeStreamStops
  <2>2. CASE \/ EnterGlobal(r) \/ RefuseGlobal(r) \/ EnterAgent(r) \/ RefuseAgent(r)
             \/ Reject(r) \/ Route(r)
    BY <2>2 DEF EnterGlobal, RefuseGlobal, EnterAgent, RefuseAgent, Reject, Route,
       TypeOK, RecordTypes
  <2>3. CASE LoopExhausted(r) \/ LoopCancelled(r) \/ LoopNext(r) \/ ProviderFull(r)
             \/ BudgetSpent(r) \/ BeginAttempt(r)
    BY <2>3 DEF LoopExhausted, LoopCancelled, LoopNext, ProviderFull, BudgetSpent,
       BeginAttempt
  <2>4. CASE AttemptOk(r) \/ AttemptInterrupted(r) \/ AttemptFatal(r)
             \/ AttemptRetriable(r) \/ WaitEnds(r)
    BY <2>4 DEF AttemptOk, AttemptInterrupted, AttemptFatal, AttemptRetriable, WaitEnds
  <2>5. CASE SettleComplete(r) \/ SettleFailedBefore(r) \/ SettleUncharged(r)
             \/ SettleParked(r) \/ SettleError(r)
    BY <2>5 DEF SettleComplete, SettleFailedBefore, SettleUncharged, SettleParked,
       SettleError
  <2> QED BY <2>1, <2>2, <2>3, <2>4, <2>5 DEF Work, AttemptStep
<1> QED BY <1>1, <1>2 DEF GivenUp

\* No request is answered with a failure another target might have mended while
\* the decision holds one, but for a spent budget or output already out.
THEOREM NobodyGivesUpEarly == Spec => NoEarlyGiveUp
<1>1. Init => \A q \in Requests : GivenUp(q)
  BY DEF Init, GivenUp
<1>2. IInv /\ (\A q \in Requests : GivenUp(q)) /\ [Next]_vars =>
        [\A r \in Requests :
           (/\ final'[r] # final[r] /\ final'[r] \in {"error", "upstream_error"}
            /\ WorthAnother(res[r])
            /\ res[r] \notin {"lifecycle", "timeout_final"})
           => \/ order[r] = <<>> \/ attempts[r] = MaxAttempts
              \/ elapsed[r] \/ early[r]]_vars
  <2> SUFFICES ASSUME IInv, \A q \in Requests : GivenUp(q), Next, NEW r \in Requests,
                      final'[r] # final[r], final'[r] \in {"error", "upstream_error"},
                      WorthAnother(res[r]), res[r] \notin {"lifecycle", "timeout_final"}
               PROVE  order[r] = <<>> \/ attempts[r] = MaxAttempts \/ elapsed[r] \/ early[r]
    OBVIOUS
  <2>1. CASE Environment
    BY <2>1, EnvironmentLeaves DEF IInv
  <2>2. CASE Work(r)
    BY <2>2, SettlesGivenUp DEF IInv
  <2>3. ASSUME NEW q \in Requests, Work(q), q # r PROVE FALSE
    BY <2>3, OthersSame DEF IInv, Same
  <2> QED BY <2>1, <2>2, <2>3 DEF Next, Environment
<1> QED BY <1>1, <1>2, NextGivenUp, PipelineInvariant, PTL DEF Spec, NoEarlyGiveUp

=============================================================================
