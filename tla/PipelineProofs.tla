--------------------------- MODULE PipelineProofs ---------------------------
(***************************************************************************)
(* Theorems about AgentPipeline and LLMRouter, for every set of            *)
(* executions, symbols, agents and requests: the types, the configuration  *)
(* cache and the audit trail.                                              *)
(***************************************************************************)
EXTENDS AgentPipeline, SetProofs

Judging == {"usage", "budget", "escalate", "escUsage", "answered"}
Engaged == Judging \union {"primary"}
CallType == [pc : {"idle", "cache", "row", "fill", "raised"} \union Engaged,
             agent : Agents \union {None}, config : Configs \union {None},
             attempt : 0 .. MaxRetries, confidence : Confidences \union {None},
             verdict : Verdicts \union {None}, escalated : BOOLEAN]
Entries == [config : Configs, expires : BOOLEAN]

\* What a caller has in hand, by where it stands.
CallOK(c) ==
    /\ c \in CallType
    /\ c.pc # "idle" => c.agent \in Agents
    /\ c.pc \in Engaged \union {"fill"} => c.config \in Configs
    /\ c.pc \in Engaged => c.config.active
    /\ c.pc \in Judging => c.confidence \in Confidences /\ c.verdict \in Verdicts

\* A row that goes into the cache is the present one, unless an update came in
\* between.
RowPresent(c) == c.pc = "fill" => c.config = configs[c.agent] \/ c.agent \in raced \union clearing

RowsOK ==
    /\ configs \in [Agents -> Configs \union {None}]
    /\ cache \in [Agents -> Entries \union {None}]
    /\ clearing \subseteq Agents /\ raced \subseteq Agents
    /\ \A u \in updates \ {Reset} : u[1] \in Agents /\ Allowed(u[2])

CallsOK ==
    /\ usage \in Nat /\ late \in Nat
    /\ call \in [Callers -> CallType]
    /\ \A t \in Callers : CallOK(call[t]) /\ RowPresent(call[t])

RouterInv == RowsOK /\ CallsOK /\ StaleNeedsRace

---------------------------------------------------------------------------
(* The router                                                              *)

\* Nothing is cached and nobody calls at the beginning.
LEMMA RouterInitInv ==
    ASSUME RouterInit, configs \in [Agents -> Configs \union {None}],
           \A u \in updates \ {Reset} : u[1] \in Agents /\ Allowed(u[2])
    PROVE  RouterInv /\ \A t \in Callers : call[t].pc = "idle"
<1>1. /\ cache = [a \in Agents |-> None] /\ clearing = {} /\ raced = {}
      /\ usage = 0 /\ late = 0 /\ call = [t \in Callers |-> Idle]
    BY DEF RouterInit
<1>2. CallOK(Idle) /\ Idle.pc = "idle"
    BY RouterAssumption DEF CallOK, CallType, Idle, Judging, Engaged
<1>3. \A t \in Callers : call[t] = Idle
    BY <1>1
<1>4. call \in [Callers -> CallType]
    BY <1>1, <1>2 DEF CallOK
<1>5. CallsOK
    BY <1>1, <1>2, <1>3, <1>4 DEF CallsOK, RowPresent
<1>6. RowsOK /\ StaleNeedsRace
    BY <1>1 DEF RowsOK, StaleNeedsRace
<1> QED
    BY <1>2, <1>3, <1>5, <1>6 DEF RouterInv

\* A caller moves on and the tables of the configuration stay.
LEMMA CallMoves ==
    ASSUME RouterInv, NEW t \in Callers, NEW x, CallOK(x), RowPresent(x),
           call' = [call EXCEPT ![t] = x],
           UNCHANGED table, usage' \in Nat, late' \in Nat
    PROVE  RouterInv'
<1>1. /\ call' \in [Callers -> CallType] /\ call'[t] = x
      /\ \A u \in Callers : u # t => call'[u] = call[u]
    BY DEF RouterInv, CallsOK, CallOK
<1>2. RowsOK' /\ StaleNeedsRace'
    BY DEF RouterInv, RowsOK, StaleNeedsRace, table
<1>3. \A u \in Callers : CallOK(call'[u]) /\ RowPresent(call'[u])
    BY <1>1 DEF RouterInv, CallsOK
<1>4. \A u \in Callers : CallOK(call[u])' /\ RowPresent(call[u])'
    BY <1>3 DEF CallOK, RowPresent, table
<1> QED
    BY <1>1, <1>2, <1>4 DEF RouterInv, CallsOK

\* A configuration is found.
LEMMA ConfigFound ==
    ASSUME NEW t \in Callers, CallOK(call[t]), call[t].pc # "idle", NEW config \in Configs
    PROVE  /\ CallOK(WithConfig(t, config)) /\ RowPresent(WithConfig(t, config))
           /\ WithConfig(t, config).pc # "idle"
<1>1. config.active \in BOOLEAN
    BY DEF Configs
<1>2. CASE config.active
    BY <1>2 DEF WithConfig, CallOK, CallType, Judging, Engaged, RowPresent
<1>3. CASE ~ config.active
    BY <1>3 DEF WithConfig, CallOK, CallType, Judging, Engaged, RowPresent
<1> QED
    BY <1>1, <1>2, <1>3

\* A caller's label changes; what it has in hand stays.
LEMMA LabelMoves ==
    ASSUME NEW t \in Callers, CallOK(call[t]), NEW label \in Engaged \union {"row", "raised"},
           call[t].pc # "idle",
           label \in Engaged => call[t].pc \in Engaged,
           label \in Judging => call[t].pc \in Judging
    PROVE  LET x == [call[t] EXCEPT !.pc = label]
           IN  CallOK(x) /\ RowPresent(x) /\ x.pc # "idle"
BY DEF CallOK, CallType, Judging, Engaged, RowPresent

\* An attempt that fails is tried again, or ends the call.
LEMMA FailureMoves ==
    ASSUME RouterInv, NEW t \in Callers, call[t].pc \in Engaged, NEW model, AttemptFails(t, model),
           UNCHANGED table, usage' \in Nat, late' \in Nat
    PROVE  RouterInv' /\ call'[t].pc # "idle"
           /\ \A u \in Callers : u # t => call'[u] = call[u]
<1>1. CallOK(call[t]) /\ call \in [Callers -> CallType] /\ call[t].pc # "idle"
    BY DEF RouterInv, CallsOK, Engaged, Judging
<1>2. CASE call' = [call EXCEPT ![t].attempt = @ + 1] /\ call[t].attempt < MaxRetries
    <2> DEFINE x == [call[t] EXCEPT !.attempt = @ + 1]
    <2>1. call[t].attempt + 1 \in 0 .. MaxRetries
        BY <1>1, <1>2, RouterAssumption DEF CallOK, CallType
    <2>2. CallOK(x) /\ RowPresent(x) /\ x.pc # "idle"
        BY <1>1, <2>1 DEF CallOK, CallType, Judging, Engaged, RowPresent
    <2>3. call' = [call EXCEPT ![t] = x]
        BY <1>2
    <2> QED
        BY <1>1, <2>2, <2>3, CallMoves
<1>3. CASE Goto(t, "raised")
    <2> DEFINE x == [call[t] EXCEPT !.pc = "raised"]
    <2>1. CallOK(x) /\ RowPresent(x) /\ x.pc # "idle"
        BY <1>1, LabelMoves DEF Engaged, Judging
    <2>2. call' = [call EXCEPT ![t] = x]
        BY <1>3 DEF Goto
    <2> QED
        BY <1>1, <2>1, <2>2, CallMoves
<1> QED
    BY <1>2, <1>3 DEF AttemptFails

\* The steps of route_structured.  A caller inside it stays inside.
LEMMA RouterSteps ==
    ASSUME RouterInv, NEW t \in Callers, RouterStep(t)
    PROVE  /\ RouterInv' /\ call[t].pc # "idle" /\ call'[t].pc # "idle"
           /\ \A u \in Callers : u # t => call'[u] = call[u]
<1> DEFINE c == call[t]
<1>a. /\ CallOK(c) /\ RowPresent(c) /\ call \in [Callers -> CallType]
      /\ usage \in Nat /\ late \in Nat /\ usage + 1 \in Nat /\ late + 1 \in Nat
    BY DEF RouterInv, CallsOK
<1>b. c.pc # "idle"
    BY DEF RouterStep, LookUpCache, ReadRow, FillCache, PrimaryCall, RecordPrimary, CheckBudget,
           EscalationCall, RecordEscalation
<1>c. c.agent \in Agents
    BY <1>a, <1>b DEF CallOK
<1>d. ASSUME NEW x, CallOK(x), RowPresent(x), x.pc # "idle", call' = [call EXCEPT ![t] = x],
             UNCHANGED table, usage' \in Nat, late' \in Nat
      PROVE  /\ RouterInv' /\ call'[t].pc # "idle"
             /\ \A u \in Callers : u # t => call'[u] = call[u]
    BY <1>a, <1>d, CallMoves
<1>e. ASSUME NEW label \in Engaged \union {"row", "raised"}, Goto(t, label),
             label \in Engaged => c.pc \in Engaged,
             label \in Judging => c.pc \in Judging,
             UNCHANGED table, usage' \in Nat, late' \in Nat
      PROVE  /\ RouterInv' /\ call'[t].pc # "idle"
             /\ \A u \in Callers : u # t => call'[u] = call[u]
    <2> DEFINE x == [c EXCEPT !.pc = label]
    <2>1. CallOK(x) /\ RowPresent(x) /\ x.pc # "idle"
        BY <1>a, <1>b, <1>e, LabelMoves
    <2>2. call' = [call EXCEPT ![t] = x]
        BY <1>e DEF Goto
    <2> HIDE DEF x
    <2> QED
        BY <1>d, <1>e, <2>1, <2>2
<1> USE DEF Judging, Engaged
<1>1. CASE LookUpCache(t)
    <2>1. UNCHANGED table /\ usage' \in Nat /\ late' \in Nat
        BY <1>1, <1>a DEF LookUpCache, spending
    <2>2. CASE cache[c.agent] # None /\ call' = [call EXCEPT ![t] = WithConfig(t, cache[c.agent].config)]
        <3>1. cache[c.agent].config \in Configs
            BY <1>c, <2>2 DEF RouterInv, RowsOK, Entries
        <3>2. /\ CallOK(WithConfig(t, cache[c.agent].config))
              /\ RowPresent(WithConfig(t, cache[c.agent].config))
              /\ WithConfig(t, cache[c.agent].config).pc # "idle"
            BY <1>a, <1>b, <3>1, ConfigFound
        <3> QED
            BY <1>b, <1>d, <2>1, <2>2, <3>2
    <2>3. CASE Goto(t, "row")
        BY <1>b, <1>e, <2>1, <2>3
    <2> QED
        BY <1>1, <2>2, <2>3 DEF LookUpCache
<1>2. CASE ReadRow(t)
    <2>1. UNCHANGED table /\ usage' \in Nat /\ late' \in Nat
        BY <1>2, <1>a DEF ReadRow, spending
    <2>2. CASE configs[c.agent] = None /\ ~ Goto(t, "raised")
        <3>1. Defaults[c.agent] \in Configs
            BY <1>c, RouterAssumption
        <3>2. /\ CallOK(WithConfig(t, Defaults[c.agent])) /\ RowPresent(WithConfig(t, Defaults[c.agent]))
              /\ WithConfig(t, Defaults[c.agent]).pc # "idle"
            BY <1>a, <1>b, <3>1, ConfigFound
        <3>3. call' = [call EXCEPT ![t] = WithConfig(t, Defaults[c.agent])]
            BY <1>2, <2>2 DEF ReadRow
        <3> QED
            BY <1>b, <1>d, <2>1, <3>2, <3>3
    <2>3. CASE configs[c.agent] # None /\ ~ Goto(t, "raised")
        <3> DEFINE x == [c EXCEPT !.config = configs[c.agent], !.pc = "fill"]
        <3>1. configs[c.agent] \in Configs
            BY <1>c, <2>3 DEF RouterInv, RowsOK
        <3>2. CallOK(x) /\ x.pc # "idle" /\ x.config = configs[x.agent]
            BY <1>a, <1>c, <3>1 DEF CallOK, CallType
        <3>3. RowPresent(x)
            BY <3>2 DEF RowPresent
        <3>4. call' = [call EXCEPT ![t] = x]
            BY <1>2, <2>3 DEF ReadRow
        <3> HIDE DEF x
        <3> QED
            BY <1>b, <1>d, <2>1, <3>2, <3>3, <3>4
    <2>4. CASE Goto(t, "raised")
        BY <1>b, <1>e, <2>1, <2>4
    <2> QED
        BY <2>2, <2>3, <2>4
<1>3. CASE FillCache(t)
    <2> DEFINE x == WithConfig(t, c.config)
    <2>1. /\ c.pc = "fill" /\ call' = [call EXCEPT ![t] = x]
          /\ UNCHANGED <<configs, clearing, updates, raced, usage, late>>
          /\ cache' = cache \/ cache' = [cache EXCEPT ![c.agent] = Entry(c.config)]
        BY <1>3 DEF FillCache, spending
    <2>2. c.config \in Configs /\ Entry(c.config) \in Entries /\ Entry(c.config).config = c.config
        BY <1>a, <2>1 DEF CallOK, Entry, Entries
    <2>3. CallOK(x) /\ RowPresent(x) /\ x.pc # "idle"
        BY <1>a, <1>b, <2>2, ConfigFound
    <2>4. /\ call' \in [Callers -> CallType] /\ call'[t] = x
          /\ \A u \in Callers : u # t => call'[u] = call[u]
        BY <1>a, <2>1, <2>3 DEF CallOK
    <2>5. RowsOK'
        BY <1>c, <2>1, <2>2 DEF RouterInv, RowsOK
    <2>6. c.config = configs[c.agent] \/ c.agent \in raced \union clearing
        BY <1>a, <2>1 DEF RowPresent
    <2>7. StaleNeedsRace'
        BY <1>c, <2>1, <2>2, <2>6 DEF RouterInv, RowsOK, StaleNeedsRace
    <2>8. \A u \in Callers : CallOK(call'[u]) /\ RowPresent(call'[u])
        BY <2>3, <2>4 DEF RouterInv, CallsOK
    <2>9. \A u \in Callers : CallOK(call[u])' /\ RowPresent(call[u])'
        BY <2>1, <2>8 DEF CallOK, RowPresent
    <2> QED
        BY <1>b, <2>1, <2>3, <2>4, <2>5, <2>7, <2>9 DEF RouterInv, CallsOK
<1>4. CASE PrimaryCall(t)
    <2>1. UNCHANGED table /\ usage' \in Nat /\ late' \in Nat /\ c.pc = "primary"
        BY <1>4, <1>a DEF PrimaryCall, spending
    <2>2. ASSUME NEW confidence \in Confidences, NEW v \in Verdicts,
                 call' = [call EXCEPT ![t].pc = "usage", ![t].confidence = confidence,
                                      ![t].verdict = v, ![t].attempt = 0]
          PROVE  /\ RouterInv' /\ call'[t].pc # "idle"
                 /\ \A u \in Callers : u # t => call'[u] = call[u]
        <3> DEFINE x == [c EXCEPT !.pc = "usage", !.confidence = confidence, !.verdict = v,
                                  !.attempt = 0]
        <3>0. 0 \in 0 .. MaxRetries
            BY RouterAssumption
        <3>1. CallOK(x) /\ RowPresent(x) /\ x.pc # "idle"
            BY <1>a, <2>1, <3>0 DEF CallOK, CallType, RowPresent
        <3>2. call' = [call EXCEPT ![t] = x]
            BY <2>2
        <3> HIDE DEF x
        <3> QED
            BY <1>d, <2>1, <3>1, <3>2
    <2>3. CASE AttemptFails(t, c.config.primary)
        BY <1>b, <2>1, <2>3, FailureMoves
    <2>4. CASE Goto(t, "raised")
        BY <1>b, <1>e, <2>1, <2>4
    <2> QED
        BY <1>4, <1>b, <2>2, <2>3, <2>4 DEF PrimaryCall
<1>5. CASE RecordPrimary(t)
    BY <1>5, <1>a, <1>b, <1>e DEF RecordPrimary, RecordUsage
<1>6. CASE CheckBudget(t)
    BY <1>6, <1>a, <1>b, <1>e DEF CheckBudget, spending
<1>7. CASE EscalationCall(t)
    <2>1. UNCHANGED table /\ usage' \in Nat /\ late' \in Nat /\ c.pc = "escalate"
        BY <1>7, <1>a DEF EscalationCall
    <2>2. ASSUME NEW confidence \in Confidences, NEW v \in Verdicts,
                 call' = [call EXCEPT ![t] =
                        IF confidence > @.confidence
                          THEN [@ EXCEPT !.pc = "escUsage", !.confidence = confidence, !.verdict = v,
                                         !.escalated = TRUE]
                          ELSE [@ EXCEPT !.pc = "escUsage", !.escalated = TRUE]]
          PROVE  /\ RouterInv' /\ call'[t].pc # "idle"
                 /\ \A u \in Callers : u # t => call'[u] = call[u]
        <3> DEFINE x == [c EXCEPT !.pc = "escUsage", !.confidence = confidence, !.verdict = v,
                                  !.escalated = TRUE]
                   y == [c EXCEPT !.pc = "escUsage", !.escalated = TRUE]
        <3>1. CallOK(x) /\ RowPresent(x) /\ x.pc # "idle"
            BY <1>a, <2>1 DEF CallOK, CallType, RowPresent
        <3>2. CallOK(y) /\ RowPresent(y) /\ y.pc # "idle"
            BY <1>a, <2>1 DEF CallOK, CallType, RowPresent
        <3>3. call' = [call EXCEPT ![t] = x] \/ call' = [call EXCEPT ![t] = y]
            BY <2>2
        <3> HIDE DEF x, y
        <3> QED
            BY <1>d, <2>1, <3>1, <3>2, <3>3
    <2>3. CASE AttemptFails(t, c.config.escalation)
        BY <1>b, <2>1, <2>3, FailureMoves
    <2>4. CASE Goto(t, "raised")
        BY <1>b, <1>e, <2>1, <2>4
    <2> QED
        BY <1>7, <1>b, <2>2, <2>3, <2>4 DEF EscalationCall
<1>8. CASE RecordEscalation(t)
    BY <1>8, <1>a, <1>b, <1>e DEF RecordEscalation, RecordUsage
<1> QED
    BY <1>1, <1>2, <1>3, <1>4, <1>5, <1>6, <1>7, <1>8 DEF RouterStep

\* A configuration with allowed changes is a configuration.
LEMMA MergedIsConfig ==
    ASSUME NEW row \in Configs, NEW changes, Allowed(changes)
    PROVE  Merged(row, changes) \in Configs
<1> DEFINE F == {"mode", "primary", "escalation", "threshold", "active"}
           m == Merged(row, changes)
           At(f) == IF f \in DOMAIN changes THEN changes[f] ELSE row[f]
<1>1. DOMAIN row = F
    BY DEF Configs
<1>2. m = [mode |-> At("mode"), primary |-> At("primary"), escalation |-> At("escalation"),
           threshold |-> At("threshold"), active |-> At("active")]
    BY <1>1 DEF Merged
<1>3. /\ At("mode") \in {"fixed", "escalation"} /\ At("primary") \in Models
      /\ At("escalation") \in Models \union {None}
      /\ At("threshold") \in Nat \union {None}
    BY DEF Allowed, Configs
<1>4. At("active") \in BOOLEAN
    <2>1. CASE "active" \in DOMAIN changes
        BY <2>1 DEF Allowed
    <2>2. CASE "active" \notin DOMAIN changes
        BY <2>2 DEF Configs
    <2> QED
        BY <2>1, <2>2
<1> HIDE DEF At
<1> QED
    BY <1>2, <1>3, <1>4 DEF Configs

\* The endpoints of the configuration, and the end of an entry's time.
LEMMA AdminSteps ==
    ASSUME RouterInv, AdminStep
    PROVE  RouterInv' /\ UNCHANGED call
<1>a. RowsOK /\ CallsOK /\ StaleNeedsRace
    BY DEF RouterInv
<1>b. UNCHANGED <<call, usage, late>>
    BY DEF AdminStep, UpdateConfig, ResetConfigs, ClearCache, Expire, spending
<1>c. ASSUME RowsOK', StaleNeedsRace',
             \A t \in Callers : call[t].pc = "fill" =>
                \/ call[t].config = configs'[call[t].agent]
                \/ call[t].agent \in raced' \union clearing'
      PROVE  RouterInv'
    <2>1. \A t \in Callers : RowPresent(call[t])'
        BY <1>b, <1>c DEF RowPresent
    <2>2. \A t \in Callers : CallOK(call[t])'
        BY <1>a, <1>b DEF CallsOK, CallOK
    <2> QED
        BY <1>a, <1>b, <1>c, <2>1, <2>2 DEF RouterInv, CallsOK
<1>d. \A t \in Callers : call[t].pc = "fill" => call[t].agent \in Agents /\ RowPresent(call[t])
    BY <1>a DEF CallsOK, CallOK
<1>1. ASSUME NEW u \in updates \ {Reset}, UpdateConfig(u[1], u[2])
      PROVE  RouterInv'
    <2>1. /\ u[1] \in Agents /\ Allowed(u[2])
          /\ UNCHANGED <<cache, raced>> /\ updates' \subseteq updates
        BY <1>a, <1>1 DEF RowsOK, UpdateConfig
    <2>2. CASE configs[u[1]] = None
        <3>1. UNCHANGED <<configs, clearing>>
            BY <1>1, <2>2 DEF UpdateConfig
        <3> QED
            BY <1>a, <1>c, <1>d, <2>1, <3>1 DEF RowsOK, StaleNeedsRace, RowPresent
    <2>3. CASE configs[u[1]] # None
        <3>1. /\ configs' = [configs EXCEPT ![u[1]] = Merged(@, u[2])]
              /\ clearing' = clearing \union {u[1]}
            BY <1>1, <2>3 DEF UpdateConfig
        <3>2. Merged(configs[u[1]], u[2]) \in Configs
            BY <1>a, <2>1, <2>3, MergedIsConfig DEF RowsOK
        <3>3. RowsOK' /\ \A a \in Agents : a # u[1] => configs'[a] = configs[a]
            BY <1>a, <2>1, <3>1, <3>2 DEF RowsOK
        <3>4. StaleNeedsRace'
            BY <1>a, <2>1, <3>1, <3>3 DEF StaleNeedsRace
        <3> QED
            BY <1>c, <1>d, <2>1, <3>1, <3>3, <3>4 DEF RowPresent
    <2> QED
        BY <2>2, <2>3
<1>2. CASE ResetConfigs
    <2>1. /\ configs' = Defaults /\ clearing' = Agents /\ UNCHANGED <<cache, raced>>
          /\ updates' \subseteq updates
        BY <1>2 DEF ResetConfigs
    <2>2. RowsOK'
        BY <1>a, <2>1, RouterAssumption DEF RowsOK
    <2>3. StaleNeedsRace'
        BY <2>1 DEF StaleNeedsRace
    <2>4. \A t \in Callers : call[t].pc = "fill" => call[t].agent \in clearing'
        BY <1>d, <2>1
    <2> QED
        BY <1>b, <1>c, <2>2, <2>3, <2>4
<1>3. CASE ClearCache
    <2>1. PICK batch \in SUBSET clearing :
            /\ clearing' = clearing \ batch /\ UNCHANGED <<configs, updates>>
            /\ \/ /\ cache' = [a \in Agents |-> IF a \in batch THEN None ELSE cache[a]]
                  /\ raced' = raced \union {a \in batch : FillPending(a)}
               \/ UNCHANGED cache /\ raced' = raced \union batch
        BY <1>3 DEF ClearCache
    <2>2. CASE /\ cache' = [a \in Agents |-> IF a \in batch THEN None ELSE cache[a]]
               /\ raced' = raced \union {a \in batch : FillPending(a)}
        <3>1. RowsOK'
            BY <1>a, <2>1, <2>2 DEF RowsOK
        <3>2. StaleNeedsRace'
            BY <1>a, <2>1, <2>2 DEF StaleNeedsRace
        <3>3. ASSUME NEW t \in Callers, call[t].pc = "fill", call[t].config # configs[call[t].agent]
              PROVE  call[t].agent \in raced' \union clearing'
            <4>1. call[t].agent \in raced \union clearing
                BY <1>d, <3>3 DEF RowPresent
            <4>2. FillPending(call[t].agent)
                BY <3>3 DEF FillPending
            <4> QED
                BY <2>1, <2>2, <4>1, <4>2
        <3> QED
            BY <1>b, <1>c, <2>1, <3>1, <3>2, <3>3
    <2>3. CASE UNCHANGED cache /\ raced' = raced \union batch
        <3>1. RowsOK' /\ StaleNeedsRace'
            BY <1>a, <2>1, <2>3 DEF RowsOK, StaleNeedsRace
        <3>2. \A t \in Callers : call[t].pc = "fill" =>
                \/ call[t].config = configs[call[t].agent]
                \/ call[t].agent \in raced' \union clearing'
            BY <1>d, <2>1, <2>3 DEF RowPresent
        <3> QED
            BY <1>b, <1>c, <2>1, <3>1, <3>2
    <2> QED
        BY <2>1, <2>2, <2>3
<1>4. ASSUME NEW agent \in Agents, Expire(agent)
      PROVE  RouterInv'
    BY <1>a, <1>c, <1>d, <1>4 DEF RowsOK, StaleNeedsRace, RowPresent, Expire
<1> QED
    BY <1>b, <1>1, <1>2, <1>3, <1>4 DEF AdminStep

\* Route and the end of a call.
LEMMA CallBeginsOrEnds ==
    ASSUME RouterInv, NEW t \in Callers, UNCHANGED <<table, spending>>,
           \/ call' = [call EXCEPT ![t] = Idle]
           \/ \E a \in Agents : Route(t, a)
    PROVE  RouterInv'
<1> DEFINE Begun(a) == [Idle EXCEPT !.pc = "cache", !.agent = a]
<1>0. 0 \in 0 .. MaxRetries /\ usage' \in Nat /\ late' \in Nat
    BY RouterAssumption DEF RouterInv, CallsOK, spending
<1>1. CallOK(Idle) /\ RowPresent(Idle)
    BY <1>0 DEF CallOK, CallType, Idle, Judging, Engaged, RowPresent
<1>2. \A a \in Agents : CallOK(Begun(a)) /\ RowPresent(Begun(a))
    BY <1>0 DEF CallOK, CallType, Idle, Judging, Engaged, RowPresent
<1>3. CASE call' = [call EXCEPT ![t] = Idle]
    BY <1>0, <1>1, <1>3, CallMoves
<1>4. ASSUME NEW a \in Agents, Route(t, a)
      PROVE  RouterInv'
    <2>1. call' = [call EXCEPT ![t] = Begun(a)]
        BY <1>4 DEF Route
    <2> HIDE DEF Begun
    <2> QED
        BY <1>0, <1>2, <2>1, CallMoves
<1> QED
    BY <1>3, <1>4

---------------------------------------------------------------------------
(* The pipeline                                                            *)

Statuses == {"pending", "running", "ok", "error"}
TaskType == [stage : Stages \union {None}, status : Statuses]

\* What a judgment at a stage rests on.
Trail(t, stage) ==
    /\ stage # "market" => Filed(<<<<t[1], Market>>, "market">>)
    /\ stage \in {"risk", "trade"} => Judged(<<t, "stock">>, "go")
    /\ stage = "trade" => Judged(<<t, "risk">>, "go")

LogInv ==
    \A d \in log : /\ d.id \in Tasks \X Stages /\ d.decision \in Verdicts
                   /\ d.parent = Parent(d.id[1], d.id[2])
                   /\ Trail(d.id[1], d.id[2])

\* The judgments that are still to come.
Ahead(stage) ==
    CASE stage = "market" -> {"market"}
      [] stage = "stock" -> {"stock", "risk", "trade"}
      [] stage = "risk" -> {"risk", "trade"}
      [] stage = "trade" -> {"trade"}

TaskInv(t) ==
    /\ task[t].status = "pending" => \A stage \in Stages : ~ Filed(<<t, stage>>)
    /\ task[t].status # "pending" =>
         /\ task[t].stage \in IF t[2] = Market THEN {"market"} ELSE Stages \ {"market"}
         /\ Trail(t, task[t].stage)
    /\ task[t].status = "ok" => Filed(<<t, task[t].stage>>)
    /\ task[t].status \in {"running", "error"} =>
         \A stage \in Ahead(task[t].stage) : ~ Filed(<<t, stage>>)

SessionInv(s) ==
    /\ session[s] = "new" => task[<<s, Market>>].status = "pending"
    /\ session[s] # "new" => symbolsOf[s] # None
    /\ session[s] \in {"symbols", "done"} => Filed(<<<<s, Market>>, "market">>)

PipelineShape ==
    /\ session \in [Sessions -> {"new", "market", "symbols", "done", "aborted"}]
    /\ symbolsOf \in [Sessions -> (SUBSET Symbols) \union {None}]
    /\ task \in [Tasks -> TaskType]

RunningInv == \A t \in Tasks : task[t].status = "running" <=> call[t].pc # "idle"

TrailInv ==
    /\ PipelineShape /\ LogInv
    /\ \A t \in Tasks : TaskInv(t)
    /\ \A s \in Sessions : SessionInv(s)

PipelineInv == RouterInv /\ RunningInv /\ TrailInv

---------------------------------------------------------------------------
\* What is filed stays filed.
LEMMA TrailGrows ==
    ASSUME log \subseteq log', NEW t, NEW stage, Trail(t, stage)
    PROVE  Trail(t, stage)'
BY DEF Trail, Filed, Judged

\* A row of its own is filed and no other.
LEMMA FiledGrows ==
    ASSUME NEW d, log' = log \union {d}
    PROVE  \A id : Filed(id)' <=> (Filed(id) \/ id = d.id)
BY DEF Filed

\* Nothing has begun.
LEMMA PipelineInit == Init => PipelineInv
<1> SUFFICES ASSUME Init PROVE PipelineInv
    OBVIOUS
<1>1. PICK x \in Scenarios : symbolsOf = x.symbols /\ configs = x.rows /\ updates = x.updates
    BY DEF Init
<1>2. /\ symbolsOf \in [Sessions -> (SUBSET Symbols) \union {None}]
      /\ configs \in [Agents -> Configs \union {None}]
      /\ \A u \in updates \ {Reset} : u[1] \in Agents /\ Allowed(u[2])
    BY <1>1, ScenariosAssumption
<1>3. RouterInv /\ \A t \in Callers : call[t].pc = "idle"
    BY <1>2, RouterInitInv DEF Init
<1>4. /\ session = [s \in Sessions |-> "new"] /\ log = {}
      /\ task = [t \in Tasks |-> [stage |-> None, status |-> "pending"]]
    BY DEF Init
<1>5. \A t \in Tasks : task[t] \in TaskType /\ task[t].status = "pending"
    BY <1>4 DEF TaskType, Statuses
<1>6. task \in [Tasks -> TaskType]
    BY <1>4, <1>5
<1>7. PipelineShape
    BY <1>2, <1>4, <1>6 DEF PipelineShape
<1>8. RunningInv
    BY <1>3, <1>5, PipelineAssumption DEF RunningInv
<1>9. LogInv /\ \A t \in Tasks : TaskInv(t)
    BY <1>4, <1>5 DEF LogInv, TaskInv, Filed
<1>10. ASSUME NEW s \in Sessions PROVE SessionInv(s)
    <2>1. <<s, Market>> \in Tasks /\ session[s] = "new"
        BY <1>4 DEF Tasks
    <2> QED
        BY <1>5, <2>1 DEF SessionInv
<1> QED
    BY <1>3, <1>7, <1>8, <1>9, <1>10 DEF PipelineInv, TrailInv

\* Steps that leave the pipeline alone.
LEMMA TrailStutter ==
    ASSUME TrailInv, UNCHANGED <<session, symbolsOf, task, log>>
    PROVE  TrailInv'
<1>1. PipelineShape' /\ LogInv'
    BY DEF TrailInv, PipelineShape, LogInv, Trail, Filed, Judged
<1>2. \A t \in Tasks : TaskInv(t)'
    BY DEF TrailInv, TaskInv, Trail, Filed, Judged
<1>3. \A s \in Sessions : SessionInv(s)'
    BY DEF TrailInv, SessionInv, Filed
<1> QED
    BY <1>1, <1>2, <1>3 DEF TrailInv

\* A task that begins its next stage.
LEMMA AnalyzeStep ==
    ASSUME RouterInv, RunningInv, PipelineShape, NEW t \in Tasks, NEW stage \in Stages,
           Analyze(t, stage), UNCHANGED <<table, spending>>
    PROVE  /\ RouterInv' /\ RunningInv' /\ task' \in [Tasks -> TaskType]
           /\ task'[t].stage = stage /\ task'[t].status = "running"
           /\ \A u \in Tasks : u # t => task'[u] = task[u]
<1>1. t \in Callers /\ AgentOf(stage) \in Agents /\ Callers = Tasks
    BY PipelineAssumption DEF AgentOf, Stages
<1>2. RouterInv'
    BY <1>1, CallBeginsOrEnds DEF Analyze
<1>3. [stage |-> stage, status |-> "running"] \in TaskType
    BY DEF TaskType, Statuses
<1>4. /\ task' \in [Tasks -> TaskType]
      /\ task'[t].stage = stage /\ task'[t].status = "running"
      /\ \A u \in Tasks : u # t => task'[u] = task[u]
    BY <1>3 DEF Analyze, PipelineShape
<1>5. /\ call'[t].pc = "cache" /\ \A u \in Tasks : u # t => call'[u] = call[u]
    BY <1>1 DEF Analyze, Route, Idle, RouterInv, CallsOK
<1>6. RunningInv'
    BY <1>4, <1>5 DEF RunningInv
<1> QED
    BY <1>2, <1>4, <1>6

\* A task that ends.
LEMMA DoneStep ==
    ASSUME RouterInv, RunningInv, PipelineShape, NEW t \in Tasks, NEW status \in {"ok", "error"},
           Done(t, status), UNCHANGED <<table, spending>>
    PROVE  /\ RouterInv' /\ RunningInv' /\ task' \in [Tasks -> TaskType]
           /\ task'[t].stage = task[t].stage /\ task'[t].status = status
           /\ \A u \in Tasks : u # t => task'[u] = task[u]
<1>1. t \in Callers /\ Callers = Tasks
    BY PipelineAssumption
<1>2. RouterInv'
    BY <1>1, CallBeginsOrEnds DEF Done
<1>3. /\ task' \in [Tasks -> TaskType]
      /\ task'[t].stage = task[t].stage /\ task'[t].status = status
      /\ \A u \in Tasks : u # t => task'[u] = task[u]
    BY DEF Done, PipelineShape, TaskType, Statuses
<1>4. call'[t].pc = "idle" /\ \A u \in Tasks : u # t => call'[u] = call[u]
    BY <1>1 DEF Done, Idle, RouterInv, CallsOK
<1>5. RunningInv'
    BY <1>3, <1>4 DEF RunningInv
<1> QED
    BY <1>2, <1>3, <1>5

\* Execute begins with the market.
LEMMA ExecuteStep ==
    ASSUME PipelineInv, NEW s \in Sessions, Execute(s)
    PROVE  PipelineInv'
<1> DEFINE m == <<s, Market>>
<1>1. /\ m \in Tasks /\ "market" \in Stages
      /\ session[s] = "new" /\ symbolsOf[s] # None
      /\ session' = [session EXCEPT ![s] = "market"]
      /\ UNCHANGED <<symbolsOf, log>>
    BY DEF Execute, Tasks, Stages
<1>2. /\ RouterInv' /\ RunningInv' /\ task' \in [Tasks -> TaskType]
      /\ task'[m].stage = "market" /\ task'[m].status = "running"
      /\ \A u \in Tasks : u # m => task'[u] = task[u]
    BY <1>1, AnalyzeStep DEF PipelineInv, TrailInv, Execute
<1>3. PipelineShape'
    BY <1>1, <1>2 DEF PipelineInv, TrailInv, PipelineShape
<1>4. LogInv'
    BY <1>1 DEF PipelineInv, TrailInv, LogInv, Trail, Filed, Judged
<1>5. ASSUME NEW t \in Tasks
      PROVE  TaskInv(t)'
    <2>1. CASE t = m
        <3>1. \A stage \in Stages : ~ Filed(<<m, stage>>)
            BY <1>1 DEF PipelineInv, TrailInv, TaskInv, SessionInv
        <3>2. m[2] = Market /\ \A stage \in Ahead("market") : stage \in Stages
            BY DEF Ahead, Stages
        <3> QED
            BY <1>1, <1>2, <2>1, <3>1, <3>2 DEF TaskInv, Trail, Filed
    <2>2. CASE t # m
        <3>1. TaskInv(t) /\ task'[t] = task[t]
            BY <1>2, <2>2 DEF PipelineInv, TrailInv
        <3> QED
            BY <1>1, <3>1 DEF TaskInv, Trail, Filed, Judged
    <2> QED
        BY <2>1, <2>2
<1>6. ASSUME NEW z \in Sessions
      PROVE  SessionInv(z)'
    <2>1. SessionInv(z) /\ <<z, Market>> \in Tasks
        BY DEF PipelineInv, TrailInv, Tasks
    <2>2. CASE z = s
        BY <1>1, <2>2 DEF SessionInv, PipelineInv, TrailInv, PipelineShape
    <2>3. CASE z # s
        <3>1. session'[z] = session[z] /\ <<z, Market>> # m
            BY <1>1, <2>3 DEF PipelineInv, TrailInv, PipelineShape
        <3> QED
            BY <1>1, <1>2, <2>1, <3>1 DEF SessionInv, Filed
    <2> QED
        BY <2>2, <2>3
<1> QED
    BY <1>2, <1>3, <1>4, <1>5, <1>6 DEF PipelineInv, TrailInv

\* A judgment is filed by a running task: the log stays in order.
LEMMA RecordedStep ==
    ASSUME PipelineInv, NEW t \in Tasks, task[t].status = "running", StageRecorded(t),
           NEW stage, stage = task[t].stage, NEW verdict, verdict = call[t].verdict
    PROVE  /\ LogInv'
           /\ Judged(<<t, stage>>, verdict)' /\ verdict \in Verdicts
           /\ stage \in Stages /\ Trail(t, stage)'
           /\ log \subseteq log'
           /\ \A id : Filed(id)' <=> (Filed(id) \/ id = <<t, stage>>)
<1> DEFINE d == Decision(t, stage)
<1>1. log' = log \union {d} /\ call[t].pc = "answered"
    BY DEF StageRecorded, Answered
<1>2. stage \in Stages /\ Trail(t, stage)
    BY DEF PipelineInv, TrailInv, TaskInv, Stages
<1>3. verdict \in Verdicts
    BY <1>1, PipelineAssumption DEF PipelineInv, RouterInv, CallsOK, CallOK, Judging
<1>4. d.id = <<t, stage>> /\ d.parent = Parent(t, stage)
      /\ d.decision = verdict
    BY DEF Decision
<1> HIDE DEF d
<1>5. \A id : Filed(id)' <=> (Filed(id) \/ id = <<t, stage>>)
    BY <1>1, <1>4, FiledGrows
<1>6. Judged(<<t, stage>>, verdict)'
    BY <1>1, <1>4 DEF Judged
<1>7. Trail(t, stage)'
    BY <1>1, <1>2, TrailGrows
<1>8. ASSUME NEW e \in log'
      PROVE  /\ e.id \in Tasks \X Stages /\ e.decision \in Verdicts
             /\ e.parent = Parent(e.id[1], e.id[2])
             /\ Trail(e.id[1], e.id[2])'
    <2>1. CASE e = d
        BY <1>2, <1>3, <1>4, <1>7, <2>1
    <2>2. CASE e \in log
        <3>1. /\ e.id \in Tasks \X Stages /\ e.decision \in Verdicts
              /\ e.parent = Parent(e.id[1], e.id[2]) /\ Trail(e.id[1], e.id[2])
            BY <2>2 DEF PipelineInv, TrailInv, LogInv
        <3> QED
            BY <1>1, <3>1, TrailGrows
    <2> QED
        BY <1>1, <1>8, <2>1, <2>2
<1>9. LogInv'
    BY <1>8 DEF LogInv, Parent
<1> QED
    BY <1>1, <1>2, <1>3, <1>5, <1>6, <1>7, <1>9

\* The other tasks and executions do not mind a row that is not theirs.
LEMMA OthersStay ==
    ASSUME PipelineInv, NEW t \in Tasks, log \subseteq log',
           \A id : Filed(id)' => Filed(id) \/ id[1] = t,
           \A u \in Tasks : u # t => task'[u] = task[u]
    PROVE  \A u \in Tasks : u # t => TaskInv(u)'
<1> SUFFICES ASSUME NEW u \in Tasks, u # t PROVE TaskInv(u)'
    OBVIOUS
<1>1. TaskInv(u) /\ task'[u] = task[u]
    BY DEF PipelineInv, TrailInv
<1>2. \A stage : Filed(<<u, stage>>)' => Filed(<<u, stage>>)
    <2> SUFFICES ASSUME NEW stage, Filed(<<u, stage>>)' PROVE Filed(<<u, stage>>)
        OBVIOUS
    <2>1. <<u, stage>>[1] = u
        OBVIOUS
    <2> QED
        BY <2>1
<1>3. \A stage : Filed(<<u, stage>>) => Filed(<<u, stage>>)'
    BY DEF Filed
<1>4. PICK stage : stage = task[u].stage
    OBVIOUS
<1>5. Trail(u, stage) => Trail(u, stage)'
    BY TrailGrows
<1> QED
    BY <1>1, <1>2, <1>3, <1>4, <1>5 DEF TaskInv, Ahead

\* What is filed stays filed: executions that do not move keep their invariant.
LEMMA SessionsStay ==
    ASSUME PipelineInv, log \subseteq log', UNCHANGED symbolsOf, NEW s \in Sessions,
           session'[s] = session[s],
           session[s] = "new" => task'[<<s, Market>>] = task[<<s, Market>>]
    PROVE  SessionInv(s)'
BY DEF PipelineInv, TrailInv, SessionInv, Filed

\* The analysis of the market ends.
LEMMA MarketStep ==
    ASSUME PipelineInv, NEW s \in Sessions, MarketDone(s) \/ MarketFails(s)
    PROVE  PipelineInv'
<1> DEFINE m == <<s, Market>>
<1>1. /\ m \in Tasks /\ task[m].status = "running" /\ UNCHANGED <<symbolsOf, table, spending>>
      /\ m[2] = Market /\ m[1] = s
    BY DEF MarketDone, MarketFails, Tasks
<1>2. task[m].stage = "market" /\ Trail(m, "market")
    BY <1>1 DEF PipelineInv, TrailInv, TaskInv
<1>3. PICK verdict : verdict = call[m].verdict
    OBVIOUS
<1>4. CASE MarketDone(s)
    <2>1. StageRecorded(m) /\ Done(m, "ok") /\ session' = [session EXCEPT ![s] = "symbols"]
        BY <1>4 DEF MarketDone
    <2>2. /\ LogInv' /\ log \subseteq log' /\ Trail(m, "market")'
          /\ \A id : Filed(id)' <=> (Filed(id) \/ id = <<m, "market">>)
        BY <1>1, <1>2, <1>3, <2>1, RecordedStep
    <2>3. /\ RouterInv' /\ RunningInv' /\ task' \in [Tasks -> TaskType]
          /\ task'[m].stage = "market" /\ task'[m].status = "ok"
          /\ \A u \in Tasks : u # m => task'[u] = task[u]
        BY <1>1, <1>2, <2>1, DoneStep DEF PipelineInv, TrailInv
    <2>4. PipelineShape'
        BY <1>1, <2>1, <2>3 DEF PipelineInv, TrailInv, PipelineShape
    <2>5. TaskInv(m)'
        BY <1>1, <2>2, <2>3 DEF TaskInv
    <2>6. \A u \in Tasks : u # m => TaskInv(u)'
        <3>1. \A id : Filed(id)' => Filed(id) \/ id[1] = m
            BY <2>2
        <3> QED
            BY <1>1, <2>2, <2>3, <3>1, OthersStay
    <2>7. ASSUME NEW z \in Sessions
          PROVE  SessionInv(z)'
        <3>1. CASE z = s
            <4>1. session'[s] = "symbols" /\ session[s] # "new" /\ Filed(<<m, "market">>)'
                BY <1>1, <2>1, <2>2 DEF PipelineInv, TrailInv, PipelineShape, SessionInv
            <4>2. symbolsOf'[s] # None
                BY <1>1, <4>1 DEF PipelineInv, TrailInv, SessionInv
            <4> QED
                BY <3>1, <4>1, <4>2 DEF SessionInv
        <3>2. CASE z # s
            <4>1. session'[z] = session[z] /\ <<z, Market>> \in Tasks /\ <<z, Market>> # m
                BY <2>1, <3>2 DEF PipelineInv, TrailInv, PipelineShape, Tasks
            <4> QED
                BY <1>1, <2>2, <2>3, <4>1, SessionsStay
        <3> QED
            BY <3>1, <3>2
    <2> QED
        BY <2>2, <2>3, <2>4, <2>5, <2>6, <2>7 DEF PipelineInv, TrailInv
<1>5. CASE MarketFails(s)
    <2>1. Done(m, "error") /\ session' = [session EXCEPT ![s] = "aborted"] /\ UNCHANGED log
        BY <1>5 DEF MarketFails
    <2>3. /\ RouterInv' /\ RunningInv' /\ task' \in [Tasks -> TaskType]
          /\ task'[m].stage = "market" /\ task'[m].status = "error"
          /\ \A u \in Tasks : u # m => task'[u] = task[u]
        BY <1>1, <1>2, <2>1, DoneStep DEF PipelineInv, TrailInv
    <2>4. PipelineShape' /\ LogInv'
        BY <1>1, <2>1, <2>3
           DEF PipelineInv, TrailInv, PipelineShape, LogInv, Trail, Filed, Judged
    <2>5. TaskInv(m)'
        <3>1. \A stage \in Ahead("market") : ~ Filed(<<m, stage>>)
            BY <1>1, <1>2 DEF PipelineInv, TrailInv, TaskInv
        <3> QED
            BY <1>1, <1>2, <2>1, <2>3, <3>1 DEF TaskInv, Trail, Filed, Judged
    <2>6. \A u \in Tasks : u # m => TaskInv(u)'
        BY <1>1, <2>1, <2>3, OthersStay DEF Filed
    <2>7. ASSUME NEW z \in Sessions
          PROVE  SessionInv(z)'
        <3>1. CASE z = s
            <4>1. session'[s] = "aborted" /\ session[s] # "new"
                BY <1>1, <2>1 DEF PipelineInv, TrailInv, PipelineShape, SessionInv
            <4> QED
                BY <1>1, <3>1, <4>1 DEF SessionInv, PipelineInv, TrailInv
        <3>2. CASE z # s
            <4>1. session'[z] = session[z] /\ <<z, Market>> \in Tasks /\ <<z, Market>> # m
                BY <2>1, <3>2 DEF PipelineInv, TrailInv, PipelineShape, Tasks
            <4> QED
                BY <1>1, <2>1, <2>3, <4>1, SessionsStay
        <3> QED
            BY <3>1, <3>2
    <2> QED
        BY <2>3, <2>4, <2>5, <2>6, <2>7 DEF PipelineInv, TrailInv
<1> QED
    BY <1>4, <1>5

\* A symbol that moves: the executions and the other tasks stay as they are.
LEMMA SymbolMoves ==
    ASSUME PipelineInv, NEW t \in Tasks, t[2] # Market,
           UNCHANGED <<session, symbolsOf>>, log \subseteq log',
           \A id : Filed(id)' => Filed(id) \/ id[1] = t,
           task' \in [Tasks -> TaskType],
           \A u \in Tasks : u # t => task'[u] = task[u],
           LogInv', TaskInv(t)'
    PROVE  TrailInv'
<1>1. \A u \in Tasks : TaskInv(u)'
    BY OthersStay
<1>2. PipelineShape'
    BY DEF PipelineInv, TrailInv, PipelineShape
<1>3. ASSUME NEW s \in Sessions
      PROVE  SessionInv(s)'
    <2>1. <<s, Market>> \in Tasks /\ <<s, Market>> # t
        BY DEF Tasks
    <2>2. task'[<<s, Market>>] = task[<<s, Market>>]
        BY <2>1
    <2> QED
        BY <2>2, SessionsStay
<1> QED
    BY <1>1, <1>2, <1>3 DEF TrailInv

\* The stages of a symbol.
LEMMA SymbolSteps ==
    ASSUME PipelineInv, NEW t \in Tasks,
           StartSymbol(t) \/ SymbolStageDone(t) \/ SymbolStageFails(t)
    PROVE  PipelineInv'
<1>a. RouterInv /\ RunningInv /\ PipelineShape /\ LogInv /\ TaskInv(t)
    BY DEF PipelineInv, TrailInv
<1>b. UNCHANGED <<session, symbolsOf, table, spending>>
    BY DEF StartSymbol, SymbolStageDone, SymbolStageFails
<1>c. t = <<t[1], t[2]>> /\ t[1] \in Sessions
    BY DEF Tasks
<1>1. CASE StartSymbol(t)
    <2>1. /\ session[t[1]] = "symbols" /\ t \in Of(t[1]) /\ task[t].status = "pending"
          /\ Analyze(t, "stock") /\ UNCHANGED log /\ "stock" \in Stages
        BY <1>1 DEF StartSymbol, Stages
    <2>2. SessionInv(t[1])
        BY <1>c DEF PipelineInv, TrailInv
    <2>3. t[2] # Market
        <3>1. symbolsOf[t[1]] \subseteq Symbols
            BY <1>a, <1>c, <2>1, <2>2 DEF PipelineShape, SessionInv
        <3>2. t[2] \in symbolsOf[t[1]]
            BY <2>1 DEF Of
        <3> QED
            BY <3>1, <3>2, PipelineAssumption
    <2>4. Trail(t, "stock")
        BY <2>1, <2>2 DEF SessionInv, Trail
    <2>5. /\ RouterInv' /\ RunningInv' /\ task' \in [Tasks -> TaskType]
          /\ task'[t].stage = "stock" /\ task'[t].status = "running"
          /\ \A u \in Tasks : u # t => task'[u] = task[u]
        BY <1>a, <1>b, <2>1, AnalyzeStep
    <2>6. LogInv'
        BY <1>a, <2>1 DEF LogInv, Trail, Filed, Judged
    <2>7. TaskInv(t)'
        <3>1. \A stage \in Ahead("stock") : ~ Filed(<<t, stage>>)
            BY <1>a, <2>1 DEF TaskInv, Ahead, Stages
        <3>2. Trail(t, "stock")'
            BY <2>1, <2>4, TrailGrows
        <3> QED
            BY <2>1, <2>3, <2>5, <3>1, <3>2 DEF TaskInv, Filed
    <2>8. \A id : Filed(id)' => Filed(id) \/ id[1] = t
        BY <2>1 DEF Filed
    <2> QED
        BY <1>b, <2>1, <2>3, <2>5, <2>6, <2>7, <2>8, SymbolMoves DEF PipelineInv
<1>2. CASE SymbolStageDone(t)
    <2>1. t[2] # Market /\ task[t].status = "running" /\ StageRecorded(t)
        BY <1>2 DEF SymbolStageDone
    <2>2. PICK stage, verdict : stage = task[t].stage /\ verdict = call[t].verdict
        OBVIOUS
    <2>3. /\ LogInv' /\ Judged(<<t, stage>>, verdict)' /\ verdict \in Verdicts
          /\ stage \in Stages /\ Trail(t, stage)' /\ log \subseteq log'
          /\ \A id : Filed(id)' <=> (Filed(id) \/ id = <<t, stage>>)
        BY <2>1, <2>2, RecordedStep
    <2>4. stage \in {"stock", "risk", "trade"}
        BY <1>a, <2>1, <2>2 DEF TaskInv, Stages
    <2>5. \A id : Filed(id)' => Filed(id) \/ id[1] = t
        BY <2>3
    <2>6. CASE EndsAt(stage, verdict)
        <3>1. Done(t, "ok")
            BY <1>2, <2>2, <2>6 DEF SymbolStageDone
        <3>2. /\ RouterInv' /\ RunningInv' /\ task' \in [Tasks -> TaskType]
              /\ task'[t].stage = stage /\ task'[t].status = "ok"
              /\ \A u \in Tasks : u # t => task'[u] = task[u]
            BY <1>a, <1>b, <2>2, <3>1, DoneStep
        <3>3. TaskInv(t)'
            BY <2>1, <2>3, <2>4, <3>2 DEF TaskInv, Stages
        <3> QED
            BY <1>b, <2>1, <2>3, <2>5, <3>2, <3>3, SymbolMoves DEF PipelineInv
    <2>7. CASE ~ EndsAt(stage, verdict)
        <3> DEFINE next == NextStage(stage)
        <3>1. /\ Analyze(t, next) /\ stage # "trade" /\ verdict = "go"
              /\ next = (IF stage = "stock" THEN "risk" ELSE "trade")
            BY <1>2, <2>2, <2>3, <2>7 DEF SymbolStageDone, EndsAt, Verdicts, NextStage
        <3>2. next \in Stages \ {"market"}
            BY <3>1 DEF Stages
        <3>3. /\ RouterInv' /\ RunningInv' /\ task' \in [Tasks -> TaskType]
              /\ task'[t].stage = next /\ task'[t].status = "running"
              /\ \A u \in Tasks : u # t => task'[u] = task[u]
            BY <1>a, <1>b, <3>1, <3>2, AnalyzeStep
        <3>4. Trail(t, next)'
            BY <2>3, <2>4, <3>1 DEF Trail
        <3>5. ASSUME NEW k \in Ahead(next)
              PROVE  ~ Filed(<<t, k>>)'
            <4>1. k \in Ahead(stage) /\ k # stage
                BY <2>4, <3>1, <3>5 DEF Ahead
            <4>2. ~ Filed(<<t, k>>)
                BY <1>a, <2>1, <2>2, <4>1 DEF TaskInv
            <4> QED
                BY <2>3, <4>1, <4>2
        <3> HIDE DEF next
        <3>6. TaskInv(t)'
            BY <2>1, <3>2, <3>3, <3>4, <3>5 DEF TaskInv
        <3> QED
            BY <1>b, <2>1, <2>3, <2>5, <3>3, <3>6, SymbolMoves DEF PipelineInv
    <2> QED
        BY <2>6, <2>7
<1>3. CASE SymbolStageFails(t)
    <2>1. t[2] # Market /\ task[t].status = "running" /\ Done(t, "error") /\ UNCHANGED log
        BY <1>3 DEF SymbolStageFails
    <2>2. PICK stage : stage = task[t].stage
        OBVIOUS
    <2>3. /\ stage \in Stages \ {"market"} /\ Trail(t, stage)
          /\ \A k \in Ahead(stage) : ~ Filed(<<t, k>>)
        BY <1>a, <2>1, <2>2 DEF TaskInv
    <2>4. /\ RouterInv' /\ RunningInv' /\ task' \in [Tasks -> TaskType]
          /\ task'[t].stage = stage /\ task'[t].status = "error"
          /\ \A u \in Tasks : u # t => task'[u] = task[u]
        BY <1>a, <1>b, <2>1, <2>2, DoneStep
    <2>5. Trail(t, stage)'
        BY <2>1, <2>3, TrailGrows
    <2>6. TaskInv(t)'
        BY <2>1, <2>3, <2>4, <2>5 DEF TaskInv, Filed
    <2>7. LogInv'
        BY <1>a, <2>1 DEF LogInv, Trail, Filed, Judged
    <2>8. \A id : Filed(id)' => Filed(id) \/ id[1] = t
        BY <2>1 DEF Filed
    <2> QED
        BY <1>b, <2>1, <2>4, <2>6, <2>7, <2>8, SymbolMoves DEF PipelineInv
<1> QED
    BY <1>1, <1>2, <1>3

\* gather returns.
LEMMA FinishStep ==
    ASSUME PipelineInv, NEW s \in Sessions, Finish(s)
    PROVE  PipelineInv'
<1>1. /\ session[s] = "symbols" /\ session' = [session EXCEPT ![s] = "done"]
      /\ UNCHANGED <<symbolsOf, task, log, table, usage, late, call>>
    BY DEF Finish, routerVars, spending
<1>2. RouterInv'
    BY <1>1 DEF PipelineInv, RouterInv, RowsOK, CallsOK, CallOK, RowPresent, StaleNeedsRace, table
<1>3. RunningInv' /\ PipelineShape'
    BY <1>1 DEF PipelineInv, TrailInv, RunningInv, PipelineShape
<1>4. LogInv' /\ \A t \in Tasks : TaskInv(t)'
    BY <1>1 DEF PipelineInv, TrailInv, LogInv, TaskInv, Trail, Filed, Judged
<1>5. ASSUME NEW z \in Sessions
      PROVE  SessionInv(z)'
    BY <1>1 DEF PipelineInv, TrailInv, PipelineShape, SessionInv, Filed
<1> QED
    BY <1>2, <1>3, <1>4, <1>5 DEF PipelineInv, TrailInv

\* Every step keeps the invariant.
LEMMA PipelineNext == PipelineInv /\ [Next]_vars => PipelineInv'
<1> SUFFICES ASSUME PipelineInv, [Next]_vars PROVE PipelineInv'
    OBVIOUS
<1>a. RouterInv /\ RunningInv /\ TrailInv /\ Callers = Tasks
    BY PipelineAssumption DEF PipelineInv
<1>1. ASSUME NEW t \in Tasks, RouterStep(t), UNCHANGED pipeline
      PROVE  PipelineInv'
    <2>1. /\ RouterInv' /\ call[t].pc # "idle" /\ call'[t].pc # "idle"
          /\ \A u \in Callers : u # t => call'[u] = call[u]
        BY <1>a, <1>1, RouterSteps
    <2>2. RunningInv'
        BY <1>a, <1>1, <2>1 DEF RunningInv, pipeline
    <2> QED
        BY <1>a, <1>1, <2>1, <2>2, TrailStutter DEF PipelineInv, pipeline
<1>2. CASE AdminStep /\ UNCHANGED pipeline
    <2>1. RouterInv' /\ UNCHANGED call
        BY <1>a, <1>2, AdminSteps
    <2>2. RunningInv'
        BY <1>a, <1>2, <2>1 DEF RunningInv, pipeline
    <2> QED
        BY <1>a, <1>2, <2>1, <2>2, TrailStutter DEF PipelineInv, pipeline
<1>3. CASE UNCHANGED vars
    <2>1. UNCHANGED <<table, usage, late, call, session, symbolsOf, task, log>>
        BY <1>3 DEF vars, routerVars, spending, pipeline
    <2>2. RouterInv' /\ RunningInv'
        BY <1>a, <2>1 DEF RouterInv, RowsOK, CallsOK, CallOK, RowPresent, StaleNeedsRace, table,
                          RunningInv
    <2> QED
        BY <1>a, <2>1, <2>2, TrailStutter DEF PipelineInv
<1> QED
    BY <1>1, <1>2, <1>3, ExecuteStep, MarketStep, SymbolSteps, FinishStep
       DEF Next, TaskStep, SessionStep

\* The invariant holds in every state.
LEMMA PipelineInvariant == Spec => []PipelineInv
BY PipelineInit, PipelineNext, PTL DEF Spec

---------------------------------------------------------------------------
\* Every state is well formed, and a task is analysed exactly while its
\* coroutine is inside route_structured (_run_symbol_pipeline).
THEOREM PipelineTypes == Spec => []PipelineTypeOK
<1>1. ASSUME PipelineInv
      PROVE  PipelineTypeOK
    <2>1. RouterTypeOK
        <3>1. \A t \in Callers : CallOK(call[t])
            BY <1>1 DEF PipelineInv, RouterInv, CallsOK
        <3>2. \A a \in Agents : cache[a] = None \/ (cache[a].config \in Configs
                                               /\ cache[a].expires \in BOOLEAN)
            BY <1>1 DEF PipelineInv, RouterInv, RowsOK, Entries
        <3>3. None \notin Confidences
            BY RouterAssumption
        <3>4. ASSUME NEW t \in Callers
              PROVE  /\ call[t].attempt \in 0 .. MaxRetries
                     /\ call[t].confidence \in Confidences \union {None}
                     /\ call[t].pc \in Engaged => call[t].config \in Configs /\ call[t].config.active
                     /\ call[t].pc \in Judging =>
                          call[t].confidence # None /\ call[t].verdict \in Verdicts
            BY <3>1, <3>3 DEF CallOK, CallType
        <3> QED
            BY <1>1, <3>2, <3>4
               DEF RouterTypeOK, PipelineInv, RouterInv, RowsOK, CallsOK, Engaged, Judging
    <2>2. \A t \in Tasks : /\ task[t].stage \in Stages \union {None}
                           /\ task[t].status \in {"pending", "running", "ok", "error"}
                           /\ task[t].status = "running" <=> call[t].pc # "idle"
        BY <1>1 DEF PipelineInv, TrailInv, PipelineShape, TaskType, Statuses, RunningInv
    <2>3. \A d \in log : d.id \in Tasks \X Stages /\ d.decision \in Verdicts
        BY <1>1 DEF PipelineInv, TrailInv, LogInv
    <2>4. session \in [Sessions -> {"new", "market", "symbols", "done", "aborted"}]
        BY <1>1 DEF PipelineInv, TrailInv, PipelineShape
    <2> QED
        BY <2>1, <2>2, <2>3, <2>4 DEF PipelineTypeOK
<1> QED
    BY <1>1, PipelineInvariant, PTL

\* A configuration in Redis differs from its row only after a fill that lost
\* its race or a deletion that failed, for any number of callers and requests
\* (_get_agent_config, update_config, reset_configs).
THEOREM StaleConfigNeedsRace == Spec => []StaleNeedsRace
<1>1. PipelineInv => StaleNeedsRace
    BY DEF PipelineInv, RouterInv
<1> QED
    BY <1>1, PipelineInvariant, PTL

\* The audit trail is complete, for any number of executions, symbols and
\* failures (execute, _run_symbol_pipeline, DecisionRecorder.record).
THEOREM TrailIsComplete == Spec => []AuditTrailComplete
<1>1. ASSUME PipelineInv
      PROVE  AuditTrailComplete
    <2>1. ASSUME NEW d \in log
          PROVE  LET t == d.id[1]
                     stage == d.id[2]
                 IN  CASE stage = "market" -> d.parent = None
                       [] stage = "stock" -> d.parent[1][1] = t[1] /\ Filed(d.parent)
                       [] stage = "risk" -> d.parent = <<t, "stock">> /\ Judged(d.parent, "go")
                       [] stage = "trade" -> d.parent = <<t, "risk">> /\ Judged(d.parent, "go")
        <3>1. /\ d.id[2] \in {"market", "stock", "risk", "trade"}
              /\ d.parent = Parent(d.id[1], d.id[2]) /\ Trail(d.id[1], d.id[2])
            BY <1>1 DEF PipelineInv, TrailInv, LogInv, Stages
        <3>2. PICK t, stage : t = d.id[1] /\ stage = d.id[2]
            OBVIOUS
        <3>3. CASE stage = "market"
            BY <3>1, <3>2, <3>3 DEF Parent
        <3>4. CASE stage = "stock"
            <4>1. d.parent = <<<<t[1], Market>>, "market">> /\ Filed(d.parent)
                BY <3>1, <3>2, <3>4 DEF Parent, Trail
            <4> QED
                BY <3>2, <3>4, <4>1
        <3>5. CASE stage = "risk"
            BY <3>1, <3>2, <3>5 DEF Parent, Trail
        <3>6. CASE stage = "trade"
            BY <3>1, <3>2, <3>6 DEF Parent, Trail
        <3> QED
            BY <3>1, <3>2, <3>3, <3>4, <3>5, <3>6
    <2>2. ASSUME NEW s \in Sessions, session[s] = "done"
          PROVE  /\ \A t \in TradeDecisions(s) :
                      /\ Filed(<<t, "trade">>) /\ Judged(<<t, "risk">>, "go")
                      /\ Judged(<<t, "stock">>, "go") /\ Filed(<<<<s, Market>>, "market">>)
                 /\ \A t \in Analyzed(s) : Filed(<<t, task[t].stage>>)
                 /\ \A t \in Skipped(s) : ~ Filed(<<t, task[t].stage>>)
        <3>1. symbolsOf[s] \subseteq Symbols /\ Filed(<<<<s, Market>>, "market">>)
            BY <1>1, <2>2 DEF PipelineInv, TrailInv, PipelineShape, SessionInv
        <3>2. \A t \in Of(s) : t \in Tasks
            BY <3>1 DEF Of, Tasks
        <3>3. \A t \in Of(s) : TaskInv(t)
            BY <1>1, <3>2 DEF PipelineInv, TrailInv
        <3>4. \A t \in Analyzed(s) : t \in Of(s) /\ task[t].status = "ok"
            BY DEF Analyzed
        <3>5. \A t \in Analyzed(s) : Filed(<<t, task[t].stage>>) /\ Trail(t, task[t].stage)
            BY <3>3, <3>4 DEF TaskInv
        <3>6. \A t \in TradeDecisions(s) : t \in Analyzed(s) /\ task[t].stage = "trade"
            BY DEF TradeDecisions
        <3>7. \A t \in Skipped(s) : ~ Filed(<<t, task[t].stage>>)
            <4> SUFFICES ASSUME NEW t \in Skipped(s) PROVE ~ Filed(<<t, task[t].stage>>)
                OBVIOUS
            <4>1. t \in Of(s) /\ task[t].status = "error"
                BY DEF Skipped
            <4>2. task[t].stage \in Stages /\ \A k \in Ahead(task[t].stage) : ~ Filed(<<t, k>>)
                BY <3>3, <4>1 DEF TaskInv, Stages
            <4>3. task[t].stage \in Ahead(task[t].stage)
                BY <4>2 DEF Ahead, Stages
            <4> QED
                BY <4>2, <4>3
        <3> QED
            BY <3>1, <3>5, <3>6, <3>7 DEF Trail
    <2> QED
        BY <2>1, <2>2 DEF AuditTrailComplete
<1> QED
    BY <1>1, PipelineInvariant, PTL

---------------------------------------------------------------------------
(* The budget                                                              *)

Executions == {s \in Sessions : symbolsOf[s] # None}
Running == {t \in Tasks : task[t].status = "running"}
InFlight(s) == {t \in Of(s) : task[t].status = "running"}

\* The semaphore of an execution bounds its coroutines; the analysis of the
\* market runs alone.
SlotInv ==
    /\ concurrency \in Nat \ {0} /\ Executions # {}
    /\ \A s \in Sessions : task[<<s, Market>>].status = "running" => session[s] = "market"
    /\ \A t \in Tasks : t[2] # Market /\ task[t].status = "running" =>
         session[t[1]] = "symbols" /\ t \in Of(t[1])
    /\ \A s \in Executions : Cardinality(InFlight(s)) <= concurrency

\* Coroutines that have read the budget and have not sent their escalation.
Escalating == {t \in Tasks : call[t].pc = "escalate" /\ call[t].attempt = 0}

\* Once the budget is used up nobody joins them, and who sends leaves them.
BudgetInv ==
    /\ late > 0 => Budget > 0 /\ usage >= Budget
    /\ Budget > 0 /\ usage >= Budget =>
         late + Cardinality(Escalating) <= Cardinality(Executions) * concurrency - 1

EscalationInv == SlotInv /\ BudgetInv

\* There are finitely many coroutines.
LEMMA FiniteTasks ==
    /\ IsFiniteSet(Tasks) /\ IsFiniteSet(Executions) /\ IsFiniteSet(Running)
    /\ IsFiniteSet(Escalating)
<1>1. IsFiniteSet(Symbols \union {Market})
    BY PipelineAssumption, FS_AddElement
<1>2. IsFiniteSet(Tasks)
    BY <1>1, PipelineAssumption, FS_Product DEF Tasks
<1> QED
    BY <1>2, PipelineAssumption, FS_Subset DEF Executions, Running, Escalating

\* No more coroutines run than the semaphores of the executions let in.
LEMMA RunningBound ==
    ASSUME PipelineInv, SlotInv
    PROVE  Cardinality(Running) <= Cardinality(Executions) * concurrency
<1>1. \A t \in Running : t[1] \in Executions /\ t = <<t[1], t[2]>> /\ t[1] \in Sessions
    <2> SUFFICES ASSUME NEW t \in Running
                 PROVE  t[1] \in Executions /\ t = <<t[1], t[2]>> /\ t[1] \in Sessions
        OBVIOUS
    <2>1. t \in Tasks /\ t = <<t[1], t[2]>> /\ t[1] \in Sessions /\ task[t].status = "running"
        BY DEF Running, Tasks
    <2>2. session[t[1]] # "new"
        BY <2>1 DEF SlotInv
    <2>3. symbolsOf[t[1]] # None
        BY <2>1, <2>2 DEF PipelineInv, TrailInv, SessionInv
    <2> QED
        BY <2>1, <2>3 DEF Executions
<1>2. concurrency \in Nat \ {0}
    BY DEF SlotInv
<1>3. ASSUME NEW s \in Executions
      PROVE  Cardinality({t \in Running : t[1] = s}) <= concurrency
    <2> DEFINE slot == {t \in Running : t[1] = s}
    <2>1. CASE session[s] = "market"
        <3>1. slot \subseteq {<<s, Market>>}
            <4> SUFFICES ASSUME NEW t \in slot PROVE t = <<s, Market>>
                OBVIOUS
            <4>1. t \in Tasks /\ task[t].status = "running" /\ t[1] = s
                BY DEF Running
            <4>2. t[2] = Market
                BY <2>1, <4>1 DEF SlotInv
            <4> QED
                BY <1>1, <4>1, <4>2
        <3>2. IsFiniteSet({<<s, Market>>}) /\ Cardinality({<<s, Market>>}) = 1
            BY FS_Singleton
        <3> HIDE DEF slot
        <3>3. IsFiniteSet(slot) /\ Cardinality(slot) <= 1
            BY <3>1, <3>2, FS_Subset
        <3>4. Cardinality(slot) \in Nat
            BY <3>3, FS_CardinalityType
        <3> QED
            BY <1>2, <3>3, <3>4 DEF slot
    <2>2. CASE session[s] # "market"
        <3>1. slot \subseteq InFlight(s)
            <4> SUFFICES ASSUME NEW t \in slot PROVE t \in InFlight(s)
                OBVIOUS
            <4>1. t \in Tasks /\ task[t].status = "running" /\ t[1] = s /\ t = <<t[1], t[2]>>
                BY <1>1 DEF Running
            <4>2. t[2] # Market
                BY <2>2, <4>1 DEF SlotInv, Executions
            <4> QED
                BY <4>1, <4>2 DEF SlotInv, InFlight
        <3>2. InFlight(s) \subseteq Tasks
            <4>1. symbolsOf[s] \subseteq Symbols /\ s \in Sessions
                BY DEF Executions, PipelineInv, TrailInv, PipelineShape
            <4> QED
                BY <4>1 DEF InFlight, Of, Tasks
        <3>3. IsFiniteSet(InFlight(s))
            BY <3>2, FiniteTasks, FS_Subset
        <3> HIDE DEF slot
        <3>4. IsFiniteSet(slot) /\ Cardinality(slot) <= Cardinality(InFlight(s))
            BY <3>1, <3>3, FS_Subset
        <3>5. Cardinality(slot) \in Nat /\ Cardinality(InFlight(s)) \in Nat
            BY <3>3, <3>4, FS_CardinalityType
        <3>6. Cardinality(InFlight(s)) <= concurrency
            BY DEF SlotInv
        <3> QED
            BY <1>2, <3>4, <3>5, <3>6 DEF slot
    <2> QED
        BY <2>1, <2>2
<1>4. Running = {t \in Running : t[1] \in Executions}
    BY <1>1
<1> QED
    BY <1>2, <1>3, <1>4, FiniteTasks, GroupBound

\* Nothing is spent and nobody runs at the beginning.
LEMMA SlotInit == PipelineInv /\ Init => EscalationInv
<1> SUFFICES ASSUME PipelineInv, Init PROVE EscalationInv
    OBVIOUS
<1>1. PICK x \in Scenarios : symbolsOf = x.symbols /\ concurrency = x.concurrency
    BY DEF Init
<1>2. concurrency \in Nat \ {0} /\ Executions # {}
    BY <1>1, ScenariosAssumption DEF Executions
<1>3. \A t \in Tasks : task[t].status = "pending"
    BY DEF Init
<1>4. \A s \in Sessions : <<s, Market>> \in Tasks
    BY DEF Tasks
<1>5. ASSUME NEW s \in Executions PROVE Cardinality(InFlight(s)) <= concurrency
    <2>1. symbolsOf[s] \subseteq Symbols /\ s \in Sessions
        BY DEF Executions, PipelineInv, TrailInv, PipelineShape
    <2>2. InFlight(s) = {}
        BY <1>3, <2>1 DEF InFlight, Of, Tasks
    <2> QED
        BY <1>2, <2>2, FS_EmptySet
<1>6. SlotInv
    BY <1>2, <1>3, <1>4, <1>5 DEF SlotInv
<1>7. usage = 0 /\ late = 0 /\ Budget \in Nat
    BY RouterAssumption DEF Init, RouterInit
<1> QED
    BY <1>6, <1>7 DEF EscalationInv, BudgetInv

\* Steps that leave the coroutines alone.
LEMMA SlotStutter ==
    ASSUME SlotInv, UNCHANGED <<session, symbolsOf, concurrency, task>>
    PROVE  SlotInv'
<1>1. Executions' = Executions /\ \A s : Of(s)' = Of(s) /\ InFlight(s)' = InFlight(s)
    BY DEF Executions, Of, InFlight
<1> QED
    BY <1>1 DEF SlotInv

\* A caller that does not come to an escalation is none of those that wait for one.
LEMMA NotEscalating ==
    ASSUME NEW t \in Tasks, \A u \in Tasks : u # t => call'[u] = call[u],
           call'[t].pc # "escalate" \/ call'[t].attempt # 0
    PROVE  Escalating' \subseteq Escalating \ {t}
BY DEF Escalating

\* Nothing is spent, and nobody joins them.
LEMMA BudgetKept ==
    ASSUME PipelineInv, EscalationInv, UNCHANGED <<usage, late, symbolsOf, concurrency>>,
           Escalating' \subseteq Escalating
    PROVE  BudgetInv'
<1>1. Executions' = Executions
    BY DEF Executions
<1>2. IsFiniteSet(Escalating) /\ IsFiniteSet(Executions)
    BY FiniteTasks
<1>3. IsFiniteSet(Escalating') /\ Cardinality(Escalating') <= Cardinality(Escalating)
    BY <1>2, FS_Subset
<1>4. Cardinality(Escalating) \in Nat /\ Cardinality(Escalating') \in Nat
    BY <1>2, <1>3, FS_CardinalityType
<1>5. PICK n : n = Cardinality(Executions) * concurrency
    OBVIOUS
<1>6. n \in Nat /\ late \in Nat
    BY <1>2, <1>5, FS_CardinalityType DEF EscalationInv, SlotInv, PipelineInv, RouterInv, CallsOK
<1>7. Budget > 0 /\ usage >= Budget => late + Cardinality(Escalating') <= n - 1
    BY <1>3, <1>4, <1>5, <1>6 DEF EscalationInv, BudgetInv
<1> QED
    BY <1>1, <1>5, <1>7 DEF EscalationInv, BudgetInv

\* Steps that leave the coroutines and the budget alone.
LEMMA EscalationStutter ==
    ASSUME PipelineInv, EscalationInv,
           UNCHANGED <<usage, late, call, session, symbolsOf, concurrency, task>>
    PROVE  EscalationInv'
<1>1. Escalating' \subseteq Escalating
    BY DEF Escalating
<1> QED
    BY <1>1, SlotStutter, BudgetKept DEF EscalationInv

\* A call is charged: whoever uses the budget up is not about to escalate.
LEMMA ChargeStep ==
    ASSUME PipelineInv, EscalationInv, NEW t \in Tasks, call[t].pc \in {"usage", "escUsage"},
           call'[t].pc \in {"budget", "answered"}, \A u \in Tasks : u # t => call'[u] = call[u],
           RecordUsage, UNCHANGED <<late, session, symbolsOf, concurrency, task>>
    PROVE  EscalationInv'
<1>1. Escalating' \subseteq Escalating
    BY NotEscalating
<1>2. SlotInv'
    BY SlotStutter DEF EscalationInv
<1>3. CASE usage' = usage
    BY <1>1, <1>2, <1>3, BudgetKept DEF EscalationInv
<1>4. CASE usage' = usage + 1
    <2>1. Executions' = Executions
        BY DEF Executions
    <2>2. IsFiniteSet(Escalating) /\ IsFiniteSet(Executions) /\ IsFiniteSet(Running)
        BY FiniteTasks
    <2>3. IsFiniteSet(Escalating') /\ Cardinality(Escalating') <= Cardinality(Escalating)
        BY <1>1, <2>2, FS_Subset
    <2>4. PICK e, f, n, r : /\ e = Cardinality(Escalating) /\ f = Cardinality(Escalating')
                            /\ n = Cardinality(Executions) * concurrency
                            /\ r = Cardinality(Running)
        OBVIOUS
    <2>5. /\ e \in Nat /\ f \in Nat /\ n \in Nat /\ r \in Nat /\ f <= e
          /\ late \in Nat /\ usage \in Nat /\ Budget \in Nat
        BY <2>2, <2>3, <2>4, FS_CardinalityType, RouterAssumption
        DEF EscalationInv, SlotInv, PipelineInv, RouterInv, CallsOK
    <2>6. Escalating \union {t} \subseteq Running /\ t \notin Escalating
        BY DEF PipelineInv, RunningInv, Running, Escalating
    <2>7. Cardinality(Escalating \union {t}) = e + 1
        BY <2>2, <2>4, <2>6, FS_AddElement
    <2>8. e + 1 <= r
        BY <2>2, <2>4, <2>6, <2>7, FS_Subset
    <2>9. r <= n
        BY <2>4, RunningBound DEF EscalationInv
    <2>10. CASE Budget > 0 /\ usage >= Budget
        <3>1. late + e <= n - 1
            BY <2>4, <2>10 DEF EscalationInv, BudgetInv
        <3>2. late + f <= n - 1 /\ usage' >= Budget
            BY <1>4, <2>5, <2>10, <3>1
        <3> QED
            BY <1>2, <2>1, <2>4, <2>10, <3>2 DEF EscalationInv, BudgetInv
    <2>11. CASE ~ (Budget > 0 /\ usage >= Budget)
        <3>1. late = 0
            BY <2>5, <2>11 DEF EscalationInv, BudgetInv
        <3>2. late + f <= n - 1
            BY <2>5, <2>8, <2>9, <3>1
        <3> QED
            BY <1>2, <2>1, <2>4, <3>1, <3>2 DEF EscalationInv, BudgetInv
    <2> QED
        BY <2>10, <2>11
<1> QED
    BY <1>3, <1>4 DEF RecordUsage

\* An escalation is sent: it is late or not, and its caller no longer waits.
LEMMA SendStep ==
    ASSUME PipelineInv, EscalationInv, NEW t \in Tasks, EscalationCall(t),
           \A u \in Tasks : u # t => call'[u] = call[u],
           UNCHANGED <<session, symbolsOf, concurrency, task>>
    PROVE  EscalationInv'
<1>0. t \in Callers /\ call \in [Callers -> CallType]
    BY PipelineAssumption DEF PipelineInv, RouterInv, CallsOK
<1>1. /\ call[t].pc = "escalate" /\ usage' = usage /\ t \in Callers /\ call[t].attempt \in Nat
      /\ call \in [Callers -> CallType] /\ call[t] \in CallType
    <2>1. call[t] \in CallType
        BY <1>0
    <2>2. call[t].attempt \in Nat
        BY <2>1, RouterAssumption DEF CallType
    <2> QED
        BY <1>0, <2>1, <2>2 DEF EscalationCall
<1>2. call'[t].pc # "escalate" \/ call'[t].attempt # 0
    <2>1. CASE AttemptFails(t, call[t].config.escalation)
        <3>1. CASE call' = [call EXCEPT ![t].attempt = @ + 1]
            BY <1>1, <3>1 DEF CallType
        <3>2. CASE Goto(t, "raised")
            BY <1>1, <3>2 DEF Goto, CallType
        <3> QED
            BY <2>1, <3>1, <3>2 DEF AttemptFails
    <2>2. CASE Goto(t, "raised")
        BY <1>1, <2>2 DEF Goto, CallType
    <2>3. ASSUME NEW c \in Confidences, NEW v \in Verdicts,
                 call' = [call EXCEPT ![t] =
                        IF c > @.confidence
                          THEN [@ EXCEPT !.pc = "escUsage", !.confidence = c, !.verdict = v,
                                         !.escalated = TRUE]
                          ELSE [@ EXCEPT !.pc = "escUsage", !.escalated = TRUE]]
          PROVE  call'[t].pc = "escUsage"
        <3>1. \/ call'[t] = [call[t] EXCEPT !.pc = "escUsage", !.confidence = c, !.verdict = v,
                                         !.escalated = TRUE]
              \/ call'[t] = [call[t] EXCEPT !.pc = "escUsage", !.escalated = TRUE]
            BY <1>1, <2>3
        <3>2. call[t] \in CallType
            BY <1>1
        <3> QED
            BY <3>1, <3>2 DEF CallType
    <2> QED
        BY <2>1, <2>2, <2>3 DEF EscalationCall
<1>3. Escalating' \subseteq Escalating \ {t}
    BY <1>2, NotEscalating
<1>4. SlotInv'
    BY SlotStutter DEF EscalationInv
<1>5. CASE late' = late
    BY <1>1, <1>3, <1>4, <1>5, BudgetKept DEF EscalationInv
<1>6. CASE late' = late + 1 /\ call[t].attempt = 0 /\ Budget > 0 /\ usage >= Budget
    <2>1. Executions' = Executions /\ t \in Escalating
        BY <1>1, <1>6 DEF Executions, Escalating
    <2>2. IsFiniteSet(Escalating) /\ IsFiniteSet(Executions)
        BY FiniteTasks
    <2>3. /\ IsFiniteSet(Escalating \ {t})
          /\ Cardinality(Escalating \ {t}) = Cardinality(Escalating) - 1
        BY <2>1, <2>2, FS_RemoveElement
    <2>4. IsFiniteSet(Escalating') /\ Cardinality(Escalating') <= Cardinality(Escalating \ {t})
        BY <1>3, <2>3, FS_Subset
    <2>5. PICK e, f, n : /\ e = Cardinality(Escalating) /\ f = Cardinality(Escalating')
                         /\ n = Cardinality(Executions) * concurrency
        OBVIOUS
    <2>6. e \in Nat /\ f \in Nat /\ n \in Nat /\ f <= e - 1 /\ late \in Nat
        BY <2>2, <2>3, <2>4, <2>5, FS_CardinalityType
        DEF EscalationInv, SlotInv, PipelineInv, RouterInv, CallsOK
    <2>7. late + e <= n - 1
        BY <1>6, <2>5 DEF EscalationInv, BudgetInv
    <2>8. late' + f <= n - 1
        BY <1>6, <2>6, <2>7
    <2> QED
        BY <1>1, <1>4, <1>6, <2>1, <2>5, <2>8 DEF EscalationInv, BudgetInv
<1> QED
    BY <1>5, <1>6 DEF EscalationCall

\* A step of route_structured keeps the bound.
LEMMA RouterBudget ==
    ASSUME PipelineInv, EscalationInv, NEW t \in Tasks, RouterStep(t), UNCHANGED pipeline
    PROVE  EscalationInv'
<1>1. UNCHANGED <<session, symbolsOf, concurrency, task>> /\ t \in Callers /\ Callers = Tasks
    BY PipelineAssumption DEF pipeline
<1>2. \A u \in Tasks : u # t => call'[u] = call[u]
    BY <1>1, RouterSteps DEF PipelineInv
<1>3. call \in [Callers -> CallType] /\ call[t] \in CallType
    BY <1>1 DEF PipelineInv, RouterInv, CallsOK
<1>4. ASSUME NEW label, Goto(t, label) PROVE call'[t].pc = label /\ call'[t].attempt = call[t].attempt
    BY <1>1, <1>3, <1>4 DEF Goto, CallType
<1>5. ASSUME UNCHANGED <<usage, late>>, call'[t].pc # "escalate"
      PROVE  EscalationInv'
    <2>1. Escalating' \subseteq Escalating
        BY <1>2, <1>5, NotEscalating
    <2> QED
        BY <1>1, <1>5, <2>1, SlotStutter, BudgetKept DEF EscalationInv
<1>6. CASE LookUpCache(t) \/ ReadRow(t) \/ FillCache(t)
    <2>1. UNCHANGED <<usage, late>>
        BY <1>6 DEF LookUpCache, ReadRow, FillCache, spending
    <2>2. \A config : WithConfig(t, config).pc \in {"primary", "raised"}
        BY <1>3 DEF WithConfig, CallType
    <2>3. call'[t].pc \in {"primary", "raised", "row", "fill"}
        <3>1. CASE LookUpCache(t)
            BY <1>1, <1>3, <1>4, <2>2, <3>1 DEF LookUpCache
        <3>2. CASE ReadRow(t)
            <4> DEFINE filled == [call[t] EXCEPT !.config = configs[call[t].agent], !.pc = "fill"]
            <4>1. filled.pc = "fill"
                BY <1>3 DEF CallType
            <4>2. CASE Goto(t, "raised")
                BY <1>4, <4>2
            <4>3. CASE ~ Goto(t, "raised")
                <5>1. call' = [call EXCEPT ![t] =
                        IF configs[call[t].agent] = None
                          THEN WithConfig(t, Defaults[call[t].agent]) ELSE filled]
                    BY <3>2, <4>3 DEF ReadRow
                <5> HIDE DEF filled
                <5> QED
                    BY <1>1, <1>3, <2>2, <4>1, <5>1
            <4> QED
                BY <4>2, <4>3
        <3>3. CASE FillCache(t)
            BY <1>1, <1>3, <2>2, <3>3 DEF FillCache
        <3> QED
            BY <1>6, <3>1, <3>2, <3>3
    <2> QED
        BY <1>5, <2>1, <2>3
<1>7. CASE PrimaryCall(t)
    <2>1. UNCHANGED <<usage, late>> /\ call[t].pc = "primary"
        BY <1>7 DEF PrimaryCall, spending
    <2>2. CASE AttemptFails(t, call[t].config.primary)
        <3>1. ASSUME call' = [call EXCEPT ![t].attempt = @ + 1] PROVE call'[t].pc = "primary"
            BY <1>1, <1>3, <2>1, <3>1 DEF CallType
        <3>2. call'[t].pc \in {"primary", "raised"}
            BY <1>4, <2>2, <3>1 DEF AttemptFails
        <3> QED
            BY <1>5, <2>1, <3>2
    <2>3. ASSUME NEW c \in Confidences, NEW v \in Verdicts,
                 call' = [call EXCEPT ![t].pc = "usage", ![t].confidence = c,
                                      ![t].verdict = v, ![t].attempt = 0]
          PROVE  call'[t].pc = "usage"
        BY <1>1, <1>3, <2>3 DEF CallType
    <2>4. CASE ~ AttemptFails(t, call[t].config.primary)
        <3>1. call'[t].pc \in {"usage", "raised"}
            BY <1>4, <1>7, <2>3, <2>4 DEF PrimaryCall
        <3> QED
            BY <1>5, <2>1, <3>1
    <2> QED
        BY <2>2, <2>4
<1>8. CASE RecordPrimary(t) \/ RecordEscalation(t)
    <2>1. /\ call[t].pc \in {"usage", "escUsage"} /\ RecordUsage /\ UNCHANGED late
          /\ Goto(t, "budget") \/ Goto(t, "answered")
        BY <1>8 DEF RecordPrimary, RecordEscalation
    <2>2. call'[t].pc \in {"budget", "answered"}
        BY <1>4, <2>1
    <2> QED
        BY <1>1, <1>2, <2>1, <2>2, ChargeStep
<1>9. CASE CheckBudget(t)
    <2>1. UNCHANGED <<usage, late>>
        BY <1>9 DEF CheckBudget, spending
    <2>2. CASE Goto(t, "answered") \/ Goto(t, "raised")
        BY <1>4, <1>5, <2>1, <2>2
    <2>3. CASE ~ EscalationDisabled
        <3>1. usage \in Nat /\ late \in Nat /\ Budget \in Nat
            BY RouterAssumption DEF PipelineInv, RouterInv, CallsOK
        <3>2. late = 0
            BY <2>3, <3>1 DEF EscalationDisabled, EscalationInv, BudgetInv
        <3>3. BudgetInv'
            BY <2>1, <2>3, <3>2 DEF BudgetInv, EscalationDisabled
        <3> QED
            BY <1>1, <3>3, SlotStutter DEF EscalationInv
    <2> QED
        BY <1>9, <2>2, <2>3 DEF CheckBudget
<1>10. CASE EscalationCall(t)
    BY <1>1, <1>2, <1>10, SendStep
<1> QED
    BY <1>6, <1>7, <1>8, <1>9, <1>10 DEF RouterStep

\* A task begins or ends a stage: the call is new, or none.
LEMMA CallRestarts ==
    ASSUME PipelineInv, EscalationInv, NEW t \in Tasks,
           call' = [call EXCEPT ![t] = Idle] \/ \E a : Route(t, a),
           UNCHANGED <<usage, late, symbolsOf, concurrency>>
    PROVE  BudgetInv'
<1>1. t \in Callers /\ Callers = Tasks /\ call \in [Callers -> CallType]
    BY PipelineAssumption DEF PipelineInv, RouterInv, CallsOK
<1>2. \A u \in Tasks : u # t => call'[u] = call[u]
    BY <1>1 DEF Route
<1>3. call'[t].pc \in {"idle", "cache"}
    <2>1. Idle.pc = "idle" /\ \A a : [Idle EXCEPT !.pc = "cache", !.agent = a].pc = "cache"
        BY DEF Idle
    <2>2. \/ call'[t] = Idle
          \/ \E a : call'[t] = [Idle EXCEPT !.pc = "cache", !.agent = a]
        BY <1>1 DEF Route
    <2> QED
        BY <2>1, <2>2
<1>4. Escalating' \subseteq Escalating
    BY <1>2, <1>3, NotEscalating
<1> QED
    BY <1>4, BudgetKept

\* No other symbol is being analysed afterwards.
LEMMA SlotsFree ==
    ASSUME PipelineInv, SlotInv, UNCHANGED <<symbolsOf, concurrency>>,
           \A u \in Tasks : u[2] # Market /\ task'[u].status = "running" =>
                              task[u].status = "running"
    PROVE  /\ Executions' = Executions /\ \A s : Of(s)' = Of(s)
           /\ \A s \in Executions : Cardinality(InFlight(s)') <= concurrency
<1>1. Executions' = Executions /\ \A s : Of(s)' = Of(s)
    BY DEF Executions, Of
<1>2. ASSUME NEW s \in Executions PROVE Cardinality(InFlight(s)') <= concurrency
    <2>1. symbolsOf[s] \subseteq Symbols /\ s \in Sessions
        BY DEF Executions, PipelineInv, TrailInv, PipelineShape
    <2>2. \A u \in Of(s) : u \in Tasks /\ u[2] # Market
        BY <2>1, PipelineAssumption DEF Of, Tasks
    <2>3. InFlight(s)' \subseteq InFlight(s)
        BY <1>1, <2>2 DEF InFlight
    <2>4. IsFiniteSet(InFlight(s))
        BY <2>2, FiniteTasks, FS_Subset DEF InFlight
    <2>5. IsFiniteSet(InFlight(s)') /\ Cardinality(InFlight(s)') <= Cardinality(InFlight(s))
        BY <2>3, <2>4, FS_Subset
    <2>6. Cardinality(InFlight(s)) \in Nat /\ Cardinality(InFlight(s)') \in Nat
        BY <2>4, <2>5, FS_CardinalityType
    <2> QED
        BY <2>5, <2>6 DEF SlotInv
<1> QED
    BY <1>1, <1>2

\* An execution begins, or its analysis of the market ends.
LEMMA MarketSlots ==
    ASSUME PipelineInv, EscalationInv, NEW s \in Sessions,
           Execute(s) \/ MarketDone(s) \/ MarketFails(s)
    PROVE  EscalationInv'
<1> DEFINE m == <<s, Market>>
<1>1. /\ m \in Tasks /\ m[1] = s /\ m[2] = Market
      /\ UNCHANGED <<usage, late, symbolsOf, concurrency>>
    BY DEF Execute, MarketDone, MarketFails, spending, Tasks
<1>2. call' = [call EXCEPT ![m] = Idle] \/ \E a : Route(m, a)
    BY DEF Execute, MarketDone, MarketFails, Analyze, Done
<1>3. BudgetInv'
    BY <1>1, <1>2, CallRestarts
<1>4. PipelineShape /\ SlotInv
    BY DEF PipelineInv, TrailInv, EscalationInv
<1>5. \A u \in Tasks : u # m => task'[u] = task[u]
    BY <1>1, <1>4 DEF Execute, MarketDone, MarketFails, Analyze, Done, PipelineShape
<1>6. \A u \in Tasks : u[2] # Market /\ task'[u].status = "running" => task[u].status = "running"
    BY <1>1, <1>5
<1>7. /\ Executions' = Executions /\ \A z : Of(z)' = Of(z)
      /\ \A z \in Executions : Cardinality(InFlight(z)') <= concurrency
    BY <1>1, <1>4, <1>6, SlotsFree
<1>8. session[s] # "symbols"
    BY <1>4 DEF Execute, MarketDone, MarketFails, SlotInv
<1>9. \A z \in Sessions : z # s => session'[z] = session[z]
    BY <1>4 DEF Execute, MarketDone, MarketFails, PipelineShape
<1>10. task'[m].status = "running" => session'[s] = "market"
    <2>1. CASE Execute(s)
        BY <1>4, <2>1 DEF Execute, PipelineShape
    <2>2. CASE MarketDone(s) \/ MarketFails(s)
        <3>1. Done(m, "ok") \/ Done(m, "error")
            BY <2>2 DEF MarketDone, MarketFails
        <3>2. task[m] \in TaskType
            BY <1>1, <1>4 DEF PipelineShape
        <3>3. task'[m].status \in {"ok", "error"}
            BY <1>1, <1>4, <3>1, <3>2 DEF Done, PipelineShape, TaskType
        <3> QED
            BY <3>3
    <2> QED
        BY <2>1, <2>2
<1>11. ASSUME NEW z \in Sessions, task'[<<z, Market>>].status = "running"
       PROVE  session'[z] = "market"
    <2>1. CASE z = s
        BY <1>10, <1>11, <2>1
    <2>2. CASE z # s
        <3>1. <<z, Market>> \in Tasks /\ <<z, Market>> # m
            BY <2>2 DEF Tasks
        <3> QED
            BY <1>4, <1>5, <1>9, <1>11, <2>2, <3>1 DEF SlotInv
    <2> QED
        BY <2>1, <2>2
<1>12. ASSUME NEW u \in Tasks, u[2] # Market, task'[u].status = "running"
       PROVE  session'[u[1]] = "symbols" /\ u \in Of(u[1])
    <2>1. u[1] \in Sessions
        BY DEF Tasks
    <2>2. session[u[1]] = "symbols" /\ u \in Of(u[1])
        BY <1>4, <1>6, <1>12 DEF SlotInv
    <2> QED
        BY <1>8, <1>9, <2>1, <2>2
<1>13. SlotInv'
    BY <1>1, <1>4, <1>7, <1>11, <1>12 DEF SlotInv
<1> QED
    BY <1>3, <1>13 DEF EscalationInv

\* A symbol takes a slot, keeps it or gives it back.
LEMMA SymbolSlots ==
    ASSUME PipelineInv, EscalationInv, NEW t \in Tasks,
           StartSymbol(t) \/ SymbolStageDone(t) \/ SymbolStageFails(t)
    PROVE  EscalationInv'
<1>1. UNCHANGED <<usage, late, session, symbolsOf, concurrency>>
    BY DEF StartSymbol, SymbolStageDone, SymbolStageFails, spending
<1>2. call' = [call EXCEPT ![t] = Idle] \/ \E a : Route(t, a)
    BY DEF StartSymbol, SymbolStageDone, SymbolStageFails, Analyze, Done
<1>3. BudgetInv'
    BY <1>1, <1>2, CallRestarts
<1>4. PipelineShape /\ SlotInv /\ task[t] \in TaskType
    BY DEF PipelineInv, TrailInv, EscalationInv, PipelineShape
<1>5. \A u \in Tasks : u # t => task'[u] = task[u]
    BY <1>4 DEF StartSymbol, SymbolStageDone, SymbolStageFails, Analyze, Done, PipelineShape
<1>6. t = <<t[1], t[2]>> /\ t[1] \in Sessions
    BY DEF Tasks
<1>7. t[2] # Market /\ session[t[1]] = "symbols" /\ t \in Of(t[1])
    <2>1. CASE StartSymbol(t)
        <3>1. session[t[1]] = "symbols" /\ t \in Of(t[1])
            BY <2>1 DEF StartSymbol
        <3>2. symbolsOf[t[1]] # None
            BY <1>6, <3>1 DEF PipelineInv, TrailInv, SessionInv
        <3>3. symbolsOf[t[1]] \subseteq Symbols /\ t[2] \in symbolsOf[t[1]]
            BY <1>4, <1>6, <3>1, <3>2 DEF PipelineShape, Of
        <3> QED
            BY <3>1, <3>3, PipelineAssumption
    <2>2. CASE SymbolStageDone(t) \/ SymbolStageFails(t)
        BY <1>4, <2>2 DEF SymbolStageDone, SymbolStageFails, SlotInv
    <2> QED
        BY <2>1, <2>2
<1>8. /\ Executions' = Executions /\ \A z : Of(z)' = Of(z)
      /\ \A z \in Executions : Cardinality(InFlight(z)') <= concurrency
    <2>1. CASE StartSymbol(t)
        <3>1. Executions' = Executions /\ \A z : Of(z)' = Of(z)
            BY <1>1 DEF Executions, Of
        <3>2. ASSUME NEW z \in Executions PROVE Cardinality(InFlight(z)') <= concurrency
            <4>1. symbolsOf[z] \subseteq Symbols /\ z \in Sessions
                BY <1>4 DEF Executions, PipelineShape
            <4>2. \A u \in Of(z) : u \in Tasks /\ u[1] = z
                BY <4>1 DEF Of, Tasks
            <4>3. InFlight(z) \subseteq Tasks
                BY <4>2 DEF InFlight
            <4>4. IsFiniteSet(InFlight(z)) /\ Cardinality(InFlight(z)) \in Nat
                BY <4>3, FiniteTasks, FS_Subset, FS_CardinalityType
            <4>5. CASE z # t[1]
                <5>1. InFlight(z)' = InFlight(z)
                    BY <1>5, <3>1, <4>2, <4>5 DEF InFlight
                <5> QED
                    BY <1>4, <5>1 DEF SlotInv
            <4>6. CASE z = t[1]
                <5>1. InFlight(z)' \subseteq InFlight(z) \union {t}
                    BY <1>5, <3>1, <4>2 DEF InFlight
                <5>2. Cardinality(InFlight(z)) < concurrency
                    BY <2>1, <4>6 DEF StartSymbol, Admitted, HoldsSemaphore, InFlight
                <5>3. /\ IsFiniteSet(InFlight(z) \union {t})
                      /\ Cardinality(InFlight(z) \union {t}) <= Cardinality(InFlight(z)) + 1
                    <6>1. PICK F : F = InFlight(z)
                        OBVIOUS
                    <6>2. IsFiniteSet(F \union {t}) /\ Cardinality(F) \in Nat
                        BY <4>4, <6>1, FS_AddElement
                    <6>3. Cardinality(F \union {t}) = Cardinality(F)
                            \/ Cardinality(F \union {t}) = Cardinality(F) + 1
                        BY <4>4, <6>1, FS_AddElement
                    <6> QED
                        BY <6>1, <6>2, <6>3
                <5>4. /\ IsFiniteSet(InFlight(z)')
                      /\ Cardinality(InFlight(z)') <= Cardinality(InFlight(z) \union {t})
                    BY <5>1, <5>3, FS_Subset
                <5>5. Cardinality(InFlight(z)') \in Nat /\ Cardinality(InFlight(z) \union {t}) \in Nat
                    BY <5>3, <5>4, FS_CardinalityType
                <5>6. concurrency \in Nat
                    BY <1>4 DEF SlotInv
                <5> QED
                    BY <4>4, <5>2, <5>3, <5>4, <5>5, <5>6
            <4> QED
                BY <4>5, <4>6
        <3> QED
            BY <3>1, <3>2
    <2>2. CASE SymbolStageDone(t) \/ SymbolStageFails(t)
        <3>1. task[t].status = "running"
            BY <2>2 DEF SymbolStageDone, SymbolStageFails
        <3>2. \A u \in Tasks : task'[u].status = "running" => task[u].status = "running"
            BY <1>5, <3>1
        <3> QED
            BY <1>1, <1>4, <3>2, SlotsFree
    <2> QED
        BY <2>1, <2>2
<1>9. \A s \in Sessions : task'[<<s, Market>>].status = "running" => session'[s] = "market"
    <2>1. \A s \in Sessions : <<s, Market>> \in Tasks /\ <<s, Market>> # t
        BY <1>7 DEF Tasks
    <2> QED
        BY <1>1, <1>4, <1>5, <2>1 DEF SlotInv
<1>10. \A u \in Tasks : u[2] # Market /\ task'[u].status = "running" =>
         session'[u[1]] = "symbols" /\ u \in Of(u[1])
    BY <1>1, <1>4, <1>5, <1>7 DEF SlotInv
<1>11. SlotInv'
    BY <1>1, <1>4, <1>8, <1>9, <1>10 DEF SlotInv
<1> QED
    BY <1>3, <1>11 DEF EscalationInv

\* gather returns when no coroutine runs.
LEMMA FinishSlots ==
    ASSUME PipelineInv, EscalationInv, NEW s \in Sessions, Finish(s)
    PROVE  EscalationInv'
<1>1. UNCHANGED <<usage, late, call, symbolsOf, concurrency, task>>
    BY DEF Finish, routerVars, spending
<1>2. Escalating' \subseteq Escalating
    BY <1>1 DEF Escalating
<1>3. BudgetInv'
    BY <1>1, <1>2, BudgetKept
<1>4. PipelineShape /\ SlotInv
    BY DEF PipelineInv, TrailInv, EscalationInv
<1>5. \A u \in Of(s) : task[u].status # "running"
    BY DEF Finish
<1>6. \A z \in Sessions : z # s => session'[z] = session[z]
    BY <1>4 DEF Finish, PipelineShape
<1>7. Executions' = Executions /\ \A z : Of(z)' = Of(z) /\ InFlight(z)' = InFlight(z)
    BY <1>1 DEF Executions, Of, InFlight
<1>8. session[s] = "symbols"
    BY DEF Finish
<1>9. \A z \in Sessions : task'[<<z, Market>>].status = "running" => session'[z] = "market"
    BY <1>1, <1>4, <1>6, <1>8 DEF SlotInv
<1>10. \A u \in Tasks : u[2] # Market /\ task'[u].status = "running" =>
         session'[u[1]] = "symbols" /\ u \in Of(u[1])
    <2>1. \A u \in Tasks : u[1] \in Sessions
        BY DEF Tasks
    <2> QED
        BY <1>1, <1>4, <1>5, <1>6, <2>1 DEF SlotInv
<1>11. SlotInv'
    BY <1>1, <1>4, <1>7, <1>9, <1>10 DEF SlotInv
<1> QED
    BY <1>3, <1>11 DEF EscalationInv

\* Every step keeps the bound.
LEMMA EscalationNext == PipelineInv /\ EscalationInv /\ [Next]_vars => EscalationInv'
<1> SUFFICES ASSUME PipelineInv, EscalationInv, [Next]_vars PROVE EscalationInv'
    OBVIOUS
<1>1. ASSUME NEW t \in Tasks, TaskStep(t) PROVE EscalationInv'
    BY <1>1, RouterBudget, SymbolSlots DEF TaskStep
<1>2. ASSUME NEW s \in Sessions, Execute(s) \/ SessionStep(s) PROVE EscalationInv'
    BY <1>2, MarketSlots, FinishSlots DEF SessionStep
<1>3. CASE AdminStep /\ UNCHANGED pipeline
    <2>1. UNCHANGED <<usage, late, call, session, symbolsOf, concurrency, task>>
        BY <1>3 DEF AdminStep, UpdateConfig, ResetConfigs, ClearCache, Expire, spending, pipeline
    <2> QED
        BY <2>1, EscalationStutter
<1>4. CASE UNCHANGED vars
    <2>1. UNCHANGED <<usage, late, call, session, symbolsOf, concurrency, task>>
        BY <1>4 DEF vars, routerVars, spending, pipeline
    <2> QED
        BY <2>1, EscalationStutter
<1> QED
    BY <1>1, <1>2, <1>3, <1>4 DEF Next

\* The budget is overrun by at most one escalation for every coroutine but the
\* one that used it up, for any number of executions, symbols and slots
\* (get_budget_status, read before an await, and record_usage after it).
THEOREM OvershootIsBounded == Spec => []EscalationOvershoot
<1>1. Init => EscalationInv
    BY PipelineInit, SlotInit
<1>2. ASSUME PipelineInv, EscalationInv PROVE EscalationOvershoot
    <2>1. PICK n : n = Cardinality(Executions) * concurrency
        OBVIOUS
    <2>2. IsFiniteSet(Executions) /\ IsFiniteSet(Escalating)
        BY FiniteTasks
    <2>3. PICK k, e : k = Cardinality(Executions) /\ e = Cardinality(Escalating)
        OBVIOUS
    <2>4. k \in Nat \ {0} /\ e \in Nat /\ concurrency \in Nat \ {0} /\ late \in Nat
        BY <1>2, <2>2, <2>3, FS_CardinalityType, FS_EmptySet
        DEF EscalationInv, SlotInv, PipelineInv, RouterInv, CallsOK
    <2>5. n \in Nat /\ n >= 1
        BY <2>1, <2>3, <2>4
    <2>6. late <= n - 1
        BY <1>2, <2>1, <2>3, <2>4, <2>5 DEF EscalationInv, BudgetInv
    <2> QED
        BY <2>1, <2>6 DEF EscalationOvershoot, Executions
<1> QED
    BY <1>1, <1>2, EscalationNext, PipelineInvariant, PTL DEF Spec
=============================================================================
