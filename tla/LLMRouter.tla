----------------------------- MODULE LLMRouter -----------------------------
(***************************************************************************)
(* llm/router.py with its configuration cache, llm/cost_tracker.py, the    *)
(* retries of llm/providers/*.py and the configuration endpoints of        *)
(* api/admin/llm_config.py.                                                *)
(*                                                                         *)
(* A caller is a coroutine inside route_structured; one action is what it  *)
(* does between two awaits.  An answer is its confidence and what it says, *)
(* "go" or "stop".  Costs are counted in units, one per answer.  Failures  *)
(* draw on the budget mishaps.                                             *)
(***************************************************************************)
EXTENDS Naturals, FiniteSets

CONSTANTS
    Callers, Agents,
    ProviderOf,        \* of a model: "openai", "google" or "anthropic"
    ApiKeys,           \* the providers with a key in the environment
    Defaults,          \* default_model_assignments.yaml: the configuration of an agent
    Confidences, Budget, MaxRetries, None

Models == DOMAIN ProviderOf
Providers == {"openai", "google", "anthropic"}
Configs == [mode : {"fixed", "escalation"}, primary : Models, escalation : Models \union {None},
            threshold : Nat \union {None}, active : BOOLEAN]
Verdicts == {"go", "stop"}

ASSUME RouterAssumption ==
    /\ ProviderOf \in [Models -> Providers] /\ ApiKeys \subseteq Providers
    /\ Defaults \in [Agents -> Configs]
    /\ Confidences \subseteq Nat /\ Budget \in Nat /\ MaxRetries \in Nat /\ None \notin Nat

VARIABLES
    configs,     \* table agent_model_config
    cache,       \* Redis, namespace llm_config
    clearing,    \* agents whose entries a committed update still has to delete
    updates,     \* what an administrator will still send: <<agent, changed fields>>, or Reset
    usage,       \* sum of table llm_usage over the month
    call,        \* per caller, where its call of route_structured stands
    raced,       \* agents whose entry was not deleted, or filled anew too late (history)
    late,        \* escalations sent when the budget was used up (history)
    mishaps      \* failures still to come

table == <<configs, cache, clearing, updates, raced>>
spending == <<usage, late>>
routerVars == <<table, spending, call, mishaps>>

Idle == [pc |-> "idle", agent |-> None, config |-> None, attempt |-> 0,
         confidence |-> None, verdict |-> None, escalated |-> FALSE]
Mishap == mishaps > 0 /\ mishaps' = mishaps - 1
NoMishap == UNCHANGED mishaps

RouterInit ==
    /\ cache = [a \in Agents |-> None]
    /\ clearing = {} /\ raced = {}
    /\ usage = 0 /\ late = 0
    /\ call = [t \in Callers |-> Idle]

Answered(t) == call[t].pc = "answered"
RaisedBy(t) == call[t].pc = "raised"
Goto(t, label) == call' = [call EXCEPT ![t].pc = label]

---------------------------------------------------------------------------
(* _get_agent_config: cache, then table, then YAML                         *)

Route(t, agent) == call' = [call EXCEPT ![t] = [Idle EXCEPT !.pc = "cache", !.agent = agent]]

\* Faulty: is_active is not looked at.
WithConfigAny(t, config) == [call[t] EXCEPT !.config = config, !.pc = "primary"]

\* A configuration is found; an inactive agent ends the call.
WithConfig(t, config) ==
    [call[t] EXCEPT !.config = config, !.pc = IF config.active THEN "primary" ELSE "raised"]

\* An error of Redis is a miss.
LookUpCache(t) ==
    /\ call[t].pc = "cache"
    /\ \/ /\ cache[call[t].agent] # None
          /\ call' = [call EXCEPT ![t] = WithConfig(t, cache[call[t].agent].config)]
          /\ NoMishap
       \/ cache[call[t].agent] = None /\ Goto(t, "row") /\ NoMishap
       \/ cache[call[t].agent] # None /\ Goto(t, "row") /\ Mishap
    /\ UNCHANGED <<table, spending>>

\* Without a row the default applies and the cache is left alone; an error of the
\* database ends the call.
ReadRow(t) ==
    LET row == configs[call[t].agent]
    IN
    /\ call[t].pc = "row"
    /\ \/ /\ call' = [call EXCEPT ![t] =
               IF row = None THEN WithConfig(t, Defaults[call[t].agent])
               ELSE [@ EXCEPT !.config = row, !.pc = "fill"]]
          /\ NoMishap
       \/ Goto(t, "raised") /\ Mishap
    /\ UNCHANGED <<table, spending>>

\* Faulty: an entry without LLM_CONFIG_CACHE_TTL.
EntryForever(config) == [config |-> config, expires |-> FALSE]

\* set_json(..., ttl=LLM_CONFIG_CACHE_TTL)
Entry(config) == [config |-> config, expires |-> TRUE]

\* The row that was read goes into the cache, whatever the row is by now.
FillCache(t) ==
    /\ call[t].pc = "fill"
    /\ call' = [call EXCEPT ![t] = WithConfig(t, call[t].config)]
    /\ \/ cache' = [cache EXCEPT ![call[t].agent] = Entry(call[t].config)] /\ NoMishap
       \/ UNCHANGED cache /\ Mishap
    /\ UNCHANGED <<configs, clearing, updates, raced, spending>>

---------------------------------------------------------------------------
(* api/admin/llm_config.py                                                 *)

\* The fields of the request that are not null.
Merged(row, changes) ==
    [f \in DOMAIN row |-> IF f \in DOMAIN changes THEN changes[f] ELSE row[f]]

\* Changes that leave a configuration (the endpoint takes any others as well: they are not
\* modelled).
Allowed(changes) ==
    \A f \in DOMAIN changes :
        /\ f = "mode" => changes[f] \in {"fixed", "escalation"}
        /\ f = "primary" => changes[f] \in Models
        /\ f = "escalation" => changes[f] \in Models
        /\ f = "threshold" => changes[f] \in Nat
        /\ f = "active" => changes[f] \in BOOLEAN

\* update_config: an agent without a row is answered 404.
UpdateConfig(agent, changes) ==
    /\ updates' = updates \ {<<agent, changes>>}
    /\ IF configs[agent] = None THEN UNCHANGED <<configs, clearing>>
       ELSE /\ configs' = [configs EXCEPT ![agent] = Merged(@, changes)]
            /\ clearing' = clearing \union {agent}
    /\ UNCHANGED <<cache, raced, spending, call, mishaps>>

\* reset_configs: every agent gets the row of the YAML file.
Reset == <<None, None>>
ResetConfigs ==
    /\ Reset \in updates
    /\ updates' = updates \ {Reset}
    /\ configs' = Defaults /\ clearing' = Agents
    /\ UNCHANGED <<cache, raced, spending, call, mishaps>>

\* Read before the update and not written to the cache yet.
FillPending(agent) ==
    \E t \in Callers : call[t].pc = "fill" /\ call[t].agent = agent
                         /\ call[t].config # configs[agent]

\* Faulty: the update does not touch the cache.
ClearCacheNot ==
    /\ clearing # {}
    /\ clearing' = {}
    /\ UNCHANGED <<cache, raced, configs, updates, spending, call, mishaps>>

\* cache.delete, or a batch of cache.clear_namespace, after the commit; a failure is
\* logged.  Requests may be at this point side by side: the second deletion of an entry
\* does what Expire does.
ClearCache ==
    \E batch \in SUBSET clearing \ {{}} :
        /\ clearing' = clearing \ batch
        /\ \/ /\ cache' = [a \in Agents |-> IF a \in batch THEN None ELSE cache[a]]
              /\ raced' = raced \union {a \in batch : FillPending(a)}
              /\ NoMishap
           \/ /\ UNCHANGED cache /\ Mishap
              /\ raced' = raced \union batch
        /\ UNCHANGED <<configs, updates, spending, call>>

\* Redis drops an entry whose time is up.
Expire(agent) ==
    /\ cache[agent] # None /\ cache[agent].expires
    /\ cache' = [cache EXCEPT ![agent] = None]
    /\ UNCHANGED <<configs, clearing, updates, raced, spending, call, mishaps>>

---------------------------------------------------------------------------
(* LLMProvider.structured_output behind _call_with_retry                   *)

Errors == {"auth", "rate_limit", "timeout", "server", "invalid"}

\* The errors a provider tries again after.
OpenAIRetries == {"rate_limit", "timeout", "server"}
GoogleRetries == {"rate_limit", "server"}
AnthropicRetries == {"rate_limit", "timeout"}
Retries(provider) ==
    CASE provider = "openai" -> OpenAIRetries
      [] provider = "google" -> GoogleRetries
      [] provider = "anthropic" -> AnthropicRetries

\* _get_or_create_provider: initialize raises without an API key.
Usable(model) == ProviderOf[model] \in ApiKeys

\* One attempt, and what is done with its error.
AttemptFails(t, model) ==
    \E e \in Errors :
      /\ Mishap
      /\ IF e \in Retries(ProviderOf[model]) /\ call[t].attempt < MaxRetries
           THEN call' = [call EXCEPT ![t].attempt = @ + 1]
           ELSE Goto(t, "raised")

PrimaryCall(t) ==
    LET model == call[t].config.primary
    IN
    /\ call[t].pc = "primary"
    /\ IF Usable(model)
         THEN \/ /\ \E c \in Confidences, v \in Verdicts :
                      call' = [call EXCEPT ![t].pc = "usage", ![t].confidence = c,
                                           ![t].verdict = v, ![t].attempt = 0]
                 /\ NoMishap
              \/ AttemptFails(t, model)
         ELSE Goto(t, "raised") /\ NoMishap
    /\ UNCHANGED <<table, spending>>

---------------------------------------------------------------------------
(* CostTracker, and the second half of route_structured                    *)

\* record_usage is one upsert; its failure is logged.
RecordUsage ==
    \/ usage' = usage + 1 /\ NoMishap
    \/ UNCHANGED usage /\ Mishap

\* Is the answer one to escalate?
BelowThreshold(c) ==
    /\ c.config.mode = "escalation" /\ c.config.escalation # None /\ c.config.threshold # None
    /\ c.confidence < c.config.threshold

RecordPrimary(t) ==
    /\ call[t].pc = "usage"
    /\ RecordUsage
    /\ Goto(t, IF BelowThreshold(call[t]) THEN "budget" ELSE "answered")
    /\ UNCHANGED <<table, late>>

\* get_budget_status: a budget of zero disables nothing.
EscalationDisabled == Budget > 0 /\ usage >= Budget

CheckBudget(t) ==
    /\ call[t].pc = "budget"
    /\ \/ Goto(t, IF EscalationDisabled THEN "answered" ELSE "escalate") /\ NoMishap
       \/ Goto(t, "raised") /\ Mishap
    /\ UNCHANGED <<table, spending>>

\* The higher confidence wins, the first answer in a tie.  An error of the
\* escalation loses the first answer as well.
EscalationCall(t) ==
    LET model == call[t].config.escalation
    IN
    /\ call[t].pc = "escalate"
    /\ late' = IF call[t].attempt = 0 /\ Usable(model) /\ Budget > 0 /\ usage >= Budget
                 THEN late + 1 ELSE late
    /\ IF Usable(model)
         THEN \/ /\ \E c \in Confidences, v \in Verdicts :
                      call' = [call EXCEPT ![t] =
                        IF c > @.confidence
                          THEN [@ EXCEPT !.pc = "escUsage", !.confidence = c, !.verdict = v,
                                         !.escalated = TRUE]
                          ELSE [@ EXCEPT !.pc = "escUsage", !.escalated = TRUE]]
                 /\ NoMishap
              \/ AttemptFails(t, model)
         ELSE Goto(t, "raised") /\ NoMishap
    /\ UNCHANGED <<table, usage>>

RecordEscalation(t) ==
    /\ call[t].pc = "escUsage"
    /\ RecordUsage
    /\ Goto(t, "answered")
    /\ UNCHANGED <<table, late>>

RouterStep(t) ==
    \/ LookUpCache(t) \/ ReadRow(t) \/ FillCache(t)
    \/ PrimaryCall(t) \/ RecordPrimary(t) \/ CheckBudget(t)
    \/ EscalationCall(t) \/ RecordEscalation(t)

AdminStep ==
    \/ \E u \in updates \ {Reset} : UpdateConfig(u[1], u[2])
    \/ ResetConfigs \/ ClearCache
    \/ \E a \in Agents : Expire(a)

RouterTypeOK ==
    /\ configs \in [Agents -> Configs \union {None}]
    /\ \A a \in Agents : cache[a] = None \/ (cache[a].config \in Configs
                                               /\ cache[a].expires \in BOOLEAN)
    /\ clearing \subseteq Agents /\ raced \subseteq Agents
    /\ \A u \in updates \ {Reset} : u[1] \in Agents
    /\ usage \in Nat /\ late \in Nat
    /\ \A t \in Callers :
         /\ call[t].attempt \in 0 .. MaxRetries
         /\ call[t].confidence \in Confidences \union {None}
         /\ call[t].pc \in {"primary", "usage", "budget", "escalate", "escUsage", "answered"} =>
              call[t].config \in Configs /\ call[t].config.active
         /\ call[t].pc \in {"usage", "budget", "escalate", "escUsage", "answered"} =>
              call[t].confidence # None /\ call[t].verdict \in Verdicts

\* A stale entry comes from a fill that read the row before the update and wrote it after
\* the entry was deleted, or from a deletion that failed: no other order of the steps of
\* _get_agent_config, update_config and reset_configs leaves one.
StaleNeedsRace ==
    \A a \in Agents :
      cache[a] # None /\ cache[a].config # configs[a] => a \in raced \union clearing

\* Once nobody writes configurations any more, every call sees them after a time: the
\* entries that are left do not outlive LLM_CONFIG_CACHE_TTL.
StaleConfigEnds ==
    <>[](\A a \in Agents : cache[a] = None \/ cache[a].config = configs[a])
=============================================================================
