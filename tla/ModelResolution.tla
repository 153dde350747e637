--------------------------- MODULE ModelResolution ---------------------------
(***************************************************************************)
(* Which model serves a slot: the registry of providers, secrets, models   *)
(* and slots (packages/model-registry/src/index.ts, the model routes of    *)
(* apps/api/src/app.ts), its resolution                                    *)
(* (packages/policy-engine/src/index.ts) and the Anthropic key a setup     *)
(* finds or stores (packages/model-registry/src/claudeCredentials.ts).     *)
(*                                                                         *)
(* A registry is a record of four functions: secrets by label, providers by*)
(* key, models by slug and slots by key; NoRow is a row that does not      *)
(* exist.  Names, tiers, URLs and context windows, which nothing reads     *)
(* back, are left out.  A slug is unique to its provider, so a model is     *)
(* known by one name here.  A request is one function: setupModelRegistry  *)
(* awaits its upserts one after the other, and requests are taken here to  *)
(* come one after the other too.  POST /model-providers and POST /models,  *)
(* which add a row as a setup does, are left out.                          *)
(***************************************************************************)
EXTENDS Integers, Sequences, SequencesExt, FiniteSets

CONSTANTS
    NoRow,      \* no such row, or no reference to one
    NotGiven    \* a field the request leaves out

ProviderKeys == {"p1", "p2"}
ProviderOf   == [m1 |-> "p1", m2 |-> "p1", m3 |-> "p2"]
ModelSlugs   == DOMAIN ProviderOf
SlotKeys     == {"planner_fast", "executor_default", "executor_strong"}
Executors    == {"executor_default", "executor_strong"}

EmptyRegistry ==
    [secrets   |-> [p \in ProviderKeys |-> NoRow],
     providers |-> [p \in ProviderKeys |-> NoRow],
     models    |-> [s \in ModelSlugs |-> NoRow],
     slots     |-> [k \in SlotKeys |-> NoRow]]

Given(given, default) == IF given = NotGiven THEN default ELSE given

-----------------------------------------------------------------------------
(* seedDefaultSlots leaves a slot that exists alone.                        *)
SeedDefaultSlots(reg) ==
    [reg EXCEPT !.slots = [k \in SlotKeys |->
        IF reg.slots[k] = NoRow THEN [primary |-> NoRow, fallback |-> NoRow]
        ELSE reg.slots[k]]]

(* assignSlot: a fallback the request leaves out is dropped.                *)
AssignSlot(reg, key, primary, fallback) ==
    [reg EXCEPT !.slots[key] = [primary |-> primary, fallback |-> fallback]]

(* setupModelRegistry: the secret of the provider's default label, if a     *)
(* variable is named ...                                                    *)
SetupSecret(reg, r) ==
    IF r.secretEnv = NotGiven THEN reg
    ELSE [reg EXCEPT !.secrets[r.provider] =
            [reference |-> r.secretEnv, status |-> "active"]]

(* ... the provider, whose status is what the request says, or pending ...  *)
SetupProvider(reg, r) ==
    [reg EXCEPT !.providers[r.provider] =
        [auth   |-> Given(r.auth, IF r.secretEnv = NotGiven
                               THEN "none" ELSE "api_key"),
         secret |-> IF r.secretEnv = NotGiven THEN NoRow ELSE r.provider,
         status |-> Given(r.status, "pending_approval")]]

(* ... the model, enabled again if it was not ...                           *)
SetupModel(reg, r) ==
    [reg EXCEPT !.models[r.model] =
        [enabled |-> TRUE, caps |-> r.caps]]

(* ... and the slots it is to serve, each assigned without a fallback.      *)
SetupSlots(reg, r) ==
    [reg EXCEPT !.slots = [k \in SlotKeys |->
        IF k \in Given(r.slots, {"executor_default"})
        THEN [primary |-> r.model, fallback |-> NoRow] ELSE reg.slots[k]]]

SetupModelRegistry(reg, r) ==
    SetupSlots(SetupModel(SetupProvider(SetupSecret(SeedDefaultSlots(reg), r),
                                        r), r), r)

(* createSecretRef, updateProvider, updateModel                             *)
CreateSecretRef(reg, label, reference, status) ==
    [reg EXCEPT !.secrets[label] = [reference |-> reference, status |-> status]]
UpdateProvider(reg, key, field, value) ==
    IF reg.providers[key] = NoRow THEN reg
    ELSE [reg EXCEPT !.providers[key] =
            [reg.providers[key] EXCEPT ![field] = value]]
UpdateModel(reg, slug, field, value) ==
    IF reg.models[slug] = NoRow THEN reg
    ELSE [reg EXCEPT !.models[slug] = [reg.models[slug] EXCEPT ![field] = value]]

(* The model routes, one request each.                                      *)
Serve(reg, r) ==
    CASE r.route = "/model-setup" -> SetupModelRegistry(reg, r)
      [] r.route = "/model-secret-refs" ->
            IF reg.secrets[r.label] # NoRow THEN reg    \* labels are unique
            ELSE CreateSecretRef(reg, r.label, r.reference, r.status)
      [] r.route = "/model-providers" ->
            IF /\ r.field = "secret" /\ r.value # NoRow
               /\ reg.secrets[r.value] = NoRow
            THEN reg ELSE UpdateProvider(reg, r.provider, r.field, r.value)
      [] r.route = "/models" -> UpdateModel(reg, r.model, r.field, r.value)
      [] r.route = "/model-slots" -> SeedDefaultSlots(reg)
      [] r.route = "/model-slots/assign" ->
            IF \A slug \in {r.primary, r.fallback} \ {NoRow} :
                  reg.models[slug] # NoRow
            THEN AssignSlot(reg, r.slot, r.primary, r.fallback) ELSE reg

Registry(requests) == FoldLeft(Serve, EmptyRegistry, requests)

(* testProviderConfig reads neither the provider's status nor its secret's. *)
TestProviderConfig(reg, key, env) ==
    LET provider == reg.providers[key] IN
    CASE provider = NoRow -> "provider_missing"
      [] provider # NoRow /\ provider.secret = NoRow ->
            IF provider.auth = "api_key" THEN "secret_ref_missing" ELSE "ok"
      [] OTHER ->
            IF reg.secrets[provider.secret].reference \in env
            THEN "ok" ELSE "env_missing"

-----------------------------------------------------------------------------
(* resolveSlotForComplexity                                                 *)
SlotForComplexity(slot, complexity) ==
    IF slot = "executor_default" /\ complexity = "high"
    THEN "executor_strong" ELSE slot

(* selectExecutorSlotForAttempt; NoRow is the end of the ladder.            *)
SlotForAttempt(attempt) ==
    CASE attempt \in {1, 2} -> "executor_default"
      [] attempt = 3 -> "executor_strong"
      [] attempt > 3 -> NoRow

(* The slot resolveModelSlot asks for: the stronger of the two decisions.   *)
EffectiveSlot(slot, complexity, attempt) ==
    LET wanted == SlotForComplexity(slot, complexity) IN
    IF attempt = NotGiven \/ wanted \notin Executors THEN wanted
    ELSE IF wanted = "executor_strong" \/ SlotForAttempt(attempt) = NoRow
    THEN wanted ELSE SlotForAttempt(attempt)

(* Whether the ladder of attempts has ended.                                *)
OverBudget(slot, complexity, attempt) ==
    /\ attempt # NotGiven
    /\ SlotForComplexity(slot, complexity) \in Executors
    /\ SlotForAttempt(attempt) = NoRow

(* hasModelCapabilities                                                     *)
HasModelCapabilities(model, required) == required \subseteq model.caps

(* validateCandidate: the first thing that is wrong with a model, or "ok".  *)
ValidateCandidate(reg, env, slug, required) ==
    IF slug = NoRow THEN "model_missing" ELSE
    LET model    == reg.models[slug]
        provider == reg.providers[ProviderOf[slug]]
        secret   == IF provider.secret = NoRow THEN NoRow
                    ELSE reg.secrets[provider.secret] IN
    CASE ~model.enabled -> "model_disabled"
      [] model.enabled /\ provider.status # "active" -> "provider_inactive"
      [] OTHER ->
            IF /\ provider.auth = "api_key"
               /\ \/ secret = NoRow
                  \/ secret.status # "active"
                  \/ secret.reference \notin env
            THEN "provider_secret_missing"
            ELSE IF ~HasModelCapabilities(model, required)
            THEN "capability_mismatch" ELSE "ok"

(* resolveModelSlot, with the events it stores.                             *)
ResolveModelSlot(reg, env, r) ==
    LET key       == EffectiveSlot(r.slot, r.complexity, r.attempt)
        slot      == reg.slots[key]
        primary   == ValidateCandidate(reg, env, slot.primary, r.required)
        fallback  == ValidateCandidate(reg, env, slot.fallback, r.required)
        failed(code) == [ok |-> FALSE, code |-> code, slot |-> key,
                         events |-> <<"requested", "failed">>] IN
    IF OverBudget(r.slot, r.complexity, r.attempt)
    THEN failed("slot_unassigned")
    ELSE IF slot = NoRow THEN failed("slot_missing")
    ELSE IF slot.primary = NoRow /\ slot.fallback = NoRow
    THEN failed("slot_unassigned")
    ELSE IF primary = "ok"
    THEN [ok |-> TRUE, model |-> slot.primary, slot |-> key,
          usedFallback |-> FALSE, events |-> <<"requested", "succeeded">>]
    ELSE IF fallback = "ok"
    THEN [ok |-> TRUE, model |-> slot.fallback, slot |-> key,
          usedFallback |-> TRUE,
          events |-> <<"requested", "fallback_used", "succeeded">>]
    ELSE failed(IF slot.fallback = NoRow THEN primary ELSE fallback)

-----------------------------------------------------------------------------
(* A key is [text, padded]; texts of 20 characters or less are in Short.    *)
Short == {"short"}
KeyFields == <<"apiKey", "anthropicApiKey", "key", "token">>

ValidKey(key) == key # NotGiven /\ key.text \notin Short
Trim(key) == [key EXCEPT !.padded = FALSE]

(* discoverClaudeCredentialsFile; a file is a function from the fields it   *)
(* has, or NoRow if it cannot be read or holds no object.                   *)
DiscoverFile(file) ==
    IF file = NoRow THEN NotGiven ELSE
    LET good == {k \in DOMAIN KeyFields :
                   KeyFields[k] \in DOMAIN file /\ ValidKey(file[KeyFields[k]])}
        first == CHOOSE k \in good : \A j \in good : k <= j IN
    IF good = {} THEN NotGiven ELSE Trim(file[KeyFields[first]])

(* discoverAnthropicCredentials: the environment first.                     *)
Discover(envKey, file) ==
    IF ValidKey(envKey) THEN Trim(envKey) ELSE DiscoverFile(file)

(* writeClaudeCredentialsFile: merged into the file, which is replaced      *)
(* whole; a short key is refused.                                           *)
WriteCredentials(file, key) ==
    IF ~ValidKey(key) THEN file
    ELSE IF file = NoRow THEN [f \in {"apiKey"} |-> key]
    ELSE [f \in DOMAIN file \cup {"apiKey"} |->
            IF f = "apiKey" THEN key ELSE file[f]]

-----------------------------------------------------------------------------
(* The status a provider was last given by a setup or a patch, NoRow before *)
(* its first setup: what the project decided about it last.                 *)
Decided(last, r) ==
    [p \in ProviderKeys |->
        IF r.route = "/model-setup" /\ r.provider = p
        THEN Given(r.status, "pending_approval")
        ELSE IF /\ r.route = "/model-providers" /\ r.provider = p
                /\ r.field = "status" /\ last[p] # NoRow
        THEN r.value ELSE last[p]]

LastDecided(requests) ==
    FoldLeft(Decided, [p \in ProviderKeys |-> NoRow], requests)

IsProvider(p) == p = [auth |-> p.auth, secret |-> p.secret, status |-> p.status]
IsSecret(s)   == s = [reference |-> s.reference, status |-> s.status]
IsModel(m)    == m = [enabled |-> m.enabled, caps |-> m.caps] /\ m.enabled \in BOOLEAN

(* What requests leave: a provider's status is what was decided last and    *)
(* its secret exists, a model has its provider, and slots name models that  *)
(* exist.                                                                   *)
RegistryShape(reg) ==
    /\ reg = [secrets |-> reg.secrets, providers |-> reg.providers,
              models |-> reg.models, slots |-> reg.slots]
    /\ reg.secrets = [p \in ProviderKeys |-> reg.secrets[p]]
    /\ reg.providers = [p \in ProviderKeys |-> reg.providers[p]]
    /\ reg.models = [m \in ModelSlugs |-> reg.models[m]]
    /\ reg.slots = [k \in SlotKeys |-> reg.slots[k]]

ProvidersDecided(reg, last) ==
    \A p \in ProviderKeys :
        IF last[p] = NoRow THEN reg.providers[p] = NoRow
        ELSE IsProvider(reg.providers[p]) /\ reg.providers[p].status = last[p]

ModelsProvided(reg, last) ==
    \A m \in ModelSlugs :
        reg.models[m] # NoRow =>
            IsModel(reg.models[m]) /\ last[ProviderOf[m]] # NoRow

SecretsHeld(reg) ==
    \A p \in ProviderKeys :
        reg.providers[p] # NoRow /\ reg.providers[p].secret # NoRow =>
            /\ reg.providers[p].secret \in ProviderKeys
            /\ reg.secrets[reg.providers[p].secret] # NoRow

SlotsFilled(reg) ==
    \A k \in SlotKeys :
        reg.slots[k] # NoRow =>
            \A m \in {reg.slots[k].primary, reg.slots[k].fallback} \ {NoRow} :
                m \in ModelSlugs /\ reg.models[m] # NoRow

RegistrySound(reg, last) ==
    /\ RegistryShape(reg)
    /\ ProvidersDecided(reg, last)
    /\ ModelsProvided(reg, last)
    /\ SecretsHeld(reg)
    /\ SlotsFilled(reg)

(* Whether a model may serve.                                               *)
MayServe(reg, last, env, slug, required) ==
    /\ slug # NoRow
    /\ reg.models[slug].enabled
    /\ required \subseteq reg.models[slug].caps
    /\ last[ProviderOf[slug]] = "active"
    /\ LET provider == reg.providers[ProviderOf[slug]] IN
        provider.auth = "api_key" =>
            /\ provider.secret # NoRow
            /\ reg.secrets[provider.secret].status = "active"
            /\ reg.secrets[provider.secret].reference \in env

(* Property: whatever was requested before, a slot is served by a model only*)
(* if the last decision about its provider was to activate it, and only if  *)
(* nothing that stands before it in the slot can serve (validateCandidate,  *)
(* packages/policy-engine/src/index.ts:301); a failure leaves nothing       *)
(* usable behind, and every resolution stores one beginning and one end.    *)
ResolvesSoundly(reg, last, env, r) ==
    LET result == ResolveModelSlot(reg, env, r)
        slot   == reg.slots[result.slot]
        over   == OverBudget(r.slot, r.complexity, r.attempt)
        can(slug) == MayServe(reg, last, env, slug, r.required) IN
    /\ result.ok =>
        /\ ~over
        /\ can(result.model)
        /\ IF result.usedFallback THEN ~can(slot.primary)
           ELSE result.model = slot.primary
        /\ reg.providers[ProviderOf[result.model]].auth = "api_key" =>
             TestProviderConfig(reg, ProviderOf[result.model], env) = "ok"
    /\ ~result.ok /\ ~over /\ slot # NoRow =>
        ~can(slot.primary) /\ ~can(slot.fallback)
    /\ Head(result.events) = "requested"
    /\ result.events[Len(result.events)]
         = IF result.ok THEN "succeeded" ELSE "failed"

ResolutionIsSound(requests, env, resolutions) ==
    LET reg  == Registry(requests)
        last == LastDecided(requests) IN
    /\ RegistrySound(reg, last)
    /\ \A r \in resolutions : ResolvesSoundly(reg, last, env, r)

(* Property: the executor of a task never weakens from one attempt to a     *)
(* later one, whatever its complexity, and once the attempts are over they  *)
(* stay over (packages/policy-engine/src/index.ts:182).                     *)
NeverWeakens(slot, complexity, attempt, later) ==
    /\ EffectiveSlot(slot, complexity, attempt) = "executor_strong" =>
        \/ EffectiveSlot(slot, complexity, later) = "executor_strong"
        \/ OverBudget(slot, complexity, later)
    /\ OverBudget(slot, complexity, attempt) => OverBudget(slot, complexity, later)

(* Property: a stored key is the one found from then on, unless the         *)
(* environment has a usable one, and storing it loses no other field of the *)
(* file (packages/model-registry/src/claudeCredentials.ts:131).             *)
StoredKeyIsFound(envKey, file, key) ==
    LET after == WriteCredentials(file, key) IN
    ValidKey(key) =>
        /\ Discover(envKey, after) =
             Trim(IF ValidKey(envKey) THEN envKey ELSE key)
        /\ file # NoRow =>
             \A f \in DOMAIN file \ {"apiKey"} : after[f] = file[f]
=============================================================================
