----------------------------- MODULE AuthService -----------------------------
(***************************************************************************)
(* core::AuthService: stream keys, global or of one application, and the   *)
(* attempts per address in the last minute.  Each operation runs under the *)
(* lock of the table it touches.                                           *)
(***************************************************************************)
EXTENDS Naturals, Sequences, SequencesExt, FiniteSets

CONSTANTS
  AuthApps, StreamKeys,
  AttemptLimit, Minute,    \* attempts per window, the window in ticks
  AuthHorizon              \* bound: time
ASSUME AuthAssumption == {AttemptLimit, Minute, AuthHorizon} \subseteq Nat

VARIABLES
  globalStreamKeys, appScopedKeys,
  authConfig,      \* config_: is publishing, is subscribing authenticated?
  attempts,        \* rateLimitState_ of one address
  aclRuleIds,      \* aclRules_: stored, never consulted
  authNow,         \* the steady clock
  admitted,        \* history: times at which checkRateLimit admitted an attempt
  revoked          \* history: keys removed or cleared everywhere, not added since

authVars == <<globalStreamKeys, appScopedKeys, authConfig, attempts,
              aclRuleIds, authNow, admitted, revoked>>

AuthConfigs == [publishAuthEnabled : BOOLEAN, subscribeAuthEnabled : BOOLEAN]

AuthInit ==
  /\ globalStreamKeys = {} /\ appScopedKeys = [a \in AuthApps |-> {}]
  /\ authConfig = [publishAuthEnabled |-> TRUE, subscribeAuthEnabled |-> FALSE]
  /\ attempts = <<>> /\ aclRuleIds = {} /\ authNow = 0 /\ admitted = <<>>
  /\ revoked = StreamKeys

isValidStreamKey(a, k) == k \in globalStreamKeys \/ k \in appScopedKeys[a]

\* The empty key is never valid.
validatePublish(a, k) == authConfig.publishAuthEnabled => isValidStreamKey(a, k)
validateSubscribe(a, k) == authConfig.subscribeAuthEnabled => isValidStreamKey(a, k)

-----------------------------------------------------------------------------

KeysChange(g, s, r) ==
  /\ globalStreamKeys' = g /\ appScopedKeys' = s /\ revoked' = r
  /\ UNCHANGED <<authConfig, attempts, aclRuleIds, authNow, admitted>>

\* generateStreamKey adds a random key to the global ones.  No limit is
\* applied (maxStreamKeys is not read).
addStreamKey(k, scope) ==
  IF scope = "global"
  THEN KeysChange(globalStreamKeys \union {k}, appScopedKeys, revoked \ {k})
  ELSE KeysChange(globalStreamKeys, [appScopedKeys EXCEPT ![scope] = @ \union {k}],
                  revoked \ {k})

\* Mutant: a key removed for all applications stays with those that scoped it.
removeGlobalOnly(k, scope) ==
  IF scope = "global"
  THEN KeysChange(globalStreamKeys \ {k}, appScopedKeys, revoked \union {k})
  ELSE KeysChange(globalStreamKeys, [appScopedKeys EXCEPT ![scope] = @ \ {k}], revoked)

\* Without an application the key goes everywhere.
removeStreamKey(k, scope) ==
  IF scope = "global"
  THEN KeysChange(globalStreamKeys \ {k}, [a \in AuthApps |-> appScopedKeys[a] \ {k}],
                  revoked \union {k})
  ELSE KeysChange(globalStreamKeys, [appScopedKeys EXCEPT ![scope] = @ \ {k}], revoked)

clearStreamKeys == KeysChange({}, [a \in AuthApps |-> {}], StreamKeys)

updateAuthConfig(c) ==
  /\ authConfig' = c
  /\ UNCHANGED <<globalStreamKeys, appScopedKeys, attempts, aclRuleIds, authNow,
                 admitted, revoked>>

\* addACLRule and removeACLRule.
changeACL(r, add) ==
  /\ aclRuleIds' = IF add THEN aclRuleIds \union {r} ELSE aclRuleIds \ {r}
  /\ UNCHANGED <<globalStreamKeys, appScopedKeys, authConfig, attempts, authNow,
                 admitted, revoked>>

\* Mutant: attempts are forgotten one tick early.
RecentShort(s) == SubSeq(s, Cardinality({i \in DOMAIN s : s[i] + Minute <= authNow}) + 1, Len(s))

\* Attempts older than a minute are forgotten, one exactly a minute old is not.
\* They are in the order of time, so that the old ones are the first.
Recent(s) == SubSeq(s, Cardinality({i \in DOMAIN s : s[i] + Minute < authNow}) + 1, Len(s))

checkRateLimit ==
  LET kept == Recent(attempts)
      ok == Len(kept) < AttemptLimit
  IN
  /\ attempts' = IF ok THEN Append(kept, authNow) ELSE kept
  /\ admitted' = IF ok THEN Append(admitted, authNow) ELSE admitted
  /\ UNCHANGED <<globalStreamKeys, appScopedKeys, authConfig, aclRuleIds, authNow, revoked>>

authTick ==
  /\ authNow < AuthHorizon
  /\ authNow' = authNow + 1
  /\ UNCHANGED <<globalStreamKeys, appScopedKeys, authConfig, attempts,
                 aclRuleIds, admitted, revoked>>

AuthNext ==
  \/ \E k \in StreamKeys, scope \in AuthApps \union {"global"} :
       addStreamKey(k, scope) \/ removeStreamKey(k, scope)
  \/ clearStreamKeys
  \/ \E c \in AuthConfigs : updateAuthConfig(c)
  \/ \E r \in {"rule"}, add \in BOOLEAN : changeACL(r, add)
  \/ checkRateLimit \/ authTick

-----------------------------------------------------------------------------

(***************************************************************************)
(* A revoked key opens nothing while authentication is on, also when it    *)
(* had been added for applications as well, and no address is admitted     *)
(* more than AttemptLimit times in a minute, wherever the minute begins.   *)
(***************************************************************************)
AuthSound ==
  /\ \A k \in revoked, a \in AuthApps :
       /\ authConfig.publishAuthEnabled => ~validatePublish(a, k)
       /\ authConfig.subscribeAuthEnabled => ~validateSubscribe(a, k)
  /\ \A i \in DOMAIN admitted :
       Cardinality({j \in DOMAIN admitted : admitted[j] \in admitted[i]..(admitted[i] + Minute)})
         <= AttemptLimit
=============================================================================
