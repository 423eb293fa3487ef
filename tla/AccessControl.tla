---------------------------- MODULE AccessControl ----------------------------
(***************************************************************************)
(* core::AccessControl: access rules by address range, and the limit on    *)
(* failed attempts.  A caller asks checkRateLimit, authenticates, and      *)
(* records the outcome: three calls, between which others come in.         *)
(***************************************************************************)
EXTENDS Naturals, Sequences, FiniteSets

CONSTANTS
  Bits, Bytes,            \* bits of a byte, bytes of an address (8 and 4, or 16)
  RuleIds, RuleApps,
  LoginThreads,           \* threads that authenticate one address
  MaxAttempts, Window, BlockFor,   \* the configuration, times in ticks
  AclHorizon              \* bound: time
ASSUME AclAssumption ==
  /\ {Bits, Bytes, MaxAttempts} \subseteq Nat \ {0}
  /\ {Window, BlockFor, AclHorizon} \subseteq Nat
  /\ IsFiniteSet(LoginThreads)

VARIABLES
  aclRules,      \* aclRules_: id -> rule
  failedAttempts, blockedUntil,   \* RateLimitState of the address
  login,         \* where each thread is
  aclNow,        \* the steady clock
  passed         \* history: when attempts failed that checkRateLimit had admitted

aclVars == <<aclRules, failedAttempts, blockedUntil, login, aclNow, passed>>

-----------------------------------------------------------------------------
\* Address ranges

Addresses == [1..Bytes -> 0..(2^Bits - 1)]

\* Mutant: the mask of the last byte keeps one bit too few.
maskShort(x, bits) == x - (x % 2^(Bits - bits + 1))

\* The byte with all but the highest bits cleared.
Mask(x, bits) == x - (x % 2^(Bits - bits))

\* Whole bytes first, then the bits left over in the next byte.
matchesCIDR(ip, address, prefixLength) ==
  LET fullBytes == prefixLength \div Bits
      remainingBits == prefixLength % Bits
  IN  /\ \A i \in 1..fullBytes : ip[i] = address[i]
      /\ remainingBits > 0 /\ fullBytes < Bytes =>
           Mask(ip[fullBytes + 1], remainingBits) = Mask(address[fullBytes + 1], remainingBits)

\* parseCIDR: a prefix that is too long makes the rule invalid; without a
\* prefix (-1 in the code) the whole address counts.
ValidPrefix(p) == p <= Bits * Bytes

\* A rule of an application does not apply to others, nor to no application.
Applies(rule, app) == rule.app = "any" \/ rule.app = app

\* A rule that denies wins; without one access is given.
checkACL(ip, app) ==
  ~ \E r \in DOMAIN aclRules :
      /\ Applies(aclRules[r], app)
      /\ ValidPrefix(aclRules[r].prefix)
      /\ matchesCIDR(ip, aclRules[r].address, aclRules[r].prefix)
      /\ aclRules[r].action = "Deny"

AclInit ==
  /\ aclRules = <<>>
  /\ failedAttempts = <<>> /\ blockedUntil = 0
  /\ login = [t \in LoginThreads |-> "idle"]
  /\ aclNow = 1 /\ passed = <<>>

addACLRule(r, rule) ==
  /\ aclRules' = [s \in DOMAIN aclRules \union {r} |-> IF s = r THEN rule ELSE aclRules[s]]
  /\ UNCHANGED <<failedAttempts, blockedUntil, login, aclNow, passed>>

\* removeACLRule; clearACLRules removes them all.
removeACLRules(S) ==
  /\ S # {}
  /\ aclRules' = [s \in DOMAIN aclRules \ S |-> aclRules[s]]
  /\ UNCHANGED <<failedAttempts, blockedUntil, login, aclNow, passed>>

-----------------------------------------------------------------------------
\* Failed attempts; a blockedUntil of 0 is none

\* Those outside the window go; they are in the order of time, so the first.
Current(s) == SubSeq(s, Cardinality({i \in DOMAIN s : s[i] + Window < aclNow}) + 1, Len(s))

\* While blocked the answer is no; after the block the state is forgotten.
checkLoginRate(t) ==
  LET expired == blockedUntil # 0 /\ aclNow >= blockedUntil
      kept == IF expired THEN <<>>
              ELSE IF blockedUntil # 0 THEN failedAttempts ELSE Current(failedAttempts)
  IN
  /\ login[t] = "idle"
  /\ failedAttempts' = kept
  /\ blockedUntil' = IF expired THEN 0 ELSE blockedUntil
  /\ login' = [login EXCEPT ![t] =
       IF expired \/ (blockedUntil = 0 /\ Len(kept) < MaxAttempts) THEN "admitted" ELSE "idle"]
  /\ UNCHANGED <<aclRules, aclNow, passed>>

\* Mutant: the block has no duration.
blockNow(t) ==
  /\ login[t] = "admitted"
  /\ failedAttempts' = Append(Current(failedAttempts), aclNow)
  /\ blockedUntil' = IF Len(failedAttempts') >= MaxAttempts THEN aclNow ELSE blockedUntil
  /\ passed' = Append(passed, aclNow)
  /\ login' = [login EXCEPT ![t] = "idle"]
  /\ UNCHANGED <<aclRules, aclNow>>

\* Every failure at the limit begins the block anew.
recordFailedAttempt(t) ==
  /\ login[t] = "admitted"
  /\ failedAttempts' = Append(Current(failedAttempts), aclNow)
  /\ blockedUntil' = IF Len(failedAttempts') >= MaxAttempts THEN aclNow + BlockFor ELSE blockedUntil
  /\ passed' = Append(passed, aclNow)
  /\ login' = [login EXCEPT ![t] = "idle"]
  /\ UNCHANGED <<aclRules, aclNow>>

recordSuccessfulAuth(t) ==
  /\ login[t] = "admitted"
  /\ failedAttempts' = <<>> /\ blockedUntil' = 0
  /\ passed' = <<>>
  /\ login' = [login EXCEPT ![t] = "idle"]
  /\ UNCHANGED <<aclRules, aclNow>>

aclTick ==
  /\ aclNow < AclHorizon
  /\ aclNow' = aclNow + 1
  /\ UNCHANGED <<aclRules, failedAttempts, blockedUntil, login, passed>>

ACLRules == [action : {"Allow", "Deny"}, app : RuleApps \union {"any"},
             address : {[i \in 1..Bytes |-> 1]}, prefix : {1, Bits, Bits * Bytes + 1}]

AclNext ==
  \/ \E r \in RuleIds : (\E rule \in ACLRules : addACLRule(r, rule)) \/ removeACLRules({r})
  \/ removeACLRules(DOMAIN aclRules)
  \/ \E t \in LoginThreads :
       checkLoginRate(t) \/ recordFailedAttempt(t) \/ recordSuccessfulAuth(t)
  \/ aclTick

-----------------------------------------------------------------------------

\* What a prefix means: the first bits of the addresses, read as one number.
AddressNumber(a) ==
  LET value[i \in 0..Bytes] == IF i = 0 THEN 0 ELSE value[i - 1] * 2^Bits + a[i]
  IN  value[Bytes]

SamePrefix(a, b, p) ==
  AddressNumber(a) \div 2^(Bits * Bytes - p) = AddressNumber(b) \div 2^(Bits * Bytes - p)

(***************************************************************************)
(* The comparison by bytes and a mask is the comparison of the first bits, *)
(* for every prefix length (0, whole bytes and the full address included), *)
(* and a rule that denies an address is not overruled by one that allows   *)
(* it.                                                                     *)
(***************************************************************************)
RulesExact ==
  /\ \A r \in DOMAIN aclRules, ip \in Addresses, p \in 0..(Bits * Bytes) :
       matchesCIDR(ip, aclRules[r].address, p) <=> SamePrefix(ip, aclRules[r].address, p)
  /\ \A r \in DOMAIN aclRules, ip \in Addresses :
       aclRules[r].action = "Deny" /\ aclRules[r].app = "any" /\ ValidPrefix(aclRules[r].prefix)
         /\ SamePrefix(ip, aclRules[r].address, aclRules[r].prefix)
       => \A app \in RuleApps : ~checkACL(ip, app)

(***************************************************************************)
(* The limit under concurrency.  Attempts admitted before a block may fail *)
(* during it or after it has ended; those that fail after its end and      *)
(* before the next check are forgotten with the block.  So within a window *)
(* (shorter than the block) there are MaxAttempts failures and at most two *)
(* more for each other thread: one late, one admitted with the last.       *)
(***************************************************************************)
AttemptsBounded ==
  Window < BlockFor =>
    \A i \in DOMAIN passed :
      Cardinality({j \in DOMAIN passed : passed[j] \in passed[i]..(passed[i] + Window)})
        <= MaxAttempts + 2 * (Cardinality(LoginThreads) - 1)
=============================================================================
