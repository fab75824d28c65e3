----------------------------- MODULE MCServices -----------------------------
(***************************************************************************)
(* The smaller services of the worker, each on its own instance.  They     *)
(* share no state here: a behaviour is that of the one part it begins with.*)
(***************************************************************************)
EXTENDS SystemSecrets, RateLimit, ServicePolling, Addresses, Reminders, RuleSends,
    AiFeatures, TLC

VARIABLE part

Symmetry == Permutations(Workers)

\* One name of the two is an address, the other is not.
SignInNames == [u1 |-> "m1", u2 |-> "u2"]

\* Two mailboxes that forward to each other.
Circle == [a |-> <<"b">>, b |-> <<"a">>]

MCInit ==
    /\ part \in {"secrets", "rates", "passwords", "polling", "addresses", "reminders",
                 "rules", "meters", "summaries"}
    /\ SecretsInit /\ RateInit /\ PasswordsInit /\ PollingInit
    /\ AddressesInit /\ RemindersInit /\ RuleSendsInit /\ AiInit

MCNext ==
    /\ UNCHANGED part
    /\ \/ /\ part = "secrets" /\ SecretsNext
          /\ UNCHANGED <<rateVars, passwordVars, pollVars, addressVars, remindVars,
                         ruleVars, aiVars>>
       \/ /\ part = "rates" /\ RateNext
          /\ UNCHANGED <<secretVars, passwordVars, pollVars, addressVars, remindVars,
                         ruleVars, aiVars>>
       \/ /\ part = "passwords" /\ PasswordsNext
          /\ UNCHANGED <<secretVars, rateVars, pollVars, addressVars, remindVars,
                         ruleVars, aiVars>>
       \/ /\ part = "polling" /\ PollingNext
          /\ UNCHANGED <<secretVars, rateVars, passwordVars, addressVars, remindVars,
                         ruleVars, aiVars>>
       \/ /\ part = "addresses" /\ AddressesNext
          /\ UNCHANGED <<secretVars, rateVars, passwordVars, pollVars, remindVars,
                         ruleVars, aiVars>>
       \/ /\ part = "reminders" /\ RemindersNext
          /\ UNCHANGED <<secretVars, rateVars, passwordVars, pollVars, addressVars,
                         ruleVars, aiVars>>
       \/ /\ part = "rules" /\ RuleSendsNext
          /\ UNCHANGED <<secretVars, rateVars, passwordVars, pollVars, addressVars,
                         remindVars, aiVars>>
       \/ /\ part = "meters" /\ MeterNext
          /\ UNCHANGED <<secretVars, rateVars, passwordVars, pollVars, addressVars,
                         remindVars, ruleVars>>
       \/ /\ part = "summaries" /\ SummaryNext
          /\ UNCHANGED <<secretVars, rateVars, passwordVars, pollVars, addressVars,
                         remindVars, ruleVars>>

MCVars == <<part, secretVars, rateVars, passwordVars, pollVars, addressVars,
            remindVars, ruleVars, aiVars>>

MCSpec == MCInit /\ [][MCNext]_MCVars

\* rate-limit.ts, app-passwords.ts, mail/rule-sends.ts, mail/ai.ts: no limit of the worker
\* is exceeded and none keeps out who is below it, unless checks overlapped.
LimitsHold == WindowHolds /\ HolderIsTried /\ SendLimitsHold /\ MeterHolds

----------------------------------------------------------------------------
\* Nobody is evicted: overlap alone is what the comment of loadOrCreateVapid speaks of.
Overlapping ==
    \E i \in Isolates :
       ReadVapid(i) \/ ReadOtherHalf(i) \/ WritePublic(i) \/ WritePrivate(i)

UndisturbedSpec ==
    /\ MCInit /\ part = "secrets"
    /\ [][/\ Overlapping
          /\ UNCHANGED <<part, rateVars, passwordVars, pollVars, addressVars, remindVars,
                         ruleVars, aiVars>>]_MCVars
=============================================================================
