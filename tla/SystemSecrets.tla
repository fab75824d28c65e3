---------------------------- MODULE SystemSecrets ----------------------------
(***************************************************************************)
(* Secrets generated on first use and kept in system_config: the auth      *)
(* secret and the PGP master key (apps/worker/src/config.ts), and the      *)
(* VAPID key pair of web push (mail/push.ts).                              *)
(*                                                                         *)
(* Worker isolates initialise them independently; every D1 statement is a  *)
(* step, and an isolate may be evicted between two.  A generated value is  *)
(* named after a draw, so no two isolates ever generate the same.          *)
(***************************************************************************)
EXTENDS Naturals

CONSTANTS
    Isolates,  \* calls of the two functions that may overlap
    MaxDraws   \* bound: values ever generated

ASSUME SecretsAssumption == MaxDraws \in Nat

VARIABLES
    config,    \* system_config: key -> value, 0 when there is no row
    draws,     \* values generated so far
    isolates,  \* what each call is about to do
    handed     \* history: [secret: key -> values returned, pairs returned, raced]

secretVars == <<config, draws, isolates, handed>>

Lazy == {"auth_secret", "pgp_master_key"}
ConfigKeys == Lazy \cup {"vapid_public", "vapid_private"}
Ready == [pc |-> "ready"]

SecretsInit ==
    /\ config = [k \in ConfigKeys |-> 0]
    /\ draws = 0
    /\ isolates = [i \in Isolates |-> Ready]
    /\ handed = [secret |-> [k \in Lazy |-> {}], pairs |-> {}, raced |-> FALSE]

Proceed(i, step) == isolates' = [isolates EXCEPT ![i] = step]

\* setConfig writes over what is there.
SetConfig(k, v) == config' = [config EXCEPT ![k] = v]

(***************************************************************************)
(* getOrCreateAuthSecret, getOrCreatePgpMasterKey: insert if absent, then  *)
(* read back what won.                                                     *)
(***************************************************************************)
Return(k, v) == handed' = [handed EXCEPT !.secret[k] = @ \cup {v}]

ReadSecret(i, k) ==
    /\ isolates[i] = Ready
    /\ IF config[k] # 0
       THEN Return(k, config[k]) /\ UNCHANGED <<draws, isolates>>
       ELSE /\ draws < MaxDraws /\ draws' = draws + 1
            /\ Proceed(i, [pc |-> "insert", key |-> k, value |-> draws + 1])
            /\ UNCHANGED handed
    /\ UNCHANGED config

InsertSecret(i) ==
    LET me == isolates[i] IN
    /\ me.pc = "insert"
    /\ SetConfig(me.key, IF config[me.key] = 0 THEN me.value ELSE config[me.key])
    /\ Proceed(i, [me EXCEPT !.pc = "readback"])
    /\ UNCHANGED <<draws, handed>>

\* Mutant of Final: the value generated here, whoever won the insert.
FinalAsGenerated(me) == me.value
Final(me) == config[me.key]

ReadBack(i) ==
    LET me == isolates[i] IN
    /\ me.pc = "readback"
    /\ Return(me.key, Final(me))
    /\ Proceed(i, Ready)
    /\ UNCHANGED <<config, draws>>

(***************************************************************************)
(* getOrCreateVapid: two reads in parallel, two upserts in a row, and the  *)
(* generated pair is what the caller gets.                                 *)
(***************************************************************************)
ReadVapid(i) ==
    /\ isolates[i] = Ready
    /\ \E first \in {"vapid_public", "vapid_private"} :
         Proceed(i, [pc |-> "other", read |-> first, found |-> config[first]])
    /\ UNCHANGED <<config, draws, handed>>

Present(pub, priv) == pub # 0 /\ priv # 0

ReadOtherHalf(i) ==
    LET me == isolates[i]
        pub == IF me.read = "vapid_public" THEN me.found ELSE config["vapid_public"]
        priv == IF me.read = "vapid_private" THEN me.found ELSE config["vapid_private"]
    IN  /\ me.pc = "other"
        /\ IF Present(pub, priv)
           THEN /\ handed' = [handed EXCEPT !.pairs = @ \cup {<<pub, priv>>}]
                /\ Proceed(i, Ready)
                /\ UNCHANGED draws
           ELSE /\ draws < MaxDraws /\ draws' = draws + 1
                /\ Proceed(i, [pc |-> "public", value |-> draws + 1])
                /\ UNCHANGED handed
        /\ UNCHANGED config

\* Another call is between its reads and its writes.
Contended(i) == \E j \in Isolates \ {i} : isolates[j].pc \in {"other", "public", "private"}

WritePublic(i) ==
    /\ isolates[i].pc = "public"
    /\ SetConfig("vapid_public", isolates[i].value)
    /\ Proceed(i, [isolates[i] EXCEPT !.pc = "private"])
    /\ handed' = [handed EXCEPT !.raced = @ \/ Contended(i)]
    /\ UNCHANGED draws

WritePrivate(i) ==
    LET v == isolates[i].value IN
    /\ isolates[i].pc = "private"
    /\ SetConfig("vapid_private", v)
    /\ Proceed(i, Ready)
    /\ handed' = [handed EXCEPT !.pairs = @ \cup {<<v, v>>}, !.raced = @ \/ Contended(i)]
    /\ UNCHANGED draws

Evict(i) ==
    /\ isolates[i] # Ready
    /\ Proceed(i, Ready)
    /\ UNCHANGED <<config, draws, handed>>

SecretsNext ==
    \E i \in Isolates :
       \/ \E k \in Lazy : ReadSecret(i, k)
       \/ InsertSecret(i) \/ ReadBack(i)
       \/ ReadVapid(i) \/ ReadOtherHalf(i) \/ WritePublic(i) \/ WritePrivate(i)
       \/ Evict(i)

SecretsSpec == SecretsInit /\ [][SecretsNext]_secretVars

-----------------------------------------------------------------------------
\* Every isolate that asks for a lazily generated secret gets the same one,
\* however many initialise it at once and wherever they are evicted: cookies
\* signed by one are accepted, and keys wrapped by one unwrapped, by every
\* other (config.ts:27-57).
SecretsAgree ==
    \A k \in Lazy : \A v, w \in handed.secret[k] : v = w

\* A VAPID pair that was handed out is a pair, and the only one, so a browser
\* subscribed with its public key is reached by what the private key signs;
\* unless two isolates initialised it at once.  An eviction between the two
\* upserts leaves half a pair, which the next call replaces (push.ts:22-44).
VapidPairStays ==
    handed.raced \/ \A p, q \in handed.pairs : p = q /\ p[1] = p[2]

\* What push.ts:38-39 says of two isolates: both keys are written together,
\* and so concurrent isolates converge.  Once none is initialising, the two
\* rows hold one pair.
VapidConverges ==
    (\A i \in Isolates : isolates[i] = Ready) /\ config["vapid_private"] # 0
        => config["vapid_public"] = config["vapid_private"]

\* Isolates share their secrets, however they came by them.
SecretsShared == SecretsAgree /\ VapidPairStays
=============================================================================
