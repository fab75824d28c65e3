----------------------------- MODULE SpamFilter -----------------------------
(***************************************************************************)
(* The spam evaluation of one inbound message (mail/spam.ts) over the      *)
(* answers of the Spamhaus lookups (mail/dnsbl.ts).  Names, addresses and  *)
(* bodies are abstract: a host is a domain with or without a subdomain, a  *)
(* piece of content is what a lookup may be asked about, phrasing is the   *)
(* number of keywords it contains.  The functions are pure; what can vary  *)
(* is the message, the mailbox's level, the key, and every answer.         *)
(***************************************************************************)
EXTENDS Integers, Sequences, FiniteSets, SequencesExt

CONSTANT PublicIps  \* addresses isPublicIp accepts

SuspiciousAt == 2
SpamAt == 5

Methods == {"spf", "dkim", "dmarc"}
Absent == "absent"

\* The first Authentication-Results header that names a method decides it; a
\* Received-SPF header stands in for a missing spf.
ParseAuthResults(m) ==
  LET first(method) ==
        LET named == {i \in 1..Len(m.results) : m.results[i][method] # Absent}
        IN  IF named = {} THEN Absent ELSE m.results[Min(named)][method]
  IN  [method \in Methods |->
         IF method = "spf" /\ first("spf") = Absent THEN m.receivedSpf ELSE first(method)]

Authenticated(auth) == auth["dmarc"] = "pass"

AuthScore(auth) ==
  CASE auth["dmarc"] = "fail" -> 5
    [] auth["dmarc"] # "fail" /\ auth["spf"] = "fail" /\ auth["dkim"] = "fail" -> 5
    [] \A method \in Methods : auth[method] = Absent -> 2
    [] OTHER -> IF \/ auth["spf"] # "pass" /\ auth["dkim"] # "pass"
                   \/ auth["dmarc"] \in {Absent, "none"}
                THEN 2 ELSE 0

----------------------------------------------------------------------------
(***************************************************************************)
(* Answers.  A lookup yields a set of codes, empty when nothing is listed, *)
(* when DNS fails and when the answer is an error code; of several codes   *)
(* the most severe counts.                                                 *)
(***************************************************************************)
NotListed == "notListed"

PickFirst(order, codes) ==
  LET listed == {i \in 1..Len(order) : order[i] \in codes}
  IN  IF listed = {} THEN NotListed ELSE order[Min(listed)]

PickIp(codes) == PickFirst(<<"drop", "sbl", "css", "bcl", "xbl", "pbl">>, codes)

\* A DBL listing outranks a ZRD one ("new").
PickDomain(codes) ==
  PickFirst(<<"botnet", "malware", "phish", "spam", "abused", "new">>, codes)

PickHbl(codes) ==
  PickFirst(<<"malware-file", "suspicious-file", "spam-url", "spam-wallet", "spam-email">>, codes)

\* Weights stay below SpamAt, the hash of known malware apart.
IpWeight(kind) == IF kind = "pbl" THEN 2 ELSE 4
DomainWeight(kind) == IF kind \in {"abused", "new"} THEN 2 ELSE 4
HblWeight(kind) == IF kind = "malware-file" THEN 5 ELSE 3

UpTo(n, s) == SubSeq(s, 1, IF Len(s) < n THEN Len(s) ELSE n)

Deduped(s) ==
  FoldLeft(LAMBDA seen, x : IF x \in Range(seen) THEN seen ELSE Append(seen, x), <<>>, s)

SumOf(weight(_), s) == FoldLeft(LAMBDA total, x : total + weight(x), 0, s)

----------------------------------------------------------------------------
(***************************************************************************)
(* Names: each host of the sending side and each link expands to itself    *)
(* and the registered domain above it.                                     *)
(***************************************************************************)
Apex == "apex"
Name(h) == [sub |-> h.sub, domain |-> h.domain]
LookupNames(h) ==
  IF h.sub = Apex THEN <<Name(h)>> ELSE <<Name(h), [sub |-> Apex, domain |-> h.domain]>>

Expanded(hosts) ==
  FlattenSeq([i \in 1..Len(hosts) |->
    LET names == LookupNames(hosts[i])
    IN  [j \in 1..Len(names) |-> [name |-> names[j], source |-> hosts[i].source]]])

\* hosts: a sequence of [sub, domain, source]; the first source of a name stays.
Candidates(hosts) ==
  FoldLeft(LAMBDA kept, c : IF \E k \in Range(kept) : k.name = c.name
                            THEN kept ELSE Append(kept, c), <<>>, Expanded(hosts))

DomainReject(kind, c) ==
  /\ c.source # "link" /\ kind # "abused"
  /\ c.source = "sender" => c.name.sub = Apex

RefusesListed(authenticated, kind, c) == ~authenticated /\ DomainReject(kind, c)

ScoreDomains(m, dns, authenticated) ==
  LET sending == UpTo(5, Candidates(m.hosts))
      links   == UpTo(4, SelectSeq(Candidates(m.links),
                           LAMBDA c : \A s \in Range(sending) : s.name # c.name))
      kind(c) == PickDomain(dns.names[c.name])
      listed(s) == SelectSeq(s, LAMBDA c : kind(c) # NotListed)
      linkScore == SumOf(LAMBDA c : DomainWeight(kind(c)) \div 2, listed(links))
  IN  [score  |-> SumOf(LAMBDA c : DomainWeight(kind(c)), listed(sending))
                    + (IF linkScore > 3 THEN 3 ELSE linkScore),
       reject |-> \E c \in Range(listed(sending \o links)) :
                    RefusesListed(authenticated, kind(c), c)]

\* m.content: what the hash lists may be asked about, by context.
ContentTargets(m) ==
  UpTo(3, Deduped(m.content["url"])) \o UpTo(4, Deduped(m.content["email"]))
    \o UpTo(2, Deduped(m.content["cw"])) \o UpTo(3, m.content["file"])

ScoreContent(m, dns) ==
  LET kind(t) == PickHbl(dns.content[t])
      score == SumOf(LAMBDA t : IF kind(t) = NotListed THEN 0 ELSE HblWeight(kind(t)),
                     ContentTargets(m))
  IN  IF score > 6 THEN 6 ELSE score

ScoreHeuristics(m) ==
  (IF m.keywords > 3 THEN 3 ELSE m.keywords)
    + (IF m.shouting THEN 1 ELSE 0) + (IF m.punctuation THEN 1 ELSE 0)
    + (IF m.urgentNoReply THEN 2 ELSE 0)

----------------------------------------------------------------------------
(***************************************************************************)
(* Relays: the public addresses of the Received chain, nearest hop first.  *)
(***************************************************************************)
ExtractRelayIps(m) ==
  LET hops == FlattenSeq([i \in 1..Len(m.received) |->
                [j \in 1..Len(m.received[i]) |->
                   [ip |-> m.received[i][j], connecting |-> i = 1]]])
      public == SelectSeq(hops, LAMBDA r : r.ip \in PublicIps)
  IN  UpTo(3, FoldLeft(LAMBDA kept, r : IF \E k \in Range(kept) : k.ip = r.ip
                                        THEN kept ELSE Append(kept, r), <<>>, public))

IpReject(r, kind) == kind # "pbl" \/ r.connecting

\* Mutant of TheHit: the nearest listed hop counts, refusing or not.
NearestHit(hits, blocking) == Head(hits)

\* The listing that counts: the first one that refuses, or else the first one.
TheHit(hits, blocking) == IF blocking # <<>> THEN Head(blocking) ELSE Head(hits)

IpVerdict(m, dns) ==
  LET kind(r)  == PickIp(dns.ips[r.ip])
      hits     == SelectSeq(ExtractRelayIps(m), LAMBDA r : kind(r) # NotListed)
      blocking == SelectSeq(hits, LAMBDA r : IpReject(r, kind(r)))
      hit      == TheHit(hits, blocking)
  IN  IF hits = <<>> THEN [score |-> 0, reject |-> FALSE]
      ELSE [score |-> IpWeight(kind(hit)), reject |-> IpReject(hit, kind(hit))]

ScoreToVerdict(score) ==
  CASE score >= SpamAt -> "spam"
    [] score >= SuspiciousAt /\ score < SpamAt -> "suspicious"
    [] OTHER -> "clean"

VerdictRank(v) == CASE v = "spam" -> 2 [] v = "suspicious" -> 1 [] OTHER -> 0

\* What the classifier makes of the verdict.  ai: its answer, "none" when the
\* budget is spent, the call failed or the answer could not be parsed.
Refine(verdict, ai) ==
  IF ai # "none" /\ VerdictRank(ai) > VerdictRank(verdict) THEN ai ELSE verdict

Blocked(score) == [verdict |-> "spam", score |-> score, reject |-> TRUE]

\* level: the mailbox's filter; dqs: whether a key is configured and its plan
\* includes the hash lists.
EvaluateSpam(m, level, dqs, dns, ai) ==
  LET auth          == ParseAuthResults(m)
      authenticated == Authenticated(auth)
      nothing       == [score |-> 0, reject |-> FALSE]
      lookups       == level # "auth" /\ dqs.key
      names    == IF lookups THEN ScoreDomains(m, dns, authenticated) ELSE nothing
      content  == IF lookups /\ dqs.hbl THEN ScoreContent(m, dns) ELSE 0
      forgery  == IF authenticated THEN 0 ELSE AuthScore(auth)
      phrasing == IF level = "auth" THEN 0 ELSE ScoreHeuristics(m)
      relays   == IF lookups /\ ~authenticated THEN IpVerdict(m, dns) ELSE nothing
      before   == names.score + content
      score    == before + forgery + (IF authenticated THEN 0 ELSE phrasing) + relays.score
      verdict  == ScoreToVerdict(score)
      asksAi   == /\ level = "ai" /\ score < SpamAt
                  /\ score + (IF authenticated THEN phrasing ELSE 0) >= SuspiciousAt
  IN  CASE names.reject -> Blocked(before)
        [] ~names.reject /\ relays.reject -> Blocked(score)
        [] OTHER -> [verdict |-> IF asksAi THEN Refine(verdict, ai) ELSE verdict,
                     score |-> score, reject |-> FALSE]

----------------------------------------------------------------------------
(***************************************************************************)
(* Properties, for one message: of the outcomes there are with and without *)
(* the classifier, and with each of the listings lost.                     *)
(***************************************************************************)
\* A lookup that fails reads as "not listed": the answers without those for one
\* name, address or content.
Losses(dns) ==
  UNION {{[dns EXCEPT ![what][x] = {}] : x \in {y \in DOMAIN dns[what] : dns[what][y] # {}}} : what \in DOMAIN dns}

Outcomes(m, level, dqs, dns, ai) ==
  [told \in ({dns} \union Losses(dns)) \X {ai, "none"} |-> EvaluateSpam(m, level, dqs, told[1], told[2])]

\* A message that passed DMARC is scored and filed, never refused: its domain's
\* owner sent it, so a listing must not cost the mail (spam.ts, what to refuse).
RefusesOnlyForged(m, outcome, dns, ai) ==
  outcome[<<dns, ai>>].reject => ~Authenticated(ParseAuthResults(m))

\* The classifier reads what the sender wrote, so it may escalate and never
\* acquit: whatever it says, the message ends up no better than without it.
ClassifierNeverAcquits(m, outcome, dns, ai) ==
  /\ VerdictRank(outcome[<<dns, ai>>].verdict) >= VerdictRank(outcome[<<dns, "none">>].verdict)
  /\ outcome[<<dns, ai>>].reject = outcome[<<dns, "none">>].reject

Listings(m, dns) ==
  LET sending == Candidates(m.hosts \o m.links)
  IN  Cardinality({c \in Range(sending) : dns.names[c.name] # {}})
        + Cardinality({i \in DOMAIN ContentTargets(m) : dns.content[ContentTargets(m)[i]] # {}})
        + Cardinality({r \in Range(ExtractRelayIps(m)) : dns.ips[r.ip] # {}})

\* One listing is a second opinion: with no sign of forgery and no spam phrasing
\* it leaves a message that is accepted out of Spam, a known malware file apart.
OneListingIsNotEnough(m, outcome, dns, ai) ==
  LET auth == ParseAuthResults(m)
  IN  (/\ Authenticated(auth) \/ AuthScore(auth) = 0
       /\ ScoreHeuristics(m) = 0
       /\ Listings(m, dns) <= 1
       /\ \A t \in Range(ContentTargets(m)) : "malware-file" \notin dns.content[t])
      => outcome[<<dns, "none">>].reject \/ outcome[<<dns, "none">>].verdict # "spam"

\* Losing what is known of a name, an address or a content never turns a message
\* away and never makes it worse.
LostAnswersAcquit(m, outcome, dns, ai) ==
  \A lost \in Losses(dns) :
    /\ VerdictRank(outcome[<<lost, ai>>].verdict) <= VerdictRank(outcome[<<dns, ai>>].verdict)
    /\ outcome[<<lost, ai>>].reject => outcome[<<dns, ai>>].reject
============================================================================
