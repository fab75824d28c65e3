------------------------------ MODULE MailRules ------------------------------
(***************************************************************************)
(* The user rules of a mailbox against one inbound message (mail/rules.ts) *)
(* and the sender blocklist (mail/blocklist.ts).  Texts are sequences of   *)
(* abstract letters; case folding is left out, both sides are folded.      *)
(***************************************************************************)
EXTENDS Integers, Sequences, FiniteSets, SequencesExt

CONSTANT MaxHaystack  \* letters of a field that are looked at

NewLine == "newline"
Star == "*"
AnyOne == "?"

\* Of a compiled glob each letter stands for itself, "?" for any letter and "*"
\* for any run of letters, a line break excepted.
PieceMatches(piece, g) ==
  CASE g = Star   -> NewLine \notin Range(piece)
    [] g = AnyOne -> Len(piece) = 1 /\ piece # <<NewLine>>
    [] OTHER      -> piece = <<g>>

WildcardMatches(h, glob) ==
  \E cut \in [0..Len(glob) -> 0..Len(h)] :
    /\ cut[0] = 0 /\ cut[Len(glob)] = Len(h)
    /\ \A j \in 1..Len(glob) : /\ cut[j - 1] <= cut[j]
                               /\ PieceMatches(SubSeq(h, cut[j - 1] + 1, cut[j]), glob[j])

Finds(h, v) == \E i \in 0..(Len(h) - Len(v)) : SubSeq(h, i + 1, i + Len(v)) = v

\* A regular expression is the set of texts it finds something in; one that does
\* not compile finds nothing.
MatchOp(h, op, v) ==
  CASE op = "contains"   -> Finds(h, v)
    [] op = "equals"     -> h = v
    [] op = "startsWith" -> IsPrefix(v, h)
    [] op = "endsWith"   -> IsSuffix(v, h)
    [] op = "wildcard"   -> WildcardMatches(h, v)
    [] op = "regex"      -> v # "invalid" /\ h \in v

ConditionMatches(c, m) ==
  LET text == m[c.field]
  IN  MatchOp(SubSeq(text, 1, IF Len(text) < MaxHaystack THEN Len(text) ELSE MaxHaystack),
              c.op, c.value)

\* A rule without conditions never matches.
RuleMatches(r, m) ==
  /\ r.conditions # {}
  /\ IF r.mode = "any" THEN \E c \in r.conditions : ConditionMatches(c, m)
                       ELSE \A c \in r.conditions : ConditionMatches(c, m)

Nowhere == [user |-> "none", folder |-> "none"]

NoOutcome ==
  [reject |-> FALSE, spam |-> FALSE, read |-> FALSE, labels |-> {}, folder |-> Nowhere,
   forwards |-> <<>>, replies |-> <<>>, stop |-> FALSE]

Apply(out, r, a) ==
  CASE a.type = "applyLabel"     -> [out EXCEPT !.labels = @ \union {a.arg}]
    [] a.type = "moveFolder"     -> [out EXCEPT !.folder = [user |-> r.createdBy, folder |-> a.arg]]
    [] a.type = "markRead"       -> [out EXCEPT !.read = TRUE]
    [] a.type = "markSpam"       -> [out EXCEPT !.spam = TRUE]
    [] a.type = "forward"        -> [out EXCEPT !.forwards = Append(@, [rule |-> r.id, to |-> a.arg])]
    [] a.type = "autoReply"      -> [out EXCEPT !.replies = Append(@, [rule |-> r.id])]
    [] a.type = "hardBlock"      -> [out EXCEPT !.reject = TRUE]
    [] a.type = "stopProcessing" -> [out EXCEPT !.stop = TRUE]

\* A hard block returns at once; stopProcessing lets the rule's other actions run.
RunRule(out, r, m) ==
  IF out.reject \/ out.stop \/ ~r.enabled \/ ~RuleMatches(r, m) THEN out
  ELSE FoldLeft(LAMBDA o, a : IF o.reject THEN o ELSE Apply(o, r, a), out, r.actions)

InOrder(rules) ==
  SetToSortSeq(rules, LAMBDA a, b : \/ a.priority < b.priority
                                    \/ a.priority = b.priority /\ a.created < b.created)

EvaluateRules(rules, m) == FoldLeft(LAMBDA o, r : RunRule(o, r, m), NoOutcome, InOrder(rules))

----------------------------------------------------------------------------
(***************************************************************************)
(* The blocklist: addresses and domains; a domain is the sequence of its   *)
(* labels.  An address without a local part or a domain is not looked up.  *)
(***************************************************************************)
\* The domain itself and its parents, the top-level label alone excepted.
DomainAndParents(labels) == {SubSeq(labels, i, Len(labels)) : i \in 1..(Len(labels) - 1)}

IsSenderBlocked(list, candidates) ==
  \E a \in candidates :
    /\ a.local # "" /\ a.domain # <<>>
    /\ \/ [type |-> "email", value |-> a] \in list
       \/ \E d \in DomainAndParents(a.domain) : [type |-> "domain", value |-> d] \in list

----------------------------------------------------------------------------
(***************************************************************************)
(* Properties, for one set of rules and one message.                       *)
(***************************************************************************)
Before(rules, r) == {s \in rules : \/ s.priority < r.priority
                                   \/ s.priority = r.priority /\ s.created < r.created}
Has(r, type) == \E i \in DOMAIN r.actions : r.actions[i].type = type

\* The rules that get to act, said without an order of evaluation: enabled, matching,
\* and no enabled, matching rule before them stops or blocks.
Acting(rules, m) ==
  LET live == {r \in rules : r.enabled /\ RuleMatches(r, m)}
  IN  {r \in live : \A s \in Before(live, r) : ~Has(s, "stopProcessing") /\ ~Has(s, "hardBlock")}

\* What the fold returns is what the acting rules ask for: mail is refused exactly when
\* one of them blocks, and if not, it carries their flags and labels, and lies in the
\* folder the last of them that files it names.
OutcomeIsWhatActs(rules, m) ==
  LET out    == EvaluateRules(rules, m)
      acting == Acting(rules, m)
      filing == {r \in acting : Has(r, "moveFolder")}
      args(r, type) == {r.actions[i].arg : i \in {j \in DOMAIN r.actions : r.actions[j].type = type}}
  IN  /\ out.reject <=> \E r \in acting : Has(r, "hardBlock")
      /\ ~out.reject =>
           /\ out.spam <=> \E r \in acting : Has(r, "markSpam")
           /\ out.read <=> \E r \in acting : Has(r, "markRead")
           /\ out.labels = UNION {args(r, "applyLabel") : r \in acting}
           /\ \A f \in Range(out.forwards) :
                \E r \in acting : r.id = f.rule /\ f.to \in args(r, "forward")
           /\ \A r \in acting : args(r, "forward") =
                {f.to : f \in {g \in Range(out.forwards) : g.rule = r.id}}
           /\ filing = {} => out.folder = Nowhere
           /\ \A r \in filing :
                (\A s \in filing \ {r} : s \in Before(filing, r)) =>
                  out.folder \in [user : {r.createdBy}, folder : args(r, "moveFolder")]
============================================================================
