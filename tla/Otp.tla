--------------------------------- MODULE Otp ---------------------------------
(***************************************************************************)
(* One-time codes in inbound mail (apps/worker/src/mail/otp.ts): the       *)
(* OTP-Token header, a structured field item, and what is found in the     *)
(* text.                                                                   *)
(*                                                                         *)
(* A text is a sequence of pieces with a width: code words, tokens (what   *)
(* the regular expression takes for a code), other words, punctuation and  *)
(* line ends.  A host is a record of its site (registrable domain, None if *)
(* there is none) and the rest.                                            *)
(***************************************************************************)
EXTENDS Integers, Sequences, FiniteSets, FiniteSetsExt, SequencesExt, TLC

CONSTANTS
    MaxCode,    \* MAX_CODE
    Reach,      \* WINDOW
    WholeMax,   \* digits of an integer, and
    FractionMax \* of the fraction of a decimal

None == "none"
Far == 1000

ASSUME OtpAssumption == Reach \in 1..(Far - 1)

(***************************************************************************)
(* The structured field item, character by character.                      *)
(***************************************************************************)
DQ == "dquote"
Slash == "backslash"
Control == "ctl"
Digits == {"0", "1"}
Lower == {"a", "b"}
Alpha == Lower \cup {"A"}

At(v, i) == IF i <= Len(v) THEN v[i] ELSE ""
\* Where the characters of S that begin at i end.
Past(v, i, S) == Min({j \in i..(Len(v) + 1) : At(v, j) \notin S})
NotRead == [ok |-> FALSE]
Item(at, type, value) == [ok |-> TRUE, at |-> at, item |-> [type |-> type, value |-> value]]

NumberAt(v, i) ==
    LET first == IF At(v, i) = "-" THEN i + 1 ELSE i
        dot == Past(v, first, Digits)
        fraction == At(v, dot) = "." /\ At(v, dot + 1) \in Digits
        end == IF fraction THEN Past(v, dot + 1, Digits) ELSE dot
    IN  IF \/ dot = first
           \/ ~fraction /\ dot - first > WholeMax
           \/ fraction /\ (dot - first > WholeMax - FractionMax \/ end - dot - 1 > FractionMax)
        THEN NotRead
        ELSE Item(end, IF fraction THEN "decimal" ELSE "integer", SubSeq(v, i, end - 1))

Date(v, i) ==
    LET n == NumberAt(v, i + 1)
    IN  IF n.ok /\ n.item.type = "integer" THEN Item(n.at, "date", n.item.value) ELSE NotRead

QuotedAt(v, i) ==
    LET rest[j \in i..(Len(v) + 2)] ==
            CASE j > Len(v) -> NotRead
              [] At(v, j) = DQ -> Item(j + 1, "string", <<>>)
              [] At(v, j) = Slash ->
                   IF At(v, j + 1) \in {DQ, Slash} /\ rest[j + 2].ok
                   THEN Item(rest[j + 2].at, "string", <<v[j + 1]>> \o rest[j + 2].item.value)
                   ELSE NotRead
              [] OTHER -> IF v[j] # Control /\ rest[j + 1].ok
                          THEN Item(rest[j + 1].at, "string", <<v[j]>> \o rest[j + 1].item.value)
                          ELSE NotRead
    IN  rest[i + 1]

Token(v, i) ==
    LET end == Past(v, i, Alpha \cup Digits \cup {"*", "-", ".", "%", ":"})
    IN  Item(end, "token", SubSeq(v, i, end - 1))

Bytes64(v, i) ==
    LET end == Past(v, i + 1, Alpha \cup Digits \cup {"="})
    IN  IF At(v, end) = ":" THEN Item(end + 1, "bytes", SubSeq(v, i + 1, end - 1)) ELSE NotRead

Bool(v, i) ==
    IF At(v, i + 1) \in Digits THEN Item(i + 2, "boolean", <<v[i + 1]>>) ELSE NotRead

\* Escaped octets from 80 on are no UTF-8 by themselves.
Display(v, i) ==
    LET hex == Digits \cup Lower
        rest[j \in i..(Len(v) + 3)] ==
            CASE j > Len(v) -> NotRead
              [] At(v, j) = DQ -> Item(j + 1, "display", <<>>)
              [] At(v, j) = "%" ->
                   IF At(v, j + 1) \in Digits /\ At(v, j + 2) \in hex /\ rest[j + 3].ok
                   THEN Item(rest[j + 3].at, "display", <<SubSeq(v, j + 1, j + 2)>> \o rest[j + 3].item.value)
                   ELSE NotRead
              [] OTHER -> IF v[j] # Control /\ rest[j + 1].ok
                          THEN Item(rest[j + 1].at, "display", <<v[j]>> \o rest[j + 1].item.value)
                          ELSE NotRead
    IN  IF At(v, i + 1) = DQ THEN rest[i + 2] ELSE NotRead

BareItem(v, i) ==
    CASE At(v, i) \in Digits \cup {"-"} -> NumberAt(v, i)
      [] At(v, i) = DQ -> QuotedAt(v, i)
      [] At(v, i) \in Alpha \cup {"*"} -> Token(v, i)
      [] At(v, i) = ":" -> Bytes64(v, i)
      [] At(v, i) = "?" -> Bool(v, i)
      [] At(v, i) = "@" -> Date(v, i)
      [] At(v, i) = "%" -> Display(v, i)
      [] OTHER -> NotRead

KeyEnd(v, i) ==
    IF At(v, i) \in Lower \cup {"*"} THEN Past(v, i, Lower \cup Digits \cup {"*", "-", "."}) ELSE i

Flag == [type |-> "boolean", value |-> <<"1">>]

\* The parameters from i on; of two with one key the last counts.
ParamsAt(v, i) ==
    LET from[j \in i..(Len(v) + 1)] ==
          IF At(v, j) # ";" THEN [ok |-> TRUE, at |-> j, params |-> <<>>]
          ELSE LET k == Past(v, j + 1, {" "})
                   end == KeyEnd(v, k)
                   more(given) == IF ~given.ok \/ ~from[given.at].ok THEN NotRead ELSE
                       [from[given.at] EXCEPT !.params = @ @@ (SubSeq(v, k, end - 1) :> given.item)]
               IN  IF end = k THEN NotRead
                   ELSE more(IF At(v, end) = "=" THEN BareItem(v, end + 1)
                             ELSE [ok |-> TRUE, at |-> end, item |-> Flag])
    IN  from[i]

ParseSfItem(v) ==
    LET whole(bare, rest) == IF rest.ok /\ Past(v, rest.at, {" "}) > Len(v)
                             THEN [ok |-> TRUE, bare |-> bare.item, params |-> rest.params] ELSE NotRead
        after(bare) == IF bare.ok THEN whole(bare, ParamsAt(v, bare.at)) ELSE NotRead
    IN  after(BareItem(v, Past(v, 1, {" "})))

(***************************************************************************)
(* The header.  fields: what each OTP-Token header was parsed to, with a   *)
(* code for the bare item and what the origin parameter is.                *)
(***************************************************************************)
\* "an exact round-trip is the canonical-form check"
OriginHost(origin) ==
    IF origin.type = "string" /\ origin.scheme = "https" /\ origin.canonical
    THEN origin.host ELSE [site |-> None]

OtpTokenHeader(fields) ==
    IF /\ Len(fields) = 1 /\ fields[1].ok /\ fields[1].type = "string"
       /\ fields[1].code.len \in 1..MaxCode
    THEN [code |-> fields[1].code.name, origin |-> fields[1].origin, host |-> OriginHost(fields[1].origin)]
    ELSE [host |-> [site |-> None]]

(***************************************************************************)
(* The text.                                                               *)
(***************************************************************************)
Start(text, i) == MapThenSumSet(LAMBDA j : text[j].width, 1..(i - 1))
End(text, i) == Start(text, i) + text[i].width

\* Nothing but punctuation beside it on its line.
Isolated(text, i) ==
    \A j \in DOMAIN text \ {i} :
        text[j].kind \in {"word", "codeWord", "token"} =>
            \E k \in DOMAIN text : text[k].kind = "newline" /\ (j < k) # (i < k)

\* Its distance to the nearest code word; Far when the text has none.
Distance(text, i) ==
    Min({Far} \cup {Max({0, Start(text, j) - End(text, i), Start(text, i) - End(text, j)}) :
                        j \in {k \in DOMAIN text : text[k].kind = "codeWord"}})

Candidate(text, i) ==
    [code |-> text[i].code, isolated |-> Isolated(text, i), distance |-> Distance(text, i)]

\* "A recent year reads as a code far too easily, unless it stands alone."
Plausible(c) == c.code.class # "example" /\ (c.isolated \/ c.code.class # "year")

\* Mutant of Near: anywhere in the text.
NearOrFar(c) == TRUE
Near(c) == c.isolated \/ c.distance <= Reach

\* Twice the score of the code: the distance counts half.
Score(c, bonus) ==
    2 * bonus + (IF c.isolated THEN 60 ELSE 0) + Max({0, 2 * Reach - c.distance})
    + (IF c.code.len = 6 THEN 40 ELSE 0) + (IF c.code.digits THEN 20 ELSE 0)

Tokens(text) == {i \in DOMAIN text : text[i].kind = "token"}

\* what is found in a text: <<score, -place, code>>
CodesIn(text, before, bonus) ==
    LET found(i, c) == IF Plausible(c) /\ Near(c) THEN {<<Score(c, bonus), -(before + i), c.code.name>>} ELSE {}
    IN  UNION {found(i, Candidate(text, i)) : i \in Tokens(text)}

HasCodeWord(text) == \E i \in DOMAIN text : text[i].kind = "codeWord"

\* The first of the best.
Best(all) ==
    CHOOSE c \in all : \A d \in all : c[1] > d[1] \/ (c[1] = d[1] /\ c[2] >= d[2])

DetectCode(subject, body) ==
    LET pick(all) == IF all = {} THEN <<>> ELSE <<Best(all)[3]>>
    IN  IF HasCodeWord(subject) \/ HasCodeWord(body)
        THEN pick(CodesIn(subject, 0, 40) \cup CodesIn(body, Len(subject), 0)) ELSE <<>>

ExtractOtp(from, fields, dmarc, subject, body) ==
    LET given(token, found) ==
          IF dmarc = "pass" /\ token.host.site # None /\ token.host.site = from.site
          THEN [code |-> token.code, domain |-> token.host, bound |-> TRUE]
          ELSE IF found = <<>> \/ from.site = None THEN [code |-> None]
          ELSE [code |-> found[1], domain |-> [site |-> from.site, sub |-> ""], bound |-> FALSE]
    IN  given(OtpTokenHeader(fields), DetectCode(subject, body))

------------------------------------------------------------------------------
\* otp.ts: "It only counts when DMARC passes and the origin shares the From domain's
\* registrable domain": no header and no text makes a code be offered on another site,
\* and one that is bound is the header's, of which there is one.
BoundToSender(from, fields, dmarc, otp) ==
    otp.code # None =>
        /\ otp.domain.site = from.site
        /\ otp.bound => /\ dmarc = "pass" /\ Len(fields) = 1
                        /\ fields[1].origin.scheme = "https" /\ fields[1].origin.host = otp.domain

\* At least as good in everything, and better in something.  Twice the window away is as
\* far as anything can be.
Betters(d, c) ==
    LET good(x) == <<IF x.isolated THEN 1 ELSE 0, Max({0, 2 * Reach - x.distance}),
                     IF x.code.len = 6 THEN 1 ELSE 0, IF x.code.digits THEN 1 ELSE 0>>
    IN  good(d) # good(c) /\ \A n \in 1..4 : good(d)[n] >= good(c)[n]

Within(text, i, j) == Start(text, j) <= End(text, i) + Reach /\ Start(text, i) <= End(text, j) + Reach

\* otp.ts: "the mail has to read like a verification email, and a candidate has to sit next
\* to a code word, alone on its line", it is no example and hardly a year; and no better
\* candidate is beside it.
Reasonable(text, i, c, others) ==
    /\ c.code.class # "example"
    /\ c.code.class = "year" => c.isolated
    /\ ~c.isolated => \E j \in DOMAIN text : text[j].kind = "codeWord" /\ Within(text, i, j)
    /\ \A d \in others : d.code.class = "plain" => ~Betters(d, c)

\* Every piece has its place.
Measured(text) == \A i \in DOMAIN text : Start(text, i) \in Int /\ End(text, i) \in Int

FoundForAReason(subject, body, found) ==
    found # <<>> =>
        /\ HasCodeWord(subject) \/ HasCodeWord(body)
        /\ \E text \in {subject, body} : \E i \in Tokens(text) :
              /\ text[i].code.name = found[1]
              /\ Reasonable(text, i, Candidate(text, i), {Candidate(text, j) : j \in Tokens(text)})

\* An item as it is written (RFC 9651).
Escaped(value) == FlattenSeq([i \in DOMAIN value |->
    IF value[i] \in {DQ, Slash} THEN <<Slash, value[i]>> ELSE <<value[i]>>])
Percented(value) == FlattenSeq([i \in DOMAIN value |->
    IF value[i] \in Lower THEN <<value[i]>> ELSE <<"%">> \o value[i]])
WrittenItem(item) ==
    CASE item.type = "string" -> <<DQ>> \o Escaped(item.value) \o <<DQ>>
      [] item.type = "display" -> <<"%", DQ>> \o Percented(item.value) \o <<DQ>>
      [] item.type = "bytes" -> <<":">> \o item.value \o <<":">>
      [] item.type = "boolean" -> <<"?">> \o item.value
      [] item.type = "date" -> <<"@">> \o item.value
      [] OTHER -> item.value
WrittenParams(params) == FlattenSeq([i \in DOMAIN params |->
    <<";", " ">> \o params[i][1] \o (IF params[i][2] = Flag THEN <<>> ELSE <<"=">> \o WrittenItem(params[i][2]))])

\* otp.ts parseSfItem: a field reads back as the item that was written, the last of two
\* equal parameters counting; one with anything more is none.
ItemReadsBack(bare, params) ==
    LET keys == {params[i][1] : i \in DOMAIN params}
        last(k) == params[Max({i \in DOMAIN params : params[i][1] = k})][2]
        reads(v, got) ==
            /\ got.ok /\ got.bare = bare
            /\ DOMAIN got.params = keys /\ \A k \in keys : got.params[k] = last(k)
            /\ \A c \in {DQ, ";", Control} : ~ParseSfItem(v \o <<c>>).ok
        written(v) == reads(v, ParseSfItem(<<" ">> \o v \o <<" ">>))
    IN  written(WrittenItem(bare) \o WrittenParams(params))
==============================================================================
