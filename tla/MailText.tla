------------------------------- MODULE MailText -------------------------------
(***************************************************************************)
(* Reading and building messages (apps/worker/src/mail/mime.ts).           *)
(*                                                                         *)
(* An HTML body is a sequence of tokens: a tag with its name, open or      *)
(* close; "<!--" and "-->"; a word; white space; a line end; an entity     *)
(* with what it stands for.  Other texts are sequences of characters.      *)
(***************************************************************************)
EXTENDS Naturals, Sequences, FiniteSets, SequencesExt

CONSTANTS
    BodyCap,   \* BODY_CAP
    NameCap    \* characters of a file name

White == "space"
Break == "newline"
Thrown == "thrown"   \* String.fromCodePoint of what is no code point

(***************************************************************************)
(* htmlToText.                                                             *)
(***************************************************************************)
Tag(token, names) == token.kind = "tag" /\ token.name \in names
Opens(token, names) == Tag(token, names) /\ ~token.close
Space == [kind |-> White]
NewLineToken == [kind |-> Break]

\* Every stretch from a token in Start to the first that ends it becomes a space, from left
\* to right; one that does not end stays.
WithoutStretches(html, Starts(_), EndsIt(_, _)) ==
    LET n == Len(html)
        end(i) == SelectInSeq(SubSeq(html, i + 1, n), LAMBDA t : EndsIt(html[i], t))
        from[i \in 1..(n + 1)] ==
            CASE i > n -> <<>>
              [] Starts(html[i]) /\ end(i) > 0 -> <<Space>> \o from[i + end(i) + 1]
              [] OTHER -> <<html[i]>> \o from[i + 1]
    IN  from[1]

HiddenTags == {"script", "style"}
WithoutBlocks(html) ==
    WithoutStretches(html, LAMBDA t : Opens(t, HiddenTags),
                           LAMBDA s, t : Tag(t, {s.name}) /\ t.close)
WithoutComments(html) ==
    WithoutStretches(html, LAMBDA t : t.kind = "<!--", LAMBDA s, t : t.kind = "-->")

\* Numbers go first, then names; an unknown name is a space.
Decoded(token) ==
    CASE token.kind # "entity" -> token
      [] token.stands = "tooLarge" -> [kind |-> Thrown]
      [] token.stands \in {"nbsp", "unknown"} -> Space
      [] OTHER -> [kind |-> "word", name |-> token.stands]

BlockTags == {"p", "br"}
PlainToken(token) ==
    CASE Tag(token, BlockTags) -> NewLineToken
      [] token.kind \in {"tag", "<!--", "-->"} -> Space
      [] OTHER -> Decoded(token)

\* One space between words, or one line end if there is any; none at the ends.
Collapsed(tokens) ==
    LET n == Len(tokens)
        gap(i) == tokens[i].kind \in {White, Break}
        words == SelectSeq([i \in 1..n |-> i], LAMBDA i : ~gap(i))
        between(i, j) ==
            CASE j = i + 1 -> <<>>
              [] \E k \in (i + 1)..(j - 1) : tokens[k].kind = Break -> <<Break>>
              [] OTHER -> <<White>>
    IN  FlattenSeq([k \in DOMAIN words |->
            (IF k = 1 THEN <<>> ELSE between(words[k - 1], words[k])) \o <<tokens[words[k]].name>>])

HtmlToText(html) ==
    LET plain(tokens) == [i \in DOMAIN tokens |-> PlainToken(tokens[i])]
        read(tokens) == IF \E i \in DOMAIN tokens : tokens[i].kind = Thrown THEN <<Thrown>> ELSE Collapsed(tokens)
    IN  read(plain(WithoutComments(WithoutBlocks(html))))

Prefix(s, n) == SubSeq(s, 1, IF Len(s) < n THEN Len(s) ELSE n)

\* text: the text part, trimmed.
BodyForIndex(text, html) ==
    LET body(s) == IF s = <<Thrown>> THEN s ELSE Prefix(s, BodyCap)
    IN  body(IF text # <<>> THEN text ELSE HtmlToText(html))

\* Names and addresses, what is empty left out.
AddrsToText(addrs) ==
    LET parts == SelectSeq(FlattenSeq([i \in DOMAIN addrs |-> <<addrs[i].name, addrs[i].address>>]),
                           LAMBDA x : x # "")
    IN  Prefix(FlattenSeq([i \in DOMAIN parts |-> IF i = 1 THEN <<parts[i]>> ELSE <<White, parts[i]>>]), BodyCap)

(***************************************************************************)
(* Characters.                                                             *)
(***************************************************************************)
Trim(s) ==
    LET kept == {i \in DOMAIN s : s[i] # White}
    IN  IF kept = {} THEN <<>>
        ELSE SubSeq(s, CHOOSE i \in kept : \A j \in kept : i <= j, CHOOSE i \in kept : \A j \in kept : i >= j)

\* re, fwd, aw, wg: "re" stands for them, whatever their case.
NormalizeSubject(subject) ==
    LET s == Trim(subject)
        n == Len(s)
        over[i \in 1..(n + 1)] == IF i <= n /\ s[i] = White THEN over[i + 1] ELSE i
        at(i) == IF i <= n THEN s[i] ELSE ""
        strip[i \in 1..(n + 2)] == IF at(i) = "re" /\ at(over[i + 1]) = ":" THEN strip[over[over[i + 1] + 1]] ELSE i
    IN  SubSeq(s, strip[1], n)

Ctl == "control"
SanitizeFilename(name) ==
    LET clean == Prefix(Trim(SelectSeq(name, LAMBDA c : c \notin {Ctl, "quote", "backslash"})), NameCap)
    IN  IF clean = <<>> THEN <<"attachment">> ELSE clean

\* One bracket at each end.
Bare(id) ==
    LET s == Trim(id)
        front == IF s # <<>> /\ s[1] = "<" THEN Tail(s) ELSE s
    IN  IF front # <<>> /\ Last(front) = ">" THEN Prefix(front, Len(front) - 1) ELSE front
NormalizeContentId(id) == IF Bare(id) = <<>> THEN <<>> ELSE <<"<">> \o Bare(id) \o <<">">>

(***************************************************************************)
(* Streams, headers and what is built.                                     *)
(***************************************************************************)
StreamToArrayBuffer(chunks, max) ==
    LET bytes == FlattenSeq(chunks) IN IF Len(bytes) > max THEN <<Thrown>> ELSE bytes

\* The first header of the name, whatever the case it is written in.
Get(headers, name) ==
    LET i == SelectInSeq(headers, LAMBDA h : h.key = name)
    IN  IF i = 0 THEN <<>> ELSE Trim(headers[i].value)
ExtractUnsubscribe(headers) ==
    [listUnsubscribe |-> Get(headers, "list-unsubscribe"), listUnsubscribePost |-> Get(headers, "list-unsubscribe-post")]

Headed(key, value) == IF value = <<>> THEN <<>> ELSE <<[key |-> key, value |-> value]>>
BuildThreadingHeaders(input) ==
    Headed("message-id", input.messageId) \o Headed("in-reply-to", input.inReplyTo)
    \o Headed("references", input.references)

\* A header that is set again is replaced.
SetHeader(headers, h) == SelectSeq(headers, LAMBDA g : g.key # h.key) \o <<h>>

BuildMime(input) ==
    [headers |-> FoldLeft(SetHeader, <<>>, BuildThreadingHeaders(input) \o Headed("reply-to", input.replyTo)
                                           \o input.extraHeaders),
     parts |-> SelectSeq(<<[type |-> "text", data |-> input.text], [type |-> "html", data |-> input.html]>>,
                         LAMBDA p : p.data # <<>>)
               \o [i \in DOMAIN input.attachments |->
                     [type |-> "attachment", data |-> input.attachments[i].data,
                      filename |-> SanitizeFilename(input.attachments[i].filename),
                      contentId |-> NormalizeContentId(input.attachments[i].contentId)]]]

------------------------------------------------------------------------------
\* What is in no comment and in no block that is hidden, if each ends where it should.
Visible(html) ==
    LET depth(i) == Cardinality({j \in 1..i : html[j].kind = "<!--" \/ Opens(html[j], HiddenTags)})
                    - Cardinality({j \in 1..(i - 1) : html[j].kind = "-->" \/ (Tag(html[j], HiddenTags) /\ html[j].close)})
    IN  {i \in DOMAIN html : depth(i) = 0}
Paired(html) ==
    \A i \in DOMAIN html :
        /\ html[i].kind = "<!--" => i + 2 \in DOMAIN html /\ html[i + 2].kind = "-->" /\ html[i + 1].kind = "word"
        /\ Opens(html[i], HiddenTags) =>
              i + 2 \in DOMAIN html /\ Tag(html[i + 2], {html[i].name}) /\ html[i + 2].close /\ html[i + 1].kind = "word"
        /\ html[i].kind = "-->" => i > 2 /\ html[i - 2].kind = "<!--"
        /\ (Tag(html[i], HiddenTags) /\ html[i].close) => i > 2 /\ Opens(html[i - 2], {html[i].name})

\* mime.ts: "drop script/style blocks entirely (otherwise CSS/JS pollutes the index)": the
\* index holds the words that a reader sees, in order and apart, and is lost only to an
\* entity that stands for no character; a text part goes before.
IndexesWhatIsSeen(text, html) ==
    LET seen == SelectSeq([i \in DOMAIN html |-> IF i \in Visible(html) THEN Decoded(html[i]) ELSE Space],
                          LAMBDA t : t.kind = "word")
        body == BodyForIndex(text, html)
        words == SelectSeq(body, LAMBDA w : w \notin {White, Break})
        whole(all) == Prefix(all, Len(words)) = words /\ (Len(body) < BodyCap => Len(words) = Len(all))
        good == /\ body # <<>> => body[1] \notin {White, Break}
                /\ \A i \in 2..Len(body) : {body[i - 1], body[i]} \cap {White, Break} # {body[i - 1], body[i]}
    IN  CASE text # <<>> -> body = Prefix(text, BodyCap)
          [] body = <<Thrown>> -> \E i \in DOMAIN html : html[i].kind = "entity" /\ html[i].stands = "tooLarge"
          [] OTHER -> good /\ (Paired(html) => whole([i \in DOMAIN seen |-> seen[i].name]))

\* mime.ts normalizeSubject: a reply to a reply has the subject of the first message.
RepliesShareSubject(subject) ==
    \A prefix \in {<<"re", ":">>, <<White, "re", ":", White>>, <<"re", White, ":", "re", ":", White, White>>} :
        NormalizeSubject(prefix \o subject) = NormalizeSubject(subject)

\* mime.ts: "so a crafted attachment name can't inject MIME headers"; "so both agree
\* regardless of how the source labelled it": what is built has a usable name for every
\* attachment and the Content-ID that the body calls it by, every header once, and its text
\* before the rest.
BuiltToBeRead(input) ==
    LET built == BuildMime(input)
        attached == SelectSeq(built.parts, LAMBDA p : p.type = "attachment")
    IN  /\ Len(attached) = Len(input.attachments)
        /\ \A i \in DOMAIN attached :
              /\ Len(attached[i].filename) > 0 /\ Range(attached[i].filename) \cap {Ctl, "quote", "backslash"} = {}
              /\ Bare(attached[i].contentId) = Bare(input.attachments[i].contentId)
        /\ \A i, j \in DOMAIN built.headers : built.headers[i].key = built.headers[j].key => i = j
        /\ input.text # <<>> => built.parts[1].data = input.text

\* mime.ts: what a stream brings is read as a whole or not at all; of headers of one name the
\* first counts, an empty one being none; the index holds every address that has its place.
ReadAsAWhole(input) ==
    LET bytes == StreamToArrayBuffer(input.chunks, input.max)
        first == ExtractUnsubscribe(input.headers).listUnsubscribe
        named == {i \in DOMAIN input.headers : input.headers[i].key = "list-unsubscribe"}
        text == AddrsToText(input.addrs)
    IN  /\ bytes = FlattenSeq(input.chunks) \/ (bytes = <<Thrown>> /\ Len(FlattenSeq(input.chunks)) > input.max)
        /\ first # <<>> => \E i \in named : /\ \A j \in named : i <= j
                                            /\ Trim(input.headers[i].value) = first
        /\ named = {} => first = <<>>
        /\ Len(text) < BodyCap => \A i \in DOMAIN input.addrs : input.addrs[i].address \in Range(text)
================================================================================
