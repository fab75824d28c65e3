----------------------------- MODULE MCEvaluations -----------------------------
(***************************************************************************)
(* The pure parts of the worker, evaluated once per input: a behaviour     *)
(* picks what is evaluated and is done.                                    *)
(***************************************************************************)
EXTENDS SpamFilter, MailRules, ImapWire, Otp, RemoteContent, MailText, PgpMail, MailSearch

VARIABLES kind, input

vars == <<kind, input>>

----------------------------------------------------------------------------
\* Search: requests to find a few messages of three mailboxes.
Caller == "u"
Boxes == [b1 |-> [owner |-> Caller, readers |-> {}], b2 |-> [owner |-> "v", readers |-> {Caller}],
          b3 |-> [owner |-> "v", readers |-> {"w"}]]

Worded(subject, from, to, body) ==
    [subject |-> subject, from_text |-> from, to_text |-> to, body |-> body, snippet |-> {}]
Letter(id, box, text, dir, date) ==
    [id |-> id, mailbox |-> box, text |-> text, direction |-> dir, date |-> date, rank |-> id % 2,
     starred |-> id < 3, trashed |-> FALSE, spam |-> FALSE, attachment |-> id > 2]

A == <<"a">>
AB == <<"a", "b">>
ABA == <<"a", "b", "a">>
AtDot == <<"b", Dot, "a", "b">>
Uml == <<"a", Umlaut>>

Letters ==
    {Letter(1, "b1", Worded({A, AB}, {AtDot}, {}, {ABA}), "in", 2),
     Letter(2, "b1", Worded({ABA}, {A}, {AB}, {}), "out", 3),
     Letter(3, "b2", Worded({Uml}, {ABA}, {A}, {A, ABA}), "in", 4),
     [Letter(4, "b2", Worded({AB}, {}, {ABA}, {A}), "in", 5) EXCEPT !.spam = TRUE],
     Letter(5, "b3", Worded({A}, {A}, {A}, {AB}), "in", 6),
     [Letter(6, "b1", Worded({A}, {A}, {}, {A}), "in", 7) EXCEPT !.trashed = TRUE]}

Terms == [neg : BOOLEAN, word : {A, AB, ABA}]
Odd == {<<[neg |-> FALSE, word |-> AtDot]>>, <<[neg |-> TRUE, word |-> <<Dot>>], [neg |-> FALSE, word |-> Uml]>>,
        <<[neg |-> FALSE, word |-> A], [neg |-> FALSE, word |-> AB], [neg |-> TRUE, word |-> ABA]>>}
AtMostTwo(S) == UNION {[1..n -> S] : n \in 0..2}

Asking == [q |-> <<>>, searchIn |-> "all", from |-> <<>>, to |-> <<>>, subject |-> <<>>, exclude |-> <<>>,
          direction |-> "", hasAttachment |-> FALSE, after |-> <<>>, before |-> <<>>, folder |-> "any",
          sort |-> "newest", wanted |-> {}, limit |-> 1, page |-> 0]

TextRequests ==
    {[Asking EXCEPT !.q = q, !.searchIn = in, !.exclude = x, !.limit = 2] :
        q \in AtMostTwo(Terms) \cup Odd, in \in {"all", "subject", "from", "body"}, x \in {<<>>, <<A>>, <<ABA>>}}
FieldRequests ==
    {[Asking EXCEPT !.q = q, !.from = x, !.to = y, !.subject = z, !.exclude = e, !.folder = "inbox"] :
        q \in {<<>>, <<[neg |-> FALSE, word |-> A]>>}, x \in {<<>>, <<A>>, <<AtDot>>}, y \in {<<>>, <<A>>},
        z \in {<<>>, <<A, AB>>}, e \in {<<>>, <<ABA>>}}
PlainRequests ==
    {[Asking EXCEPT !.direction = d, !.hasAttachment = h, !.after = a, !.before = b, !.folder = f,
                   !.sort = s, !.wanted = w, !.limit = l, !.q = q] :
        d \in {"", "in"}, h \in BOOLEAN, a \in {<<>>, <<1>>, <<2>>}, b \in {<<>>, <<1>>, <<2>>},
        f \in {"any", "inbox", "sent", "marked", "spam", "trash"}, s \in {"newest", "oldest", "relevance"},
        w \in {{}, {"b1"}, {"b3"}, {"b2", "b3", "gone"}}, l \in {1, 3},
        q \in {<<>>, <<[neg |-> FALSE, word |-> A]>>}}
Requests == TextRequests \cup FieldRequests \cup PlainRequests

----------------------------------------------------------------------------
\* What IMAP tells of a message: trees, sections, address lists, parameters.
Leaf(text) == [type |-> "text", boundary |-> Nothing, text |-> text, kids |-> <<>>, closed |-> TRUE]
Multi(b, kids, text, closed) ==
  [type |-> "multipart", boundary |-> b, text |-> text, kids |-> kids, closed |-> closed]
Msg(t) == [type |-> "rfc822", boundary |-> Nothing, text |-> <<>>, kids |-> <<t>>, closed |-> TRUE]
T == Line("text", Nothing)
B == Line("blank", Nothing)

Leaves == {Leaf(<<>>), Leaf(<<T>>), Leaf(<<T, B>>), Leaf(<<B, Line("dash", <<"d">>), T>>)}
Small == Leaves \union {Msg(l) : l \in {Leaf(<<T>>), Leaf(<<B>>)}}
         \union {Multi(<<"b">>, k, <<>>, c) :
                   k \in {<<Leaf(<<T>>)>>, <<Leaf(<<T, B>>), Leaf(<<>>)>>}, c \in BOOLEAN}
Middle == Small \union {Msg(t) : t \in Small}
          \union {Multi(<<"c">>, <<x, y>>, <<T>>, c) :
                    x \in Small, y \in {Leaf(<<T>>), Msg(Leaf(<<T>>))}, c \in BOOLEAN}

\* Composed messages: multiparts in multiparts and in messages, with and without a
\* closing delimiter, bodies that are empty, end in a blank line or look like one.
Trees == Leaves \union {Multi(<<"a">>, <<x>>, p, c) : x \in Middle, p \in {<<>>, <<T, B>>}, c \in BOOLEAN}
         \union {Multi(<<"a">>, <<x, y>>, <<>>, TRUE) : x \in Middle, y \in Small}

Names == {<<>>, <<"a">>, <<"a", ",", "b">>, <<Dquote, "b">>, <<Escape, ":", "<">>, <<"(", ";">>}
Addresses == {Address(n, <<"m">>, <<"h">>) : n \in Names} \union {Address(<<"a">>, <<"m", "b">>, <<"h">>)}
Lists == UNION {[1..n -> Addresses] : n \in 0..2}
         \union {<<[name |-> n, of |-> o]>> \o list : n \in Names \ {<<>>},
                   o \in UNION {[1..k -> Addresses] : k \in 0..1}, list \in UNION {[1..n -> Addresses] : n \in 0..2}}

Sections == {s \in [path : {<<>>, <<1>>, <<2, 1>>}, kind : Plain \union WithFields \union {""},
                    fields : {<<>>, <<"from", "to">>}] :
               /\ s.kind = "MIME" => s.path # <<>>
               /\ s.fields # <<>> => s.kind \in WithFields}

Params == UNION {[1..n -> [name : {<<"n">>, <<"m">>}, star : {<<>>, <<"*", "0">>},
                           val : {<<"a">>, <<";", "b">>, <<"=", "c">>}]] : n \in 0..2}
Bytes == UNION {[1..n -> {"cr", "lf", "x"}] : n \in 0..5}

----------------------------------------------------------------------------
\* Keys, contacts and mails for PGP: two correspondents.
Sentence(x) == <<Line("text", x)>>
AtMostOne(S) == {<<>>} \union {<<x>> : x \in S}
Contents == [text : AtMostOne({<<>>, Sentence("a")}), html : AtMostOne({Sentence("h")}),
             attachments : {<<>>, <<Sentence("f")>>, <<<<>>, Sentence("g")>>}]
Correspondents == {"b", "c"}
Published(key, claims) == [key |-> key, claims |-> claims]
\* b's provider publishes another's key in the advanced layout, c's none.
Directories == {[a \in Correspondents |-> [l \in {"advanced", "direct"} |->
                   IF a = "b" THEN IF l = "advanced" THEN Published("kx", {"x"}) ELSE Published("kb", {"b"})
                   ELSE Published(NoKey, {})]]}
Senders == [key : {"me"}, mode : {"sign", "sign_encrypt"}, autoFetch : BOOLEAN,
            contacts : [Correspondents -> {NoKey, "kc"}], wkd : Directories]
Seals == [sender : Senders, to : {{"b"}, {"b", "c"}}, content : Contents]
StoredKeys == [priv : [key : {"k"}, lock : {"", "p"}], passphrase : {"", "p", "q"}]

----------------------------------------------------------------------------
\* What is made of the content of a message: one-time codes, trackers, the image proxy,
\* unsubscribing, indexing.
Upto(S, n) == UNION {[1..k -> S] : k \in 0..n}

\* Texts with codes, and fields that hold one.
Coded(len, digits, class) == [kind |-> "token", width |-> len, code |-> [len |-> len, digits |-> digits, class |-> class]]
Piece(k, w) == [kind |-> k, width |-> w, code |-> 0]
Pieces == {Piece("codeWord", 8), Piece("word", 70), Piece("word", 20), Piece("newline", 1),
           Coded(6, TRUE, "plain"), Coded(5, FALSE, "plain"), Coded(4, TRUE, "year"), Coded(6, TRUE, "example")}
\* Every token is a code of its own.
Numbered(text) ==
    [i \in DOMAIN text |-> IF text[i].kind = "token"
                           THEN [text[i] EXCEPT !.code = @ @@ [name |-> ToString(i)]] ELSE text[i]]
Subjects == {<<>>, <<Piece("codeWord", 8)>>, <<Piece("codeWord", 8), Coded(5, FALSE, "plain")>>}
OnALine(piece) == <<piece, Piece("newline", 1)>>
\* Two codes on lines of their own, further from the code word than it counts.
Afar == {OnALine(a) \o OnALine(Piece("word", w)) \o OnALine(b)
           \o <<Piece("word", 70), Piece("word", 70), Piece("codeWord", 8)>> :
           a, b \in {Coded(6, TRUE, "plain"), Coded(5, FALSE, "plain")}, w \in {20, 70}}
Texts == [subject : Subjects, body : Upto(Pieces, 4) \cup Afar]

Site(s, sub) == [site |-> s, sub |-> sub]
Origins == [type : {"string", "absent"}, scheme : {"https", "http"}, canonical : BOOLEAN,
            host : {Site("a", "www"), Site("b", "")}]
Fields == {[ok |-> FALSE]} \cup [ok : {TRUE}, type : {"string", "token"},
                                 code : {[name |-> "h", len |-> 6], [name |-> "h", len |-> 65]}, origin : Origins]
TokenMails ==
    [from : {Site("a", "mail"), Site("b", ""), Site(None, "")}, dmarc : {"pass", "fail"},
     fields : {<<>>} \cup {<<f>> : f \in Fields} \cup {<<f, f>> : f \in Fields},
     body : {<<>>, <<Piece("codeWord", 8), Coded(6, TRUE, "plain")>>}]

Typed(t, v) == [type |-> t, value |-> v]
BareItems ==
    {Typed("string", <<>>), Typed("string", <<"a", DQ>>), Typed("string", <<Slash, Slash, ";">>),
     Typed("token", <<"A", ":", "1">>), Typed("token", <<"*">>), Typed("integer", <<"-", "1">>),
     Typed("integer", <<"1", "0", "1", "0">>), Typed("decimal", <<"1", ".", "0">>), Typed("date", <<"1">>),
     Typed("boolean", <<"0">>), Typed("boolean", <<"1">>), Typed("bytes", <<>>), Typed("bytes", <<"A", "=">>),
     Typed("display", <<"a", <<"1", "a">>>>)}
ParamLists ==
    Upto({<<"a">>, <<"b", "-">>} \X {Typed("boolean", <<"1">>), Typed("string", <<"a">>), Typed("token", <<"b">>),
                                     Typed("integer", <<"0">>)}, 2)

\* HtmlBodies.
Url(m, secure, allowed, long) == [matches |-> m, secure |-> secure, allowed |-> allowed, long |-> long]
Http(u) == [scheme |-> "http", url |-> u]
Unlisted == Http(Url({}, TRUE, FALSE, FALSE))
Listed == Http(Url({"r1"}, FALSE, FALSE, FALSE))
Allowed == Http(Url({"r1"}, TRUE, TRUE, FALSE))
Cid(i) == [scheme |-> "cid", id |-> i]
Cids == [c \in {"c1"} |-> "att"]
Refs == {Missing, Unlisted, Listed, Allowed, Cid("c1"), Cid("c2"), [scheme |-> "data"]}
Element(tag, src, srcset, bg, css) ==
    [tag |-> tag, src |-> src, srcset |-> srcset, background |-> bg, css |-> css, width |-> "unknown",
     height |-> "unknown", cssWidth |-> "unknown", cssHeight |-> "unknown", hidden |-> FALSE]
Css(fn, ref) == [fn |-> fn, ref |-> ref, ended |-> TRUE]
Import(b) == [fn |-> "@import", ref |-> Missing, ended |-> b]
Styles == {<<>>, <<Css("url(", Unlisted)>>, <<Css("URL(", Listed), Css("url(", Listed)>>, <<Css("URL(", Unlisted)>>,
           <<Import(TRUE), Css("url(", Cid("c1"))>>, <<Import(FALSE), Css("URL(", Cid("c1"))>>}
Imgs == {Element("img", s, ss, b, <<>>) : s \in Refs, ss \in {<<>>, <<Unlisted, Listed>>, <<Cid("c1"), Unlisted>>},
                                          b \in {Missing, Listed, Unlisted}}
Pixels == {[Element("img", Unlisted, <<>>, Missing, <<>>) EXCEPT !.width = w, !.height = h, !.cssWidth = cw, !.hidden = x] :
             w \in {"unknown", "0", "1", "9"}, h \in {"unknown", "1", "9"}, cw \in {"unknown", "1", "9"}, x \in BOOLEAN}
Others == {Element(t, Missing, <<>>, b, c) : t \in {"style", "other"}, b \in {Missing, Listed, Cid("c2")}, c \in Styles}
HtmlBodies == {<<a, b>> : a \in Imgs \cup Pixels, b \in Others}

\* Lists of trackers: their lines, and the visits that ask for them.
ListLine(k, r) == [kind |-> k, rule |-> r]
Adblock == <<ListLine("comment", ""), ListLine("rule", "e1"), ListLine("hiding", "x"), ListLine("rule", "e2")>>
Literal == <<ListLine("value", "before"), ListLine("dictionary", ""), ListLine("key", "v"), ListLine("value", "m1"),
             ListLine("comment", "m2"), ListLine("value", "m3")>>
Answers == [easyprivacy : {<<>>, Adblock, <<ListLine("value", "x"), ListLine("rule", "e2")>>},
            mailtrackerblocker : {<<>>, Literal, SubSeq(Literal, 2, 5)}]
Visits == {<<[now |-> 2, answers |-> a], [now |-> 2 + d, answers |-> b], [now |-> 2 + d + e, answers |-> c]>> :
             a \in Answers, b \in Answers, c \in Answers, d \in {1, 2}, e \in {1, 3}}
FirstLists == {<<>>, <<[next |-> 2, sources |-> [s \in {"easyprivacy", "gone"} |-> {"old"}]]>>}

\* Redirects, addresses and wishes to unsubscribe.
Named(b) == [kind |-> "name", internal |-> b]
Dotted(p) == [kind |-> "dotted", parts |-> p]
HopTo(s, h, a) == [scheme |-> s, host |-> h, answer |-> a, status |-> "ok"]
Hops == {HopTo("https", Named(FALSE), "away"), HopTo("http", Dotted(<<<<1>>, <<2>>>>), "away"),
         HopTo("http", Dotted(<<<<127>>, <<1>>>>), "away"), HopTo("ftp", Named(FALSE), "away"),
         HopTo("http", Named(FALSE), "done"), [HopTo("http", Named(FALSE), "nowhere") EXCEPT !.status = "failed"],
         HopTo("http", Named(FALSE), "bad")}
LastHop == [HopTo("https", Named(FALSE), "done") EXCEPT !.status = "failed"]
Chains == {c \o <<LastHop>> : c \in Upto(Hops, 4)}
Ips == {<<a, b, c, d>> : a \in {0, 1, 10, 100, 127, 169, 172, 192, 223, 224},
                         b \in {0, 15, 16, 31, 32, 63, 64, 168, 254, 255}, c \in {0, 7}, d \in {0, 1}}
Mailbox(l, t, d) == [local |-> l, tag |-> t, domain |-> d]
Uris == {[scheme |-> "https", chain |-> <<LastHop>>], [scheme |-> "https", chain |-> <<HopTo("https", Named(FALSE), "done")>>],
         [scheme |-> "https", chain |-> <<HopTo("https", Named(TRUE), "done")>>],
         [scheme |-> "mailto", to |-> {}], [scheme |-> "mailto", to |-> {"x"}], [scheme |-> "other"]}
Wishes == [uris : Upto(Uris, 2), oneClick : BOOLEAN, sendFails : BOOLEAN,
           deliveredTo : {<<>>, <<Mailbox("a", "t", "d")>>, <<Mailbox("b", "t", "d")>>}]
          \X {<<>>, <<[local |-> "a", domain |-> "d"]>>}

\* Messages that are read and built.
HtmlTag(name, close) == [kind |-> "tag", name |-> name, close |-> close]
Entity(x) == [kind |-> "entity", stands |-> x]
HtmlWord(x) == [kind |-> "word", name |-> x]
HtmlTokens == {HtmlTag("script", FALSE), HtmlTag("script", TRUE), [kind |-> "<!--"], [kind |-> "-->"], HtmlWord("w"),
            HtmlTag("p", FALSE), HtmlTag("b", TRUE), Entity("tooLarge"), Entity("nbsp"), Space}
Hidden == {<<HtmlTag("style", FALSE), HtmlWord("x"), HtmlTag("style", TRUE)>>, <<[kind |-> "<!--"], HtmlWord("x"), [kind |-> "-->"]>>,
           <<HtmlTag("p", FALSE)>>, <<Entity("amp"), NewLineToken>>, <<HtmlTag("b", FALSE), HtmlWord("w")>>}
HtmlTexts == {<<>>, <<"t", White, "u">>} \X (Upto(HtmlTokens, 4) \cup {a \o b \o c : a \in Hidden, b \in Hidden, c \in Hidden})
SubjectTexts == Upto({"re", ":", White, "x"}, 5)
FileNames == Upto({Ctl, White, "x"}, 3)
ContentIds == Upto({"<", ">", White, "x"}, 3)
Streams ==
    [chunks : Upto({<<>>, <<"x">>, <<"y", "z">>}, 2), max : {0, 2, 3},
     headers : Upto([key : {"list-unsubscribe", "other"}, value : {<<White>>, <<"u1">>, <<White, "u2">>}], 2),
     addrs : Upto([name : {"", "n"}, address : {"a1", "a2"}], 2)]
Compositions ==
    [messageId : {<<"m">>}, inReplyTo : {<<>>, <<"m0">>}, references : {<<>>, <<"m0", "m1">>}, replyTo : {<<"r">>},
     extraHeaders : {<<>>, <<[key |-> "auto-submitted", value |-> <<"yes">>], [key |-> "reply-to", value |-> <<"s">>]>>},
     text : {<<>>, <<"t">>}, html : {<<>>, <<"h">>},
     attachments : {<<[data |-> <<1>>, filename |-> n, contentId |-> c]>> :
                      n \in FileNames, c \in ContentIds}]

----------------------------------------------------------------------------
\* Spam.
Methods3(spf, dkim, dmarc) == [method \in Methods |->
  CASE method = "spf" -> spf [] method = "dkim" -> dkim [] OTHER -> dmarc]

Headers == {<<>>, <<Methods3("pass", "pass", "pass")>>, <<Methods3("fail", "fail", Absent)>>,
            <<Methods3("pass", Absent, "fail")>>, <<Methods3("pass", Absent, "other")>>,
            <<Methods3("fail", "pass", "none")>>,
            <<Methods3(Absent, "pass", Absent), Methods3("fail", Absent, "pass")>>}

Host(sub, domain, source) == [sub |-> sub, domain |-> domain, source |-> source]
SendingHosts == {<<>>, <<Host("mx", "d1", "sender"), Host(Apex, "d2", "ehlo")>>,
                 <<Host(Apex, "d1", "sender"), Host("mx", "d1", "sender")>>}
LinkHosts == {<<>>, <<Host("mx", "d2", "link"), Host(Apex, "d1", "link")>>}
Hosted == [sub : {"mx", Apex}, domain : {"d1", "d2"}]
Asked == {"url1", "mail1", "file1"}
NoContent == [c \in {"url", "email", "cw", "file"} |-> <<>>]
SomeContent == [NoContent EXCEPT !["url"] = <<"url1">>, !["email"] = <<"mail1">>,
                                 !["file"] = <<"file1">>]
Quiet == [results |-> <<>>, receivedSpf |-> Absent, hosts |-> <<>>, links |-> <<>>,
          content |-> NoContent, received |-> <<>>, keywords |-> 0, shouting |-> FALSE,
          punctuation |-> FALSE, urgentNoReply |-> FALSE]
Silent == [names |-> [n \in Hosted |-> {}], ips |-> [i \in {"ip1", "ip2", "local"} |-> {}],
           content |-> [c \in Asked |-> {}]]

SpamTask(m, level, hbl, dns, ai) ==
  [m |-> m, level |-> level, dqs |-> [key |-> TRUE, hbl |-> hbl], dns |-> dns, ai |-> ai]

NameTasks ==
  {SpamTask([Quiet EXCEPT !.results = h, !.hosts = s, !.links = l, !.keywords = k], "ai", TRUE,
            [Silent EXCEPT !.names = [n \in Hosted |-> IF n.domain = "d1" THEN
                IF n.sub = Apex THEN c1 ELSE c2 ELSE c3]], ai) :
     h \in Headers, s \in SendingHosts, l \in LinkHosts, k \in {0, 1},
     c1 \in {{}, {"spam"}, {"new"}, {"abused"}}, c2 \in {{}, {"phish"}}, c3 \in {{}, {"spam", "abused"}, {"abused"}},
     ai \in {"none", "clean", "spam"}}
ContentTasks ==
  {SpamTask([Quiet EXCEPT !.results = h, !.receivedSpf = r, !.content = SomeContent,
                          !.keywords = k, !.shouting = b, !.urgentNoReply = b], level, TRUE,
            [Silent EXCEPT !.content = [c \in Asked |->
                CASE c = "url1" -> u [] c = "mail1" -> e [] OTHER -> f]], ai) :
     h \in Headers, r \in {Absent, "fail"}, k \in {0, 1, 4}, b \in BOOLEAN,
     level \in {"auth", "ai"}, u \in {{}, {"spam-url"}}, e \in {{}, {"spam-email"}},
     f \in {{}, {"malware-file"}, {"suspicious-file"}}, ai \in {"none", "clean", "suspicious"}}
RelayTasks ==
  {SpamTask([Quiet EXCEPT !.results = h, !.received = r, !.keywords = k], level, FALSE,
            [Silent EXCEPT !.ips = [i \in {"ip1", "ip2", "local"} |->
                CASE i = "ip1" -> c1 [] i = "ip2" -> c2 [] OTHER -> {}]], "none") :
     h \in Headers, r \in {<<<<"ip1">>, <<"ip2">>>>, <<<<"local">>, <<"ip1", "ip2">>>>, <<<<"ip1", "ip2">>, <<"ip1">>>>},
     k \in {0, 2}, level \in {"standard", "ai"}, c1 \in {{}, {"pbl"}, {"xbl", "pbl"}}, c2 \in {{}, {"pbl"}, {"css"}}}

----------------------------------------------------------------------------
\* Rules.
Action(t, arg) == [type |-> t, arg |-> arg]
ActionLists == {<<Action("applyLabel", "l1")>>, <<Action("moveFolder", "f1"), Action("stopProcessing", "")>>,
  <<Action("stopProcessing", ""), Action("applyLabel", "l2"), Action("markRead", "")>>,
  <<Action("forward", "a1"), Action("hardBlock", ""), Action("markSpam", "")>>,
  <<Action("markSpam", ""), Action("moveFolder", "f2"), Action("forward", "a2")>>}
Subject == "subject"
Cond(op, v) == [field |-> Subject, op |-> op, value |-> v]
Condition == {{}, {Cond("contains", <<"a">>)}, {Cond("startsWith", <<"b">>), Cond("wildcard", <<Star, "a">>)}}
RuleAt(i) == [id : {i}, enabled : {TRUE}, priority : {i \div 2}, created : {i}, mode : {"all", "any"},
              conditions : Condition, actions : ActionLists, createdBy : {"u1", "u2"}]
Modest(r) == r.mode = "any" => Cardinality(r.conditions) = 2
RuleTasks ==
  {[rules |-> {[r1 EXCEPT !.enabled = on], r2, r3}, m |-> [subject |-> s]] :
     on \in BOOLEAN, s \in {<<"b", "a">>, <<"b", NewLine, "a">>},
     r1 \in {r \in RuleAt(3) : Modest(r) /\ r.createdBy = "u1"},
     r2 \in {r \in RuleAt(2) : r.mode = "all" /\ r.createdBy = "u2"},
     r3 \in {r \in RuleAt(1) : r.mode = "any" /\ r.createdBy = "u1" /\ Cardinality(r.conditions) = 2}}

----------------------------------------------------------------------------
\* IMAP.
UpToLen(S, n) == UNION {[1..k -> S] : k \in 0..n}
CommandLines == UpToLen([size : {2, 5, 9}, plus : BOOLEAN], 3)
CommandTasks == {lines \o <<[size |-> 0, plus |-> FALSE]>> : lines \in CommandLines}
StringTasks == UpToLen({"a", Quote, Backslash, "cr", "eightBit"}, 4)
NameTexts == UpToLen({<<"char", "a">>, Ampersand, Minus, <<"unit", 233>>, <<"unit", 65535>>}, 4)
Present == {SetToSortSeq(s, <) : s \in SUBSET (1..6)}
SetTasks == [present : Present, nums : UNION {SetToSeqs(s) : s \in {t \in SUBSET (1..6) : Cardinality(t) <= 4}}]
Test(x) == [k |-> "test", what |-> x]
InSet(lo, hi) == [k |-> "set", uid |-> FALSE, spec |-> <<[lo |-> lo, hi |-> hi]>>]
Atoms == {Test("seen"), Test("from"), InSet(2, Largest), InSet(1, 2), [k |-> "none"], [k |-> "all"]}
Searches ==
  {<<a, b>> : a \in Atoms, b \in Atoms}
  \union {<<[k |-> "not"], a, b>> : a \in Atoms, b \in Atoms}
  \union {<<[k |-> "or"], a, b, c>> : a \in Atoms, b \in Atoms, c \in Atoms}
  \union {<<[k |-> "or"], [k |-> "not"], a, [k |-> "list", keys |-> <<b, c>>], Test("seen")>> :
            a \in Atoms, b \in Atoms, c \in Atoms}
  \union {<<a, [k |-> "list", keys |-> <<[k |-> "or"], b, [k |-> "not"], c>>], [k |-> "list", keys |-> <<>>]>> :
            a \in Atoms, b \in Atoms, c \in Atoms}
Folder == <<[uid |-> 3, holds |-> {}], [uid |-> 5, holds |-> {"seen"}], [uid |-> 9, holds |-> {"seen", "from"}]>>

----------------------------------------------------------------------------
Init == kind \in {"names", "blocklists", "relays", "rules", "framing", "set", "search", "text", "fetch", "pgp",
                 "codes", "bodies", "fetches", "texts", "requests"} /\ input = <<>>

Pick(k, t, tasks) == kind = k /\ kind' = t /\ input' \in tasks

Next ==
  \/ Pick("names", "spam", NameTasks)
  \/ Pick("blocklists", "spam", ContentTasks)
  \/ Pick("relays", "spam", RelayTasks)
  \/ Pick("rules", "rule", RuleTasks)
  \/ Pick("framing", "command", CommandTasks)
  \/ Pick("text", "string", StringTasks)
  \/ Pick("text", "name", NameTexts)
  \/ Pick("set", "nums", SetTasks)
  \/ Pick("search", "keys", Searches)
  \/ Pick("fetch", "tree", Trees)
  \/ Pick("fetch", "section", Sections)
  \/ Pick("fetch", "addresses", Lists)
  \/ Pick("fetch", "params", Params)
  \/ Pick("fetch", "bytes", Bytes)
  \/ Pick("pgp", "seal", Seals)
  \/ Pick("pgp", "privateKey", StoredKeys)
  \/ Pick("codes", "code", Texts)
  \/ Pick("codes", "token", TokenMails)
  \/ Pick("codes", "field", [bare : BareItems, params : ParamLists])
  \/ Pick("bodies", "body", HtmlBodies)
  \/ Pick("bodies", "list", FirstLists \X Visits)
  \/ Pick("fetches", "chain", Chains)
  \/ Pick("fetches", "ip", Ips)
  \/ Pick("fetches", "wish", Wishes)
  \/ Pick("texts", "html", HtmlTexts)
  \/ Pick("texts", "subject", SubjectTexts)
  \/ Pick("texts", "composition", Compositions)
  \/ Pick("texts", "stream", Streams)
  \/ Pick("requests", "request", Requests)

Spec == Init /\ [][Next]_vars

\* spam.ts, dnsbl.ts: a message is turned away or filed as spam only for what was
\* found out about it: an authenticated one is never refused, one listing is not
\* enough, a lost answer acquits, and the classifier never does.
VerdictIsEarned(outcome) ==
  /\ RefusesOnlyForged(input.m, outcome, input.dns, input.ai)
  /\ ClassifierNeverAcquits(input.m, outcome, input.dns, input.ai)
  /\ OneListingIsNotEnough(input.m, outcome, input.dns, input.ai)
  /\ LostAnswersAcquit(input.m, outcome, input.dns, input.ai)

\* spam.ts, rules.ts, blocklist.ts: a verdict is earned; the outcome of rules is what the
\* actions of those that match come to, in their order and up to the one that stops.
VerdictsAreEarned ==
  /\ kind = "spam" =>
        VerdictIsEarned(Outcomes(input.m, input.level, input.dqs, input.dns, input.ai))
  /\ kind = "rule" => OutcomeIsWhatActs(input.rules, input.m)

\* protocol.ts, fetch.ts, search.ts, pgp.ts: whatever literals a command has and whichever is refused,
\* the next command begins where the client meant it to; a string, a folder's name, a set
\* of numbers, an address list and a section that were written are read back as they were;
\* a message is shown, and given out in sections, as it was composed; what was sealed
\* opens for those it is for; and SEARCH finds what the algebra of its keys says.
WireReadsBack ==
  /\ kind = "command" => CommandsStayAligned(input)
  /\ kind = "string" => StringsRoundTrip(input)
  /\ kind = "name" => NamesRoundTrip(input)
  /\ kind = "nums" => SetsRoundTrip(input.present, input.nums)
  /\ kind = "tree" => ShowsTheTree(input) /\ PartitionsFields(input)
  /\ kind = "section" => SectionsEchoed(input)
  /\ kind = "addresses" => AddressesReadBack(input)
  /\ kind = "params" => ParamsReadBack(input)
  /\ kind = "bytes" => CrlfIsSettled(input)
  /\ kind = "seal" => SealsOpen(input.sender, input.to, input.content, {"me", "kb", "kc", "kz"})
  /\ kind = "privateKey" => StoredKeyOpens(input.priv, input.passphrase, {"master", "other"})
  /\ kind = "keys" => SearchIsSetAlgebra(input, Folder)

\* otp.ts, trackers.ts, img-proxy.ts, ssrf.ts, unsubscribe.ts, search.ts: a code is offered on the site
\* of the sender alone and for a reason; a shown body asks nobody but the proxy; an outage
\* forgets no tracker; unsubscribing follows no redirect to an inner address; and a search
\* finds what it asks for, in the mailboxes of the caller.
ContentIsServed ==
    LET shown(body, rules) == OnlyTheProxyIsAsked(body, rules) /\ NothingElseIsLost(input, body, rules, Cids)
        safely(rules) == shown(Shown(input, rules, Cids), rules)
        code(subject, body) == /\ Measured(subject) /\ Measured(body)
                               /\ FoundForAReason(subject, body, DetectCode(subject, body))
    IN  /\ kind = "code" => code(Numbered(input.subject), Numbered(input.body))
        /\ kind = "token" => BoundToSender(input.from, input.fields, input.dmarc,
              ExtractOtp(input.from, input.fields, input.dmarc, <<>>, Numbered(input.body)))
        /\ kind = "field" => ItemReadsBack(input.bare, input.params)
        /\ kind = "body" => safely(CompileRules({{"r1", "broken"}}, {"r0", "r1"}))
        /\ kind = "list" => OutagesEmptyNothing(input[1], input[2])
        /\ kind = "chain" => HopsAreChecked(input)
        /\ kind = "ip" => JudgedAlike(input)
        /\ kind = "request" => SearchIsScoped(Caller, Boxes, Letters, input)
        /\ kind = "html" => IndexesWhatIsSeen(input[1], input[2])
        /\ kind = "subject" => RepliesShareSubject(input)
        /\ kind = "composition" => BuiltToBeRead(input)
        /\ kind = "stream" => ReadAsAWhole(input)
        /\ kind = "wish" => UnsubscribesAsAsked(input[1], input[2])

----------------------------------------------------------------------------
\* One request after the other, to ask for more than ContentIsServed does.
SearchSpec == Init /\ [][Pick("requests", "request", TextRequests \cup FieldRequests)]_vars

\* api/search.ts: the text and the fields of a request may be combined as one likes.
FieldsCombine == kind = "request" => FiltersCombine(Caller, Boxes, Letters, input)
================================================================================
