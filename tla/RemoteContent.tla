---------------------------- MODULE RemoteContent ----------------------------
(***************************************************************************)
(* What the body of a message may load when it is shown: the trackers are  *)
(* taken out (apps/worker/src/mail/trackers.ts), what is remote goes       *)
(* through the proxy and inline images to their attachments                *)
(* (mail/img-proxy.ts).                                                    *)
(*                                                                         *)
(* A body is a sequence of elements.  A reference has a scheme ("http",    *)
(* "cid", "data", "relative", "proxy", "attachment", Missing for an absent *)
(* attribute) and, where it matters, what it is of: a URL with the rules   *)
(* that match it, a Content-ID.  CSS is a sequence of urls and @imports.   *)
(***************************************************************************)
EXTENDS Naturals, Sequences, FiniteSets, SequencesExt

CONSTANTS
    LocalRules,  \* LOCAL_RULES
    MinRules,    \* MIN_RULES_PER_SOURCE
    Daily,       \* REFRESH_INTERVAL_MS
    Hourly       \* RETRY_INTERVAL_MS

Missing == [scheme |-> "none"]
Remote(ref) == ref.scheme = "http"

(***************************************************************************)
(* The rules.                                                              *)
(***************************************************************************)
\* A list in Adblock syntax, a kind for every line; fewer rules than expected mean that the
\* format has moved.
ParseEasyPrivacy(lines) ==
    LET rules == {line.rule : line \in {x \in Range(lines) : x.kind = "rule" /\ x.rule # ""}}
    IN  IF Cardinality(rules) >= MinRules THEN <<rules>> ELSE <<>>

\* In the literal a key is followed by a colon and a value is not; what is commented out,
\* and what comes before the dictionary, is not in it.
ParseMailTrackerBlocker(lines) ==
    LET start == SelectInSeq(lines, LAMBDA line : line.kind = "dictionary")
        rules == {line.rule : line \in {x \in Range(SubSeq(lines, start, Len(lines))) : x.kind = "value" /\ x.rule # ""}}
    IN  IF start > 0 /\ Cardinality(rules) >= MinRules THEN <<rules>> ELSE <<>>

Sources == {"mailtrackerblocker", "easyprivacy"}
Parse(source, lines) ==
    IF source = "easyprivacy" THEN ParseEasyPrivacy(lines) ELSE ParseMailTrackerBlocker(lines)

\* stored: what readStored makes of the configuration, a sequence of at most one list.
\* answers: the lines that each source answers with, none for an outage.
Due(stored, now) == stored = <<>> \/ stored[1].next <= now

RefreshTrackerList(stored, now, answers) ==
    LET before == IF stored = <<>> THEN <<>> ELSE stored[1].sources
        kept == Sources \cap DOMAIN before
        list(parsed) ==
            LET fine == {s \in Sources : parsed[s] # <<>>}
            IN  [next |-> now + (IF fine = Sources THEN Daily ELSE Hourly),
                 sources |-> [s \in fine \cup kept |-> IF s \in fine THEN parsed[s][1] ELSE before[s]]]
    IN  IF Due(stored, now) THEN <<list([s \in Sources |-> Parse(s, answers[s])])>> ELSE stored

\* Rules that are too long or do not compile are left out, one by one.
CompileRules(sets, usable) == (LocalRules \cup UNION sets) \cap usable

IsTrackerUrl(ref, rules) ==
    /\ Remote(ref) /\ ~ref.url.long /\ ~ref.url.allowed
    /\ ref.url.matches \cap rules # {}

(***************************************************************************)
(* stripTrackers                                                           *)
(***************************************************************************)
\* CSS beats the attribute; "unknown" is what is no plain length.
Size(css, attribute) == IF css = "unknown" THEN attribute ELSE css

LooksLikePixel(el) ==
    LET w == Size(el.cssWidth, el.width)
        h == Size(el.cssHeight, el.height)
    IN  el.hidden \/ "0" \in {w, h} \/ (w = "1" /\ h = "1")

Pictured(el) == {ref \in {el.src} \cup Range(el.srcset) : Remote(ref)}

IsBeacon(el, rules) ==
    /\ el.tag = "img" /\ Pictured(el) # {}
    /\ (\E ref \in Pictured(el) : IsTrackerUrl(ref, rules)) \/ LooksLikePixel(el)

\* A style attribute is looked into if it spells url( in lower case; a style element always.
LooksIntoCss(el) == el.tag = "style" \/ \E i \in DOMAIN el.css : el.css[i].fn = "url("

MapCss(el, Change(_)) ==
    IF LooksIntoCss(el)
    THEN [el EXCEPT !.css = [i \in DOMAIN @ |->
            IF @[i].fn = "@import" THEN @[i] ELSE [@[i] EXCEPT !.ref = Change(@)]]]
    ELSE el

Blanked == [scheme |-> "nowhere"]   \* url() replaced by none

StripElement(el, rules) ==
    LET gone(ref) == IF IsTrackerUrl(ref, rules) THEN Blanked ELSE ref
        bare == IF IsTrackerUrl(el.background, rules) THEN [el EXCEPT !.background = Missing] ELSE el
    IN  MapCss(bare, gone)

StripTrackers(body, rules) ==
    LET kept == SelectSeq(body, LAMBDA el : ~IsBeacon(el, rules))
    IN  [i \in DOMAIN kept |-> StripElement(kept[i], rules)]

(***************************************************************************)
(* proxyRemoteContent                                                      *)
(***************************************************************************)
\* The proxy fetches what was signed, whatever else it is asked for.
Signature(url) == <<"signed", url>>
VerifyProxyUrl(url, sig) == sig = Signature(url)

\* Mutant of ToProxyUrl: what is fetched over a secure connection is left.
ToProxyUrlPlain(ref) ==
    IF Remote(ref) /\ ~ref.url.secure
    THEN [scheme |-> "proxy", url |-> ref.url, sig |-> Signature(ref.url)] ELSE ref
ToProxyUrl(ref) ==
    IF Remote(ref) THEN [scheme |-> "proxy", url |-> ref.url, sig |-> Signature(ref.url)] ELSE ref

\* An import goes if it is ended.
WithoutImports(css) == SelectSeq(css, LAMBDA c : c.fn # "@import" \/ ~c.ended)

EveryReference(el, Change(_)) ==
    LET img == IF el.tag = "img"
               THEN [el EXCEPT !.src = Change(@), !.srcset = [i \in DOMAIN @ |-> Change(@[i])]] ELSE el
    IN  MapCss([img EXCEPT !.background = Change(@)], Change)

ProxyRemoteContent(body) ==
    LET cut(el) == IF LooksIntoCss(el) THEN [el EXCEPT !.css = WithoutImports(@)] ELSE el
    IN  [i \in DOMAIN body |-> cut(EveryReference(body[i], ToProxyUrl))]

(***************************************************************************)
(* rewriteInlineCids                                                       *)
(***************************************************************************)
CidToUrl(ref, cids) ==
    IF ref.scheme = "cid" /\ ref.id \in DOMAIN cids
    THEN [scheme |-> "attachment", id |-> cids[ref.id]] ELSE ref

\* Any style that mentions a cid is rewritten, however url( is spelled.
RewriteInlineCids(body, cids) ==
    LET change(ref) == CidToUrl(ref, cids)
        css(el) == [el EXCEPT !.css = [i \in DOMAIN @ |->
                     IF @[i].fn = "@import" THEN @[i] ELSE [@[i] EXCEPT !.ref = change(@)]]]
        img(el) == IF el.tag = "img"
                   THEN [el EXCEPT !.src = change(@), !.srcset = [i \in DOMAIN @ |-> change(@[i])]] ELSE el
    IN  [i \in DOMAIN body |-> css(img([body[i] EXCEPT !.background = change(@)]))]

Shown(body, rules, cids) ==
    RewriteInlineCids(ProxyRemoteContent(StripTrackers(body, rules)), cids)

------------------------------------------------------------------------------
References(el) ==
    {el.src, el.background} \cup Range(el.srcset)
    \cup {el.css[i].ref : i \in {j \in DOMAIN el.css : el.css[j].fn # "@import"}}

\* img-proxy.ts: "this leaves the proxy as the *only* way an email can fetch a remote
\* resource", but for a style attribute that spells no url( in lower case and an @import
\* that is not ended.  A listed tracker or an invisible image is not asked for even there.
OnlyTheProxyIsAsked(shown, rules) ==
    \A i \in DOMAIN shown :
        /\ ~IsBeacon(shown[i], rules)
        /\ \A ref \in References(shown[i]) :
             Remote(ref) => shown[i].tag # "style" /\ \A c \in Range(shown[i].css) : c.fn # "url("
        /\ \A ref \in References(shown[i]) :
             ref.scheme = "proxy" => /\ ~IsTrackerUrl([scheme |-> "http", url |-> ref.url], rules)
                                     /\ VerifyProxyUrl(ref.url, ref.sig)
        /\ LooksIntoCss(shown[i]) => \A c \in Range(shown[i].css) : c.fn = "@import" => ~c.ended

\* trackers.ts, img-proxy.ts: what is no beacon is shown, in its place; an inline image that
\* has its attachment is that attachment, and everything that is not remote stays.
NothingElseIsLost(body, shown, rules, cids) ==
    LET visible == SelectSeq(body, LAMBDA el : ~IsBeacon(el, rules))
        fits(old, new) ==
            CASE old.scheme = "http" -> (new.scheme = "proxy" /\ new.url = old.url) \/ IsTrackerUrl(old, rules)
              [] old.scheme = "cid" -> new = CidToUrl(old, cids)
              [] OTHER -> new = old
    IN  /\ Len(shown) = Len(visible)
        /\ \A i \in DOMAIN shown : shown[i].tag = "img" =>
              /\ fits(visible[i].src, shown[i].src) /\ fits(visible[i].background, shown[i].background)
              /\ \A j \in DOMAIN visible[i].srcset : fits(visible[i].srcset[j], shown[i].srcset[j])
\* trackers.ts: "a source that fails keeps its previous rules, so an upstream outage never
\* empties the list; the whole set then retries on the shorter interval": whenever it was
\* due and whatever was answered, the rules of a source are those of its last good answer.
OutagesEmptyNothing(first, visits) ==
    LET lists[i \in 0..Len(visits)] ==
            IF i = 0 THEN first ELSE RefreshTrackerList(lists[i - 1], visits[i].now, visits[i].answers)
        good(s) == {i \in 1..Len(visits) : /\ Due(lists[i - 1], visits[i].now)
                                           /\ Parse(s, visits[i].answers[s]) # <<>>}
        latest(s) == CHOOSE i \in good(s) : \A j \in good(s) : j <= i
        holds(list, last) ==
            /\ DOMAIN list.sources \subseteq Sources
            /\ \A s \in Sources : good(s) # {} =>
                  list.sources[s] = Parse(s, visits[latest(s)].answers[s])[1]
            /\ \A s \in Sources : last \notin good(s) => list.next <= visits[last].now + Hourly
    IN  Due(first, visits[1].now) => holds(lists[Len(visits)][1],
            CHOOSE i \in 1..Len(visits) : /\ Due(lists[i - 1], visits[i].now)
                                          /\ \A j \in (i + 1)..Len(visits) : ~Due(lists[j - 1], visits[j].now))

------------------------------------------------------------------------------
(***************************************************************************)
(* Fetching what a message names: which hosts are off limits and how a     *)
(* redirect is followed (apps/worker/src/ssrf.ts), and unsubscribing       *)
(* (mail/unsubscribe.ts).                                                  *)
(*                                                                         *)
(* A number in a host is the sequence of its bytes, without leading zeros  *)
(* (<<0>> is zero), whatever base it is written in.                        *)
(***************************************************************************)

CONSTANT MaxHops   \* redirects that are followed

(***************************************************************************)
(* Hosts.                                                                  *)
(***************************************************************************)
Zeros(n) == [i \in 1..n |-> 0]

\* inet_aton: the last of up to four numbers has the bytes that are left.
Ipv4(parts) ==
    LET n == Len(parts)
        room == 5 - n
    IN  IF \/ n \notin 1..4 \/ <<>> \in Range(parts)   \* a label that is no number
           \/ \E i \in 1..(n - 1) : Len(parts[i]) > 1
           \/ Len(parts[n]) > room
        THEN <<>>
        ELSE FlattenSeq(SubSeq(parts, 1, n - 1)) \o Zeros(room - Len(parts[n])) \o parts[n]

BlockedIpv4(ip) ==
    \/ ip[1] \in {0, 10, 127} \cup 224..255
    \/ ip[1] = 169 /\ ip[2] = 254
    \/ ip[1] = 172 /\ ip[2] \in 16..31
    \/ ip[1] = 192 /\ ip[2] = 168
    \/ ip[1] = 100 /\ ip[2] \in 64..127

\* The groups of a literal: numbers and the one gap; a dotted tail is two groups.  A group
\* is the pair of its bytes; anything else is malformed.
Gap == <<>>
Tail4(tail) == IF tail = <<>> THEN <<>> ELSE <<<<tail[1], tail[2]>>, <<tail[3], tail[4]>>>>

Ipv6(literal) ==
    LET groups == literal.groups \o Tail4(literal.tail)
        gaps == {i \in DOMAIN groups : groups[i] = Gap}
        n == Len(groups) - Cardinality(gaps)
    IN  CASE \/ Cardinality(gaps) > 1 \/ \E i \in DOMAIN groups \ gaps : Len(groups[i]) # 2
             \/ n > 8 - Cardinality(gaps) -> <<>>
          [] gaps = {} -> IF n = 8 THEN groups ELSE <<>>
          [] OTHER -> LET i == CHOOSE g \in gaps : TRUE
                      IN  SubSeq(groups, 1, i - 1) \o [k \in 1..(8 - n) |-> <<0, 0>>]
                          \o SubSeq(groups, i + 1, Len(groups))

BlockedIpv6(g) ==
    LET zero(n) == \A i \in 1..n : g[i] = <<0, 0>>
        embedded == g[7] \o g[8]
        nat64 == g[1] = <<0, 100>> /\ g[2] = <<255, 155>> /\ \A i \in 3..6 : g[i] = <<0, 0>>
    IN  \/ zero(7) /\ g[8] \in {<<0, 0>>, <<0, 1>>}
        \/ g[1][1] = 254 /\ g[1][2] \in 128..191
        \/ g[1][1] \in {252, 253, 255}
        \/ (\/ zero(5) /\ g[6] \in {<<255, 255>>, <<0, 0>>}
            \/ nat64) /\ BlockedIpv4(embedded)

\* A host is a "name", one of them "internal" (localhost, .localhost, .local, .internal),
\* the numbers between its dots, or an IPv6 literal.
BlockedHost(host) ==
    CASE host.kind = "name" -> host.internal
      [] host.kind = "v6" -> Ipv6(host) = <<>> \/ BlockedIpv6(Ipv6(host))
      [] host.kind = "dotted" -> Ipv4(host.parts) # <<>> /\ BlockedIpv4(Ipv4(host.parts))

(***************************************************************************)
(* safeRedirectFetch.  chain: where the first URL and every redirect lead, *)
(* each with what is answered there: "done", "away" (redirect), "nowhere"  *)
(* (redirect without a location) or "bad" (one that is no URL).            *)
(***************************************************************************)
Refused(url) == url.scheme \notin {"http", "https"} \/ BlockedHost(url.host)

\* Mutant of Hop: a redirect is trusted.
HopOnce(chain, i) == i > 1 \/ ~Refused(chain[i])
Hop(chain, i) == ~Refused(chain[i])

\* The number of URLs that were fetched, and how it ended.
SafeRedirectFetch(chain) ==
    LET from[i \in 1..(Len(chain) + 1)] ==
          CASE i > MaxHops + 1 \/ i > Len(chain) -> [fetched |-> i - 1, result |-> "tooMany"]
            [] ~Hop(chain, i) -> [fetched |-> i - 1, result |-> "blocked"]
            [] chain[i].answer \in {"done", "nowhere"} -> [fetched |-> i, result |-> chain[i].status]
            [] chain[i].answer = "bad" -> [fetched |-> i, result |-> "blocked"]
            [] OTHER -> from[i + 1]
    IN  from[1]

(***************************************************************************)
(* Unsubscribing.  An address is [local, tag, domain].                     *)
(***************************************************************************)
First(uris, scheme) ==
    LET i == SelectInSeq(uris, LAMBDA uri : uri.scheme = scheme)
    IN  IF i = 0 THEN <<>> ELSE <<uris[i]>>

\* The tag in an address, and the case of its letters, do not matter.
DeliveredToMatches(deliveredTo, mailbox) ==
    deliveredTo # <<>> /\ deliveredTo[1].domain = mailbox.domain /\ deliveredTo[1].local = mailbox.local

SendMailto(msg, mailbox, uri) ==
    CASE uri.to = {} -> [status |-> "error", did |-> "nothing"]
      [] mailbox = <<>> -> [status |-> "error", did |-> "nothing"]
      [] OTHER ->
           [status |-> IF msg.sendFails THEN "error" ELSE "unsubscribed", did |-> "mail", to |-> uri.to,
            from |-> IF DeliveredToMatches(msg.deliveredTo, mailbox[1]) THEN msg.deliveredTo[1]
                     ELSE [local |-> mailbox[1].local, tag |-> "", domain |-> mailbox[1].domain]]

OneClickPost(chain) ==
    LET post(fetch) == [status |-> IF fetch.result = "ok" THEN "unsubscribed" ELSE "error",
                        did |-> IF fetch.fetched = 0 THEN "nothing" ELSE "post"]
    IN  post(SafeRedirectFetch(chain))

PerformUnsubscribe(msg, mailbox) ==
    LET https == First(msg.uris, "https")
        mailto == First(msg.uris, "mailto")
    IN  CASE msg.oneClick /\ https # <<>> -> OneClickPost(https[1].chain)
          [] mailto # <<>> -> SendMailto(msg, mailbox, mailto[1])
          [] https # <<>> -> [status |-> "open", did |-> "nothing"]
          [] OTHER -> [status |-> "error", did |-> "nothing"]

------------------------------------------------------------------------------
\* Every way to write an IPv4 address.
Significant(bytes) ==
    LET i == SelectInSeq(bytes, LAMBDA b : b # 0)
    IN  IF i = 0 THEN <<0>> ELSE SubSeq(bytes, i, Len(bytes))
Spellings4(ip) ==
    {[kind |-> "dotted", parts |-> [i \in 1..n |->
        IF i < n THEN <<ip[i]>> ELSE Significant(SubSeq(ip, n, 4))]] : n \in 1..4}

\* And an IPv6 address: any run of zeros may be the gap, the tail may be dotted.
Written6(g) ==
    {[kind |-> "v6", groups |-> g, tail |-> <<>>],
     [kind |-> "v6", groups |-> SubSeq(g, 1, 6), tail |-> g[7] \o g[8]]}
    \cup {[kind |-> "v6", tail |-> <<>>,
           groups |-> SubSeq(g, 1, run[1] - 1) \o <<Gap>> \o SubSeq(g, run[2] + 1, 8)] :
            run \in {r \in (1..8) \X (1..8) : r[1] <= r[2] /\ \A i \in r[1]..r[2] : g[i] = <<0, 0>>}}
Embedding(ip) ==
    LET low == <<<<ip[1], ip[2]>>, <<ip[3], ip[4]>>>>
    IN  {<<<<0, 0>>, <<0, 0>>, <<0, 0>>, <<0, 0>>, <<0, 0>>, <<255, 255>>>> \o low,
         <<<<0, 100>>, <<255, 155>>, <<0, 0>>, <<0, 0>>, <<0, 0>>, <<0, 0>>>> \o low}

\* ssrf.ts: an address is judged by where it leads, however it is written.
JudgedAlike(ip) ==
    /\ \A host \in Spellings4(ip) : BlockedHost(host) = BlockedIpv4(ip)
    /\ \A g \in Embedding(ip) : \A host \in Written6(g) : BlockedHost(host) = BlockedIpv4(ip)

\* ssrf.ts: "every hop is re-validated": nothing that is off limits is fetched, by however
\* many redirects it is reached, and there are not more than were allowed.
HopsAreChecked(chain) ==
    LET fetch == SafeRedirectFetch(chain)
    IN  /\ fetch.fetched <= MaxHops + 1
        /\ \A i \in 1..fetch.fetched : ~Refused(chain[i])
        /\ \A i \in 1..(fetch.fetched - 1) : chain[i].answer = "away"

\* unsubscribe.ts: the sender's wish decides the channel, nothing is posted that was not
\* announced as one click, "we only ever send from an address we actually own", the one the
\* mail came to if it is one of them, and what failed is not called done.
UnsubscribesAsAsked(msg, mailbox) ==
    LET done == PerformUnsubscribe(msg, mailbox)
    IN  /\ done.did = "post" => msg.oneClick
        /\ msg.oneClick /\ First(msg.uris, "https") # <<>> => done.did # "mail"
        /\ done.did = "mail" =>
             /\ <<done.from.local, done.from.domain>> = <<mailbox[1].local, mailbox[1].domain>>
             /\ done.from.tag # "" => done.from = msg.deliveredTo[1]
             /\ \E uri \in Range(msg.uris) : uri.scheme = "mailto" /\ uri.to = done.to
        /\ done.status = "unsubscribed" => done.did \in {"post", "mail"} /\ (done.did = "mail" => ~msg.sendFails)
        /\ done.status = "open" => \A uri \in Range(msg.uris) : uri.scheme # "mailto"
==============================================================================
