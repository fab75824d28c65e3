------------------------------ MODULE MailSearch ------------------------------
(***************************************************************************)
(* Advanced search (apps/worker/src/api/search.ts): the mailboxes that are *)
(* searched, the full-text expression, the metadata filters and the page.  *)
(*                                                                         *)
(* A word is a sequence of characters: plain ones, Umlaut (folded by the   *)
(* index, dropped from a query) and Dot (between words for the index,      *)
(* dropped from a query).  Dates are half days.                            *)
(***************************************************************************)
EXTENDS Naturals, Sequences, FiniteSets, SequencesExt

CONSTANTS
    MaxTokens,  \* MAX_TOKENS
    MinPrefix   \* MIN_PREFIX_LEN

Umlaut == "oe"
Dot == "."

(***************************************************************************)
(* The mailboxes.  mailboxes: owner and members' READ bits by id.          *)
(***************************************************************************)
Readable(user, mailboxes) ==
    {b \in DOMAIN mailboxes : mailboxes[b].owner = user \/ user \in mailboxes[b].readers}

\* "all" and a list; none of a list is left only if nothing in it may be read.
Scoped(readable, wanted) == IF wanted = {} THEN readable ELSE readable \cap wanted

(***************************************************************************)
(* The full-text expression.                                               *)
(***************************************************************************)
Sanitize(word) == SelectSeq(word, LAMBDA c : c \notin {Umlaut, Dot})

FtsToken(token) == [token |-> token, prefix |-> Len(token) >= MinPrefix]

AtMost(s, n) == SubSeq(s, 1, IF Len(s) < n THEN Len(s) ELSE n)

TokensOf(words) ==
    LET kept == SelectSeq([i \in DOMAIN words |-> Sanitize(words[i])], LAMBDA t : t # <<>>)
        few == AtMost(kept, MaxTokens)
    IN  [i \in DOMAIN few |-> FtsToken(few[i])]

\* The terms that are left after MaxTokens of them are not read.
SplitQuery(q) ==
    LET clean == [i \in DOMAIN q |-> [q[i] EXCEPT !.word = Sanitize(@)]]
        few == AtMost(SelectSeq(clean, LAMBDA t : t.word # <<>>), MaxTokens)
        side(neg) == LET s == SelectSeq(few, LAMBDA t : t.neg = neg)
                     IN  [i \in DOMAIN s |-> FtsToken(s[i].word)]
    IN  [positives |-> side(FALSE), negatives |-> side(TRUE)]

AllColumns == {"subject", "snippet", "body", "from_text", "to_text"}
ScopeCols(in) ==
    CASE in = "all" -> AllColumns
      [] in = "subject" -> {"subject"}
      [] in = "from" -> {"from_text", "to_text"}
      [] in = "body" -> {"body", "snippet"}

\* A clause: the columns, the tokens that are all to be found there, and whether it is in
\* parentheses behind a column filter.
Clause(cols, tokens, scoped) ==
    IF tokens = <<>> THEN <<>> ELSE <<[cols |-> cols, tokens |-> tokens, scoped |-> scoped]>>

BuildMatch(f) ==
    LET split == SplitQuery(f.q)
    IN  [clauses |-> Clause(ScopeCols(f.searchIn), split.positives, f.searchIn # "all")
                     \o Clause({"from_text", "to_text"}, TokensOf(f.from), TRUE)
                     \o Clause({"to_text"}, TokensOf(f.to), TRUE)
                     \o Clause({"subject"}, TokensOf(f.subject), TRUE),
         excludes |-> split.negatives \o TokensOf(f.exclude)]

\* FTS5: words beside each other are joined by an implicit AND, but not what is in
\* parentheses: such an expression is a syntax error.
Parses(match) == Len(match.clauses) > 1 => \A i \in DOMAIN match.clauses : ~match.clauses[i].scoped

\* FTS5, unicode61 remove_diacritics: the words of a column.
Folded(word) == [i \in DOMAIN word |-> IF word[i] = Umlaut THEN "o" ELSE word[i]]
Indexed(words) ==
    UNION {LET cuts == {i \in 0..(Len(w) + 1) : i \in {0, Len(w) + 1} \/ w[i] = Dot}
           IN  {SubSeq(w, c[1] + 1, c[2] - 1) :
                  c \in {p \in cuts \X cuts : p[1] < p[2] /\ \A k \in cuts : k <= p[1] \/ k >= p[2]}} \ {<<>>} :
             w \in {Folded(x) : x \in words}}
Holds(t, m, cols) ==
    \E c \in cols : \E w \in Indexed(m.text[c]) : IF t.prefix THEN IsPrefix(t.token, w) ELSE t.token = w

\* Excludes count beside a clause alone: "FTS5 has no unary NOT".
TextMatches(match, m) ==
    /\ \A i \in DOMAIN match.clauses : \A j \in DOMAIN match.clauses[i].tokens :
          Holds(match.clauses[i].tokens[j], m, match.clauses[i].cols)
    /\ match.clauses # <<>> =>
          \A i \in DOMAIN match.excludes : ~Holds(match.excludes[i], m, AllColumns)

(***************************************************************************)
(* The metadata filters.                                                   *)
(***************************************************************************)
InFolder(folder, m) ==
    CASE folder = "inbox" -> m.direction = "in" /\ ~m.trashed /\ ~m.spam
      [] folder = "sent" -> m.direction = "out" /\ ~m.trashed
      [] folder = "marked" -> m.starred /\ ~m.trashed
      [] folder = "spam" -> m.spam
      [] folder = "trash" -> m.trashed
      [] folder = "any" -> ~m.trashed /\ ~m.spam

\* A day is two halves; both days are part of the span.
ApplyFilters(f, m) ==
    /\ InFolder(f.folder, m)
    /\ f.direction # "" => m.direction = f.direction
    /\ f.hasAttachment => m.attachment
    /\ f.after # <<>> => m.date >= 2 * f.after[1]
    /\ f.before # <<>> => m.date <= 2 * f.before[1] + 1

(***************************************************************************)
(* The page.                                                               *)
(***************************************************************************)
\* bm25 is a rank that the index gives.
Ranks(f, match, m, n) ==
    CASE f.sort = "relevance" /\ match.clauses # <<>> ->
           m.rank < n.rank \/ (m.rank = n.rank /\ m.date > n.date)
      [] f.sort = "oldest" -> m.date < n.date
      [] OTHER -> m.date > n.date

Page(f, rows) ==
    LET all == AtMost(SubSeq(rows, f.page * f.limit + 1, Len(rows)), f.limit + 1)
    IN  [status |-> 200, results |-> AtMost(all, f.limit), hasMore |-> Len(all) > f.limit]

Search(user, mailboxes, messages, f) ==
    LET scope == Scoped(Readable(user, mailboxes), f.wanted)
        found(match) == {m \in messages : m.mailbox \in scope /\ ApplyFilters(f, m) /\ TextMatches(match, m)}
        rows(match) == SetToSortSeq(found(match), LAMBDA m, n : Ranks(f, match, m, n))
        ask(match) == IF Parses(match) THEN Page(f, rows(match)) ELSE [status |-> 500]
    IN  CASE scope = {} /\ f.wanted # {} -> [status |-> 403]
          [] scope = {} -> [status |-> 200, results |-> <<>>, hasMore |-> FALSE]
          [] OTHER -> ask(BuildMatch(f))

------------------------------------------------------------------------------
Plainly(word) == \A i \in DOMAIN word : word[i] \notin {Umlaut, Dot}
\* Somebody reads m and looks for word: it is there, or what is there begins with it.
Reads(word, m, cols) ==
    \E c \in cols : \E w \in Indexed(m.text[c]) :
        w = word \/ (Len(word) >= MinPrefix /\ IsPrefix(word, w))

\* What a reader expects of the words of a request that has few and plain ones.
Expected(f, m) ==
    LET asked == {f.q[i].word : i \in {j \in DOMAIN f.q : ~f.q[j].neg}}
        unwanted == {f.q[i].word : i \in {j \in DOMAIN f.q : f.q[j].neg}} \cup Range(f.exclude)
    IN  /\ \A w \in asked : Reads(w, m, ScopeCols(f.searchIn))
        /\ \A w \in Range(f.from) : Reads(w, m, {"from_text", "to_text"})
        /\ \A w \in Range(f.to) : Reads(w, m, {"to_text"})
        /\ \A w \in Range(f.subject) : Reads(w, m, {"subject"})
        /\ asked \cup Range(f.from) \cup Range(f.to) \cup Range(f.subject) # {} =>
              \A w \in unwanted : ~Reads(w, m, AllColumns)

\* api/search.ts: a caller finds messages of mailboxes that are theirs to read and no other,
\* whatever ids they ask for; turning the pages shows everything that was found once and in
\* order, and the last one says so; plain words find what they stand in and are left out
\* where they are excluded, beside a word that is asked for.
SearchIsScoped(user, mailboxes, messages, f) ==
    LET answers == [p \in 0..(Cardinality(messages) + 1) |->
                      Search(user, mailboxes, messages, [f EXCEPT !.page = p])]
        mine == {b \in DOMAIN mailboxes : user \in mailboxes[b].readers \cup {mailboxes[b].owner}}
        pages == FlattenSeq([p \in 1..(Cardinality(messages) + 1) |-> answers[p - 1].results])
        plain == Len(f.q) <= MaxTokens /\ \A w \in {f.q[i].word : i \in DOMAIN f.q} \cup
                   UNION {Range(f[x]) : x \in {"from", "to", "subject", "exclude"}} : Plainly(w) /\ w # <<>>
        wanted(m) == /\ m.mailbox \in mine /\ (f.wanted = {} \/ m.mailbox \in f.wanted)
                     /\ ApplyFilters(f, m) /\ Expected(f, m)
        complete(all) ==
            /\ IsInjective(all)
            /\ \A m \in Range(all) : m.mailbox \in mine /\ (f.wanted # {} => m.mailbox \in f.wanted)
            /\ plain => Range(all) = {m \in messages : wanted(m)}
            /\ f.sort = "newest" => \A i, j \in DOMAIN all : i < j => all[i].date > all[j].date
            /\ \A p \in 0..Cardinality(messages) : answers[p].hasMore = (answers[p + 1].results # <<>>)
    IN  CASE answers[0].status = 200 -> complete(pages)
          [] answers[0].status = 403 -> f.wanted # {} /\ f.wanted \cap mine = {}
          [] OTHER -> ~Parses(BuildMatch(f))

\* api/search.ts: "Turn the free-text + field filters into an FTS5 MATCH expression": a
\* request whose filters are valid is answered.
FiltersCombine(user, mailboxes, messages, f) == Search(user, mailboxes, messages, f).status # 500
================================================================================
