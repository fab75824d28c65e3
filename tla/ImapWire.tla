------------------------------- MODULE ImapWire -------------------------------
(***************************************************************************)
(* The pure parts of the IMAP server: framing of commands with literals,   *)
(* strings, mailbox names in modified UTF-7, sequence sets                 *)
(* (imap/protocol.ts) and SEARCH (imap/search.ts).  Letters are abstract;  *)
(* a set is a sequence of ranges, a search a sequence of keys.             *)
(***************************************************************************)
EXTENDS Integers, Sequences, FiniteSets, SequencesExt, Naturals, TLC

CONSTANTS
  MaxLiteral,  \* the limit on a literal of the command at hand
  DrainMax,    \* DRAIN_MAX
  UnitBits     \* bits of a UTF-16 unit

----------------------------------------------------------------------------
(***************************************************************************)
(* Framing.  A command is a sequence of lines; each announces the literal  *)
(* that follows it, [size, plus], or none (size 0).  Data announced with   *)
(* plus is on the wire at once, other data only after a continuation.      *)
(***************************************************************************)
Ends(line) == line.size = 0

\* drainRest goes on with the rest of the command.
Drained(st) == [st EXCEPT !.drain = TRUE]

Stop(st, result) == [st EXCEPT !.done = TRUE, !.result = result]

\* One line of readCommand, or of drainRest once a literal was refused, and the
\* literal it announces.  read: lines consumed; continued: literals asked for.
ReadLine(st, line) ==
  LET next == [st EXCEPT !.read = @ + 1]
      fits == ~st.drain /\ line.size <= MaxLiteral
  IN  CASE st.done -> st
        [] ~st.done /\ Ends(line) -> Stop(next, IF st.drain THEN "tooBig" ELSE "command")
        [] ~st.done /\ ~Ends(line) /\ fits ->
             [next EXCEPT !.continued = IF line.plus THEN @ ELSE @ \union {next.read}]
        [] ~st.done /\ ~Ends(line) /\ ~fits /\ ~line.plus ->
             Stop(next, IF st.drain THEN "bad" ELSE "tooBig")
        [] ~st.done /\ ~Ends(line) /\ ~fits /\ line.plus ->
             IF line.size <= DrainMax THEN Drained(next) ELSE Stop(next, "bad")

ReadCommand(lines) ==
  FoldLeft(ReadLine, [read |-> 0, continued |-> {}, drain |-> FALSE, done |-> FALSE,
                      result |-> "open"], lines)

\* The lines a client has put on the wire: it waits where it was not asked to go on.
OnTheWire(lines, continued) ==
  CHOOSE n \in 1..Len(lines) :
    /\ \A i \in 1..(n - 1) : lines[i].plus \/ i \in continued
    /\ n = Len(lines) \/ ~(lines[n].plus \/ n \in continued)

\* A refused literal does not desynchronise the connection: nothing a command has put
\* on the wire is left there to be read as the next command, provided no literal sent
\* ahead is beyond what the server drains; and the command is only read as a whole.
CommandsStayAligned(lines) ==
  LET out == ReadCommand(lines)
  IN  (\A i \in DOMAIN lines : lines[i].plus => lines[i].size <= DrainMax)
        => /\ out.read = OnTheWire(lines, out.continued)
           /\ out.result = "command" <=> \A i \in DOMAIN lines : lines[i].size <= MaxLiteral

----------------------------------------------------------------------------
(***************************************************************************)
(* Strings: a quoted string with escapes when every letter may be quoted,  *)
(* a literal otherwise; and what the tokenizer reads.                      *)
(***************************************************************************)
Quote == "quote"
Backslash == "backslash"

Unquotable == {"nul", "cr", "lf", "eightBit"}

AString(s) ==
  IF \A i \in DOMAIN s : s[i] \notin Unquotable
  THEN [form |-> "quoted", size |-> 0,
        text |-> FoldLeft(LAMBDA out, c : out \o (IF c \in {Quote, Backslash}
                                                  THEN <<Backslash, c>> ELSE <<c>>), <<>>, s)
                   \o <<Quote>>]
  ELSE [form |-> "literal", size |-> Len(s), text |-> s]

\* readQuoted, letter by letter.
QuotedLetter(st, c) ==
  CASE st.end -> [st EXCEPT !.bad = TRUE]
    [] ~st.end /\ st.escaped -> [st EXCEPT !.out = Append(@, c), !.escaped = FALSE]
    [] ~st.end /\ ~st.escaped /\ c = Quote -> [st EXCEPT !.end = TRUE]
    [] ~st.end /\ ~st.escaped /\ c = Backslash -> [st EXCEPT !.escaped = TRUE]
    [] ~st.end /\ ~st.escaped /\ c \in {"cr", "lf"} -> [st EXCEPT !.bad = TRUE]
    [] OTHER -> [st EXCEPT !.out = Append(@, c)]

ReadString(wire) ==
  IF wire.form = "quoted"
  THEN FoldLeft(QuotedLetter, [out |-> <<>>, escaped |-> FALSE, end |-> FALSE, bad |-> FALSE],
                wire.text)
  ELSE [out |-> SubSeq(wire.text, 1, wire.size), escaped |-> FALSE, end |-> TRUE,
        bad |-> Len(wire.text) # wire.size]

\* What the server writes as a string is read back as that string.
StringsRoundTrip(s) ==
  LET read == ReadString(AString(s)) IN ~read.bad /\ read.end /\ read.out = s

----------------------------------------------------------------------------
(***************************************************************************)
(* Mailbox names.  A letter is <<"char", c>> when it is printable, or a    *)
(* UTF-16 unit <<"unit", n>> with n below 2^UnitBits; a run of units is    *)
(* written between "&" and "-" in sextets <<"six", n>>.                    *)
(***************************************************************************)
Ampersand == <<"char", "&">>
Minus == <<"char", "-">>

Bit(n, i) == (n \div 2^i) % 2

\* Mutant of Sextets: the bits that fill no sextet are cut off.
WholeSextets(units) == (UnitBits * units) \div 6

Sextets(units) == (UnitBits * units + 5) \div 6

RunSextets(run) ==
  LET bits == UnitBits * Len(run)
      bit(i) == IF i >= bits THEN 0
                ELSE Bit(run[i \div UnitBits + 1][2], UnitBits - 1 - (i % UnitBits))
      sextet(k) == FoldLeft(LAMBDA n, i : 2 * n + bit(6 * (k - 1) + i - 1), 0, [i \in 1..6 |-> i])
  IN  [k \in 1..Sextets(Len(run)) |-> <<"six", sextet(k)>>]

Flush(st) ==
  IF st.run = <<>> THEN st
  ELSE [out |-> st.out \o <<Ampersand>> \o RunSextets(st.run) \o <<Minus>>, run |-> <<>>]

EncodeMutf7(s) ==
  LET put(st, c) ==
        CASE c[1] = "unit"  -> [st EXCEPT !.run = Append(@, c)]
          [] c = Ampersand  -> [Flush(st) EXCEPT !.out = @ \o <<Ampersand, Minus>>]
          [] OTHER          -> [Flush(st) EXCEPT !.out = Append(@, c)]
  IN  Flush(FoldLeft(put, [out |-> <<>>, run |-> <<>>], s)).out

\* The units of a run of sextets; bits that fill no unit are dropped.
RunUnits(six) ==
  LET bit(i) == Bit(six[i \div 6 + 1][2], 5 - (i % 6))
      unit(k) == FoldLeft(LAMBDA n, i : 2 * n + bit(UnitBits * (k - 1) + i - 1), 0,
                          [i \in 1..UnitBits |-> i])
  IN  [k \in 1..((6 * Len(six)) \div UnitBits) |-> <<"unit", unit(k)>>]

DecodeMutf7(s) ==
  LET take(st, c) ==
        CASE ~st.inside /\ c = Ampersand -> [st EXCEPT !.inside = TRUE]
          [] st.inside /\ c = Minus ->
               [inside |-> FALSE, six |-> <<>>,
                out |-> st.out \o (IF st.six = <<>> THEN <<Ampersand>> ELSE RunUnits(st.six))]
          [] st.inside /\ c # Minus -> [st EXCEPT !.six = Append(@, c)]
          [] OTHER -> [st EXCEPT !.out = Append(@, c)]
  IN  FoldLeft(take, [inside |-> FALSE, six |-> <<>>, out |-> <<>>], s).out

\* A folder the server lists under an encoded name is found again by that name.
NamesRoundTrip(s) == DecodeMutf7(EncodeMutf7(s)) = s

----------------------------------------------------------------------------
(***************************************************************************)
(* Sequence sets: ranges [lo, hi] of numbers or "*", against the numbers   *)
(* present, ascending.                                                     *)
(***************************************************************************)
Largest == 0  \* "*": no message has the number 0

ExpandSequenceSet(spec, present) ==
  LET last == present[Len(present)]
      num(x) == IF x = Largest THEN last ELSE x
      inside(n, r) == \/ num(r.lo) <= n /\ n <= num(r.hi)
                      \/ num(r.hi) <= n /\ n <= num(r.lo)
  IN  IF present = <<>> THEN <<>>
      ELSE SelectSeq(present, LAMBDA n : \E i \in DOMAIN spec : inside(n, spec[i]))

Adjoins(r, n) == r.hi + 1 = n

\* The shortest list of ranges, for COPYUID.
CompressSet(nums) ==
  LET extend(out, n) == IF out # <<>> /\ Adjoins(Last(out), n)
                        THEN Front(out) \o <<[lo |-> Last(out).lo, hi |-> n]>>
                        ELSE Append(out, [lo |-> n, hi |-> n])
  IN  FoldLeft(extend, <<>>, SortSeq(nums, <))

\* COPYUID names exactly the messages that were moved: the compressed set expands,
\* against any folder that holds them, to those messages and no others, and no
\* range of it could be joined to the next.
SetsRoundTrip(present, nums) ==
  LET spec == CompressSet(nums)
  IN  /\ Range(nums) \subseteq Range(present) =>
           ExpandSequenceSet(spec, present) = SortSeq(nums, <)
      /\ \A i \in 1..(Len(spec) - 1) : spec[i].hi + 1 < spec[i + 1].lo

----------------------------------------------------------------------------
(***************************************************************************)
(* SEARCH.  Keys are a sequence: "NOT" and "OR" take the keys that follow, *)
(* [list] is a parenthesised search, [set, uid] a sequence set, anything   *)
(* else a test that a message passes or does not (flags, texts, headers,   *)
(* dates, sizes), or ALL or NONE (NEW, RECENT and keywords never match).   *)
(***************************************************************************)
RECURSIVE ParseKey(_), ParseSearchKeys(_)

Parsed(node, rest) == [node |-> node, rest |-> rest]

\* One key and what follows it.
ParseKey(keys) ==
  LET k == Head(keys)
  IN  CASE k.k = "list" -> Parsed(ParseSearchKeys(k.keys), Tail(keys))
        [] k.k = "not"  -> LET a == ParseKey(Tail(keys))
                           IN  Parsed([k |-> "not", n |-> a.node], a.rest)
        [] k.k = "or"   -> LET a == ParseKey(Tail(keys))
                               b == ParseKey(a.rest)
                           IN  Parsed([k |-> "or", a |-> a.node, b |-> b.node], b.rest)
        [] OTHER        -> Parsed(k, Tail(keys))

ParseSearchKeys(keys) ==
  LET all[todo \in {SubSeq(keys, i, Len(keys)) : i \in 1..(Len(keys) + 1)}] ==
        IF todo = <<>> THEN <<>>
        ELSE LET a == ParseKey(todo) IN <<a.node>> \o all[a.rest]
      list == all[keys]
  IN  IF Len(list) = 1 THEN list[1] ELSE [k |-> "and", list |-> list]

RECURSIVE Passes(_, _, _)

\* entries: the folder's [uid, holds] in order, holds the tests a message passes.
Passes(n, entries, i) ==
  CASE n.k = "all"  -> TRUE
    [] n.k = "none" -> FALSE
    [] n.k = "not"  -> ~Passes(n.n, entries, i)
    [] n.k = "or"   -> Passes(n.a, entries, i) \/ Passes(n.b, entries, i)
    [] n.k = "and"  -> \A j \in DOMAIN n.list : Passes(n.list[j], entries, i)
    [] n.k = "set"  -> IF n.uid THEN entries[i].uid \in Range(ExpandSequenceSet(n.spec,
                                                          [j \in DOMAIN entries |-> entries[j].uid]))
                       ELSE i \in Range(ExpandSequenceSet(n.spec, [j \in DOMAIN entries |-> j]))
    [] n.k = "test" -> n.what \in entries[i].holds

EvaluateSearch(keys, entries) ==
  {i \in DOMAIN entries : Passes(ParseSearchKeys(keys), entries, i)}

RECURSIVE Denoted(_, _)

\* What a search means, as sets of positions: what is left over once the first key is
\* taken is intersected with it.
Denoted(keys, entries) ==
  LET all == DOMAIN entries
      RECURSIVE taken(_)
      taken(ks) ==
        LET k == Head(ks)
        IN  CASE k.k = "list" -> [set |-> Denoted(k.keys, entries), rest |-> Tail(ks)]
              [] k.k = "not"  -> LET a == taken(Tail(ks)) IN [set |-> all \ a.set, rest |-> a.rest]
              [] k.k = "or"   -> LET a == taken(Tail(ks))
                                     b == taken(a.rest)
                                 IN  [set |-> a.set \union b.set, rest |-> b.rest]
              [] k.k = "test" -> [set |-> {i \in all : k.what \in entries[i].holds}, rest |-> Tail(ks)]
              [] OTHER -> [set |-> IF k.k = "set" /\ ~k.uid
                                   THEN {i \in all : \E r \in Range(k.spec) :
                                           LET hi == IF r.hi = Largest THEN Len(entries) ELSE r.hi
                                           IN  r.lo <= i /\ i <= hi}
                                   ELSE IF k.k = "all" THEN all ELSE {}, rest |-> Tail(ks)]
  IN  IF keys = <<>> THEN all
      ELSE LET first == taken(keys) IN first.set \intersect Denoted(first.rest, entries)

\* SEARCH is set algebra: adjacency intersects, OR unites its two keys, NOT
\* complements the one key after it, however they are nested.
SearchIsSetAlgebra(keys, entries) == EvaluateSearch(keys, entries) = Denoted(keys, entries)

------------------------------------------------------------------------------
(***************************************************************************)
(* What the IMAP server tells of a stored message: its MIME tree           *)
(* (imap/mime-tree.ts), and of that the structure, the sections and the    *)
(* addresses of a FETCH (imap/fetch.ts).                                   *)
(*                                                                         *)
(* A message is a sequence of lines, an offset the number of a line.  A    *)
(* line is [k, v]: "type" is the Content-Type field with v its type and    *)
(* boundary, "field" another field, "fold" its continuation, "blank" and   *)
(* "text", and "dash" a line that begins with two dashes and v.  Boundaries *)
(* are sequences of letters: one may begin with another.                   *)
(***************************************************************************)

CONSTANT MaxNesting  \* depth at which parsePart stops

Line(k, v) == [k |-> k, v |-> v]
Nothing == <<>>
EndMark == "--"  \* as the last letter of a dash line

----------------------------------------------------------------------------
(***************************************************************************)
(* The tree: every part is [start, body, end, type, children, message], of *)
(* lines start .. end, the body from line body on.                         *)
(***************************************************************************)
\* The header ends at the first blank line; one without is all header.
BodyStart(raw, start, end) ==
  LET blanks == {i \in start..end : raw[i].k = "blank"}
  IN  IF blanks = {} THEN end + 1 ELSE 1 + CHOOSE i \in blanks : \A j \in blanks : i <= j

\* The first Content-Type field; text without one.
ContentType(raw, start, body) ==
  LET types == SelectSeq(SubSeq(raw, start, body - 1), LAMBDA l : l.k = "type")
  IN  IF types = <<>> THEN [type |-> "text", boundary |-> Nothing] ELSE Head(types).v

\* Delimiters: dash lines that begin with the boundary, up to the closing one.
Marks(raw, start, end, boundary) ==
  LET hits == {i \in start..end : raw[i].k = "dash" /\ IsPrefix(boundary, raw[i].v)}
      closes(i) == IsPrefix(Append(boundary, EndMark), raw[i].v)
  IN  {i \in hits : \A j \in hits : j < i => ~closes(j)}

Closing(raw, i, boundary) == IsPrefix(Append(boundary, EndMark), raw[i].v)

\* The line end before a delimiter belongs to it: a part loses its last line if that is blank.
WithoutLineEnd(raw, start, end) ==
  IF end >= start /\ raw[end].k = "blank" THEN end - 1 ELSE end

SplitMultipart(raw, start, end, boundary) ==
  LET marks == Marks(raw, start, end, boundary)
      order == SetToSortSeq({i \in marks : ~Closing(raw, i, boundary)}, <)
      after(i) == {j \in marks : j > i}
      stop(i) == IF after(i) = {} THEN end
                 ELSE WithoutLineEnd(raw, i + 1, (CHOOSE j \in after(i) : \A k \in after(i) : j <= k) - 1)
  IN  [n \in DOMAIN order |-> <<order[n] + 1, stop(order[n])>>]

RECURSIVE ParsePart(_, _, _, _)
ParsePart(raw, start, end, depth) ==
  LET body  == BodyStart(raw, start, end)
      ct    == ContentType(raw, start, body)
      deep  == depth >= MaxNesting
      split == SplitMultipart(raw, body, end, ct.boundary)
  IN  [start |-> start, body |-> body, end |-> end, type |-> ct.type,
       children |-> IF ct.type = "multipart" /\ ct.boundary # Nothing /\ ~deep
                    THEN [n \in DOMAIN split |-> ParsePart(raw, split[n][1], split[n][2], depth + 1)]
                    ELSE <<>>,
       message |-> IF ct.type = "rfc822" /\ ~deep
                   THEN <<ParsePart(raw, body, end, depth + 1)>> ELSE <<>>]

ParseMimeTree(raw) == ParsePart(raw, 1, Len(raw), 0)

----------------------------------------------------------------------------
(***************************************************************************)
(* BODYSTRUCTURE.                                                          *)
(***************************************************************************)
\* A multipart without parts shows an empty text.
EmptyText == [type |-> "text", size |-> 0, parts |-> <<>>]

RECURSIVE BodyStructure(_)
BodyStructure(p) ==
  IF p.type = "multipart"
  THEN [type |-> p.type, size |-> 0,
        parts |-> IF p.children = <<>> THEN <<EmptyText>>
                  ELSE [i \in DOMAIN p.children |-> BodyStructure(p.children[i])]]
  ELSE [type |-> p.type, size |-> p.end + 1 - p.body,
        parts |-> IF p.message = <<>> THEN <<>> ELSE <<BodyStructure(p.message[1])>>]

----------------------------------------------------------------------------
(***************************************************************************)
(* BODY[section]: a path of part numbers and what to take of the part.     *)
(***************************************************************************)
NoPart == [type |-> "none"]
SubPart(parts, i) == IF i \in DOMAIN parts THEN parts[i] ELSE NoPart

\* One step of a path; the 1 at the end of a path into a single part is that part.
Step(p, i, last) ==
  CASE p = NoPart -> NoPart
    [] p # NoPart /\ p.children # <<>> -> SubPart(p.children, i)
    [] p # NoPart /\ p.children = <<>> /\ p.message # <<>> ->
         IF p.message[1].children # <<>> THEN SubPart(p.message[1].children, i)
         ELSE SubPart(p.message, i)
    [] OTHER -> IF i = 1 /\ last THEN p ELSE NoPart

Walk(root, path) ==
  FoldLeft(LAMBDA p, n : Step(p, path[n], n = Len(path)), root, [n \in DOMAIN path |-> n])

Null == <<0, 0>>
HeaderOf(p) == <<p.start, p.body - 1>>
BodyOf(p) == <<p.body, p.end>>

\* The lines a section is, first and last, or Null.
ExtractSection(root, path, kind) ==
  LET p == Walk(root, path)
      inner == IF path = <<>> THEN <<p>> ELSE p.message
  IN  CASE p = NoPart -> Null
        [] p # NoPart /\ kind = "" -> IF path = <<>> THEN <<1, p.end>> ELSE BodyOf(p)
        [] p # NoPart /\ kind = "MIME" -> HeaderOf(p)
        [] OTHER -> IF inner = <<>> THEN Null
                    ELSE IF kind = "TEXT" THEN BodyOf(inner[1]) ELSE HeaderOf(inner[1])

\* The fields of a header that are named, or those that are not, with their folds.
HeaderFields(raw, p, names, negate) ==
  LET of(i) == CHOOSE j \in p.start..i : raw[j].k # "fold" /\ \A k \in (j + 1)..i : raw[k].k = "fold"
      name(l) == IF l.k = "type" THEN "content-type" ELSE l.v
  IN  {i \in p.start..(p.body - 1) : raw[i].k # "blank" /\ (name(raw[of(i)]) \in names) # negate}

----------------------------------------------------------------------------
(***************************************************************************)
(* parseSectionSpec and sectionLabel: the segments between the dots, each  *)
(* a part number or a word, and the list of fields that follows.           *)
(***************************************************************************)
Number(n) == [n |-> n, word |-> ""]
Word(w) == [n |-> 0, word |-> w]
IsNumber(seg) == seg.word = ""
Plain == {"HEADER", "TEXT", "MIME"}
WithFields == {"HEADER.FIELDS", "HEADER.FIELDS.NOT"}

SectionLabel(s) ==
  [segs |-> [i \in DOMAIN s.path |-> Number(s.path[i])] \o (IF s.kind = "" THEN <<>> ELSE <<Word(s.kind)>>),
   list |-> IF s.kind \in WithFields THEN <<s.fields>> ELSE <<>>]

\* The section in a sequence of one, empty when there is no such section.
ParseSectionSpec(spec) ==
  LET numbers == SelectSeq(spec.segs, IsNumber)
      rest == SubSeq(spec.segs, Len(numbers) + 1, Len(spec.segs))
      kind == IF rest = <<>> THEN "" ELSE rest[1].word
      section == [path |-> [i \in DOMAIN numbers |-> numbers[i].n], kind |-> kind,
                  fields |-> IF spec.list = <<>> THEN <<>> ELSE spec.list[1]]
      good == /\ Len(rest) <= 1
              /\ (kind \in WithFields) = (Len(spec.list) = 1)
              /\ kind \in Plain \union WithFields \union {""}
              /\ kind = "MIME" => numbers # <<>>
  IN  IF good THEN <<section>> ELSE <<>>

----------------------------------------------------------------------------
(***************************************************************************)
(* Address lists, letter by letter; spaces are left out.                   *)
(***************************************************************************)
Dquote == "quote"
Escape == "backslash"

\* Where the letter is neither quoted nor in a comment, first; 0 if nowhere.
FindUnquoted(s, letter) ==
  LET look(st, i) ==
        CASE st.found > 0 -> st
          [] st.found = 0 /\ st.skip -> [st EXCEPT !.skip = FALSE]
          [] st.found = 0 /\ ~st.skip /\ s[i] = Escape /\ i < Len(s) -> [st EXCEPT !.skip = TRUE]
          [] st.found = 0 /\ ~st.skip /\ s[i] = Dquote /\ st.depth = 0 -> [st EXCEPT !.quoted = ~@]
          [] st.found = 0 /\ ~st.skip /\ s[i] = "(" /\ ~st.quoted -> [st EXCEPT !.depth = @ + 1]
          [] st.found = 0 /\ ~st.skip /\ s[i] = ")" /\ ~st.quoted /\ st.depth > 0 -> [st EXCEPT !.depth = @ - 1]
          [] OTHER -> IF s[i] = letter /\ ~st.quoted /\ st.depth = 0 THEN [st EXCEPT !.found = i] ELSE st
  IN  FoldLeft(look, [found |-> 0, skip |-> FALSE, quoted |-> FALSE, depth |-> 0],
               [i \in DOMAIN s |-> i]).found

\* The items between the commas that are not quoted, commented, in angles or in a group.
SplitTopLevel(s) ==
  LET put(st, c) == [st EXCEPT !.cur = Append(@, c)]
      free(st) == ~st.quoted /\ st.depth = 0
      step(st, c) ==
        CASE st.skip -> [put(st, c) EXCEPT !.skip = FALSE]
          [] ~st.skip /\ c = Escape /\ ~free(st) -> [put(st, c) EXCEPT !.skip = TRUE]
          [] ~st.skip /\ c = Dquote /\ st.depth = 0 -> [put(st, c) EXCEPT !.quoted = ~@]
          [] ~st.skip /\ c = "(" /\ ~st.quoted -> [put(st, c) EXCEPT !.depth = @ + 1]
          [] ~st.skip /\ c = ")" /\ ~st.quoted /\ st.depth > 0 -> [put(st, c) EXCEPT !.depth = @ - 1]
          [] ~st.skip /\ c \in {"<", ">"} /\ free(st) -> [put(st, c) EXCEPT !.angle = (c = "<")]
          [] ~st.skip /\ c \in {":", ";"} /\ st.groups /\ free(st) /\ ~st.angle ->
               [put(st, c) EXCEPT !.group = (c = ":")]
          [] OTHER -> IF c = "," /\ free(st) /\ ~st.angle /\ ~st.group
                      THEN [st EXCEPT !.out = Append(@, st.cur), !.cur = <<>>] ELSE put(st, c)
      flush(st) == IF st.cur = <<>> THEN st.out ELSE Append(st.out, st.cur)
  IN  flush(FoldLeft(step, [out |-> <<>>, cur |-> <<>>, skip |-> FALSE, quoted |-> FALSE, depth |-> 0,
                            angle |-> FALSE, group |-> FALSE, groups |-> FindUnquoted(s, ";") > 0], s))

\* An escape at the very end stands for itself.
Ended(st) == IF st.skip /\ st.depth = 0 THEN Append(st.out, Escape) ELSE st.out

StripComments(s) ==
  LET step(st, c) ==
        CASE st.skip -> [st EXCEPT !.skip = FALSE, !.out = IF st.depth = 0 THEN @ \o <<Escape, c>> ELSE @]
          [] ~st.skip /\ c = Escape -> [st EXCEPT !.skip = TRUE]
          [] ~st.skip /\ c = "(" /\ ~st.quoted -> [st EXCEPT !.depth = @ + 1]
          [] ~st.skip /\ c = ")" /\ ~st.quoted /\ st.depth > 0 -> [st EXCEPT !.depth = @ - 1]
          [] OTHER -> [st EXCEPT !.quoted = (@ # (c = Dquote /\ st.depth = 0)),
                                 !.out = IF st.depth = 0 THEN Append(@, c) ELSE @]
  IN  Ended(FoldLeft(step, [out |-> <<>>, skip |-> FALSE, quoted |-> FALSE, depth |-> 0], s))

StripQuotes(s) ==
  LET step(st, c) == IF c = Escape /\ ~st.skip THEN [st EXCEPT !.skip = TRUE]
                     ELSE [st EXCEPT !.skip = FALSE, !.out = Append(@, c)]
  IN  IF Len(s) >= 2 /\ Head(s) = Dquote /\ Last(s) = Dquote
      THEN Ended(FoldLeft(step, [out |-> <<>>, skip |-> FALSE, depth |-> 0], SubSeq(s, 2, Len(s) - 1)))
      ELSE s

LastOf(s, letter) == LET at == {i \in DOMAIN s : s[i] = letter}
                     IN  IF at = {} THEN 0 ELSE CHOOSE i \in at : \A j \in at : j <= i

Address(name, mailbox, host) == [name |-> name, mailbox |-> mailbox, host |-> host, group |-> ""]

WithHost(name, addr, at) ==
  IF at = 0 THEN Address(name, addr, <<>>)
  ELSE Address(name, SubSeq(addr, 1, at - 1), SubSeq(addr, at + 1, Len(addr)))
Unrouted(spec, colon) ==
  IF spec # <<>> /\ Head(spec) = "@" /\ colon > 0 THEN SubSeq(spec, colon + 1, Len(spec)) ELSE spec
AddressOf(name, spec) ==
  LET split(addr) == WithHost(name, addr, LastOf(addr, "@"))
  IN  split(Unrouted(spec, LastOf(spec, ":")))

\* name <route:mailbox@host>, or mailbox@host.
ParseAddress(s, lt) ==
  LET gts == {i \in DOMAIN s : s[i] = ">" /\ i > lt}
      gt == CHOOSE i \in gts : \A j \in gts : i <= j
  IN  IF lt > 0 /\ gts # {}
      THEN AddressOf(StripQuotes(StripComments(SubSeq(s, 1, lt - 1))), SubSeq(s, lt + 1, gt - 1))
      ELSE AddressOf(<<>>, StripComments(s))

RECURSIVE ParseAddressList(_)
ParseAddressList(s) ==
  LET group(x, colon) == <<[Address(<<>>, StripQuotes(SubSeq(x, 1, colon - 1)), <<>>) EXCEPT !.group = "start"]>>
                         \o ParseAddressList(SubSeq(x, colon + 1, Len(x) - 1))
                         \o <<[Address(<<>>, <<>>, <<>>) EXCEPT !.group = "end"]>>
      item(x, colon, lt) == IF colon > 0 /\ Last(x) = ";" /\ (lt = 0 \/ lt > colon)
                            THEN group(x, colon) ELSE <<ParseAddress(x, lt)>>
      all(items) == FlattenSeq([i \in DOMAIN items |->
                      item(items[i], FindUnquoted(items[i], ":"), FindUnquoted(items[i], "<"))])
  IN  all(SelectSeq(SplitTopLevel(s), LAMBDA x : x # <<>>))

\* The parameters behind a type: the segments between the semicolons that are not
\* quoted, the first of a name counts, the continuations of RFC 2231 are joined to it.
SplitParams(v) ==
  LET put(st, c) == [st EXCEPT !.quoted = (@ # (c = Dquote)),
                               !.segs = IF c = ";" /\ ~st.quoted THEN Append(@, <<>>)
                                        ELSE Append(Front(@), Append(Last(@), c))]
      bare(val) == IF Len(val) >= 2 /\ Head(val) = Dquote /\ Last(val) = Dquote
                   THEN StripQuotes(val) ELSE val
      before(s, i) == IF i = 0 THEN s ELSE SubSeq(s, 1, i - 1)
      first(s, c) == IF c \in ToSet(s) THEN CHOOSE i \in DOMAIN s : s[i] = c /\ \A j \in 1..(i - 1) : s[j] # c
                     ELSE 0
      add(params, name, star, val) ==
        CASE name = <<>> -> params
          [] name # <<>> /\ name \notin DOMAIN params -> params @@ (name :> val)
          [] OTHER -> IF star THEN [params EXCEPT ![name] = @ \o val] ELSE params
      param(params, seg) ==
        IF "=" \notin ToSet(seg) THEN params
        ELSE LET key == before(seg, first(seg, "="))
             IN  add(params, before(key, first(key, "*")), "*" \in ToSet(key),
                     bare(SubSeq(seg, first(seg, "=") + 1, Len(seg))))
      all(st) == FoldLeft(param, <<>>, Tail(st.segs))
  IN  all(FoldLeft(put, [quoted |-> FALSE, segs |-> <<<<>>>>], v))

\* A line feed goes out with the carriage return it may lack.
EnsureCrlf(raw) ==
  FlattenSeq([i \in DOMAIN raw |-> IF raw[i] = "lf" /\ (i = 1 \/ raw[i - 1] # "cr") THEN <<"cr", "lf">>
                                   ELSE <<raw[i]>>])

----------------------------------------------------------------------------
(***************************************************************************)
(* Properties.  A tree is what a composer made: a leaf of lines, a         *)
(* multipart of trees, or a message.                                       *)
(***************************************************************************)
RECURSIVE Lines(_)
Header(t) == <<Line("type", [type |-> t.type, boundary |-> t.boundary]), Line("field", "subject"),
               Line("fold", Nothing), Line("blank", Nothing)>>
Delimiter(v) == <<Line("dash", v)>>

Body(t) ==
  CASE t.type = "text" -> t.text
    [] t.type = "rfc822" -> Lines(t.kids[1])
    [] t.type = "multipart" ->
         t.text \o FlattenSeq([i \in DOMAIN t.kids |->
                     (IF i = 1 THEN <<>> ELSE <<Line("blank", Nothing)>>)
                     \o Delimiter(t.boundary) \o Lines(t.kids[i])])
                \o (IF t.closed THEN <<Line("blank", Nothing)>> \o Delimiter(Append(t.boundary, EndMark))
                    ELSE <<>>)

Lines(t) == Header(t) \o Body(t)

RECURSIVE Addressed(_, _)
\* The parts of a tree by their paths below it, as RFC 3501 numbers them.
Addressed(t, path) ==
  LET kids == IF t.type = "rfc822" /\ t.kids[1].type = "multipart" THEN t.kids[1].kids ELSE t.kids
  IN  UNION {{<<Append(path, i), kids[i]>>} \union Addressed(kids[i], Append(path, i)) : i \in DOMAIN kids}

RECURSIVE Shape(_)
Shape(t) == [type |-> t.type, size |-> IF t.type = "multipart" THEN 0 ELSE Len(Body(t)),
             parts |-> [i \in DOMAIN t.kids |-> Shape(t.kids[i])]]

Paths == UNION {[1..n -> 1..3] : n \in 1..3}

\* What the structure shows is the tree the message was made of, and each of its
\* parts is what the section of its number returns, with its header and body apart;
\* any other number returns nothing, but for the 1 of a single part.  (A message that
\* is itself of type message/rfc822 is numbered otherwise, and left out.)
ShowsTheTree(t) ==
  LET parts == IF t.type = "text" THEN {<<<<1>>, t>>} ELSE Addressed(t, <<>>)
      given(raw, s) == IF s = Null THEN <<"null">> ELSE SubSeq(raw, s[1], s[2])
      all(raw, root) == [path \in Paths \union {<<>>}, kind \in Plain \union {""} |->
                           given(raw, ExtractSection(root, path, kind))]
      holds(raw, take) ==
        /\ take[<<>>, "HEADER"] \o take[<<>>, "TEXT"] = raw /\ take[<<>>, ""] = raw
        /\ \A p \in parts :
             /\ take[p[1], ""] = Body(p[2])
             /\ t.type = "multipart" => take[p[1], "MIME"] \in {Header(p[2]), Front(Header(p[2]))}
             /\ p[2].type = "rfc822" => take[p[1], "HEADER"] \o take[p[1], "TEXT"] = Body(p[2])
             /\ p[2].type # "rfc822" => take[p[1], "TEXT"] = <<"null">>
        /\ \A p \in Paths \ {q[1] : q \in parts} :
             (Last(p) = 1 /\ Front(p) \in {q[1] : q \in parts}) \/ take[p, ""] = <<"null">>
      shown(raw, root) == BodyStructure(root) = Shape(t) /\ holds(raw, all(raw, root))
      parsed(raw) == shown(raw, ParseMimeTree(raw))
  IN  parsed(Lines(t))

\* The fields asked for and those not asked for are the header, each with its folds.
PartitionsFields(t) ==
  \A names \in SUBSET {"content-type", "subject"} :
  LET raw == Lines(t)
      root == ParseMimeTree(raw)
      some == HeaderFields(raw, root, names, FALSE)
      others == HeaderFields(raw, root, names, TRUE)
  IN  /\ some \intersect others = {}
      /\ some \union others = {i \in 1..(root.body - 1) : raw[i].k # "blank"}
      /\ \A i \in some : (i + 1 < root.body /\ raw[i + 1].k = "fold") => i + 1 \in some

\* The section a response echoes is the section that was asked for.
SectionsEchoed(s) == ParseSectionSpec(SectionLabel(s)) = <<s>>

Quoted(s) == <<Dquote>> \o FlattenSeq([i \in DOMAIN s |-> IF s[i] \in {Dquote, Escape}
                                                        THEN <<Escape, s[i]>> ELSE <<s[i]>>]) \o <<Dquote>>
Written(a) == LET spec == a.mailbox \o <<"@">> \o a.host
              IN  IF a.name = <<>> THEN spec ELSE Quoted(a.name) \o <<"<">> \o spec \o <<">">>
Joined(items) == FoldLeft(LAMBDA out, x : IF out = <<>> THEN x ELSE out \o <<",">> \o x, <<>>, items)
WrittenGroup(g) == Quoted(g.name) \o <<":">> \o Joined([i \in DOMAIN g.of |-> Written(g.of[i])]) \o <<";">>

\* An address list reads as it was written: quoted commas, colons, angles and
\* quotes in names, groups among addresses.
AddressesReadBack(list) ==
  LET isGroup(x) == "of" \in DOMAIN x
      text(x) == IF isGroup(x) THEN WrittenGroup(x) ELSE Written(x)
      open(g) == [Address(<<>>, g.name, <<>>) EXCEPT !.group = "start"]
      close == [Address(<<>>, <<>>, <<>>) EXCEPT !.group = "end"]
      read(x) == IF isGroup(x) THEN <<open(x)>> \o x.of \o <<close>> ELSE <<x>>
  IN  ParseAddressList(Joined([i \in DOMAIN list |-> text(list[i])]))
        = FlattenSeq([i \in DOMAIN list |-> read(list[i])])

\* The parameters of a type read as they were written: quoted semicolons and
\* equals signs, a value in several pieces, and of two of a name the first.
ParamsReadBack(list) ==
  LET written(p) == <<";">> \o p.name \o p.star \o <<"=">> \o Quoted(p.val)
      values(name) == SelectSeq(list, LAMBDA p : p.name = name)
      joined(ps) == Head(ps).val \o FlattenSeq([i \in DOMAIN ps |->
                      IF i > 1 /\ ps[i].star # <<>> THEN ps[i].val ELSE <<>>])
  IN  SplitParams(<<"t">> \o FlattenSeq([i \in DOMAIN list |-> written(list[i])]))
        = [name \in {p.name : p \in ToSet(list)} |-> joined(values(name))]

\* What goes out has no bare line feed, loses nothing and is sent as it is the next time.
CrlfIsSettled(raw) ==
  LET settled(out) ==
        /\ \A i \in DOMAIN out : out[i] = "lf" => i > 1 /\ out[i - 1] = "cr"
        /\ EnsureCrlf(out) = out
        /\ SelectSeq(out, LAMBDA b : b # "cr") = SelectSeq(raw, LAMBDA b : b # "cr")
  IN  settled(EnsureCrlf(raw))
============================================================================
