------------------------------- MODULE PgpMail -------------------------------
(***************************************************************************)
(* Gateway PGP: how the worker keeps the keys of a mailbox, seals what it  *)
(* sends and opens what it receives (mail/pgp.ts, mail/send.ts,            *)
(* mail/receive.ts, mail/wkd.ts).                                          *)
(*                                                                         *)
(* A text is a sequence of lines joined by CRLF, as in ImapWire.  OpenPGP *)
(* itself is external: a key is a name, a signature is who made it and     *)
(* over what, an encrypted text is whom it is for, who signed it and what  *)
(* it says.  A result that may be missing is a sequence of at most one.    *)
(***************************************************************************)
EXTENDS ImapWire

NoKey == "none"
Garbled == "garbled"  \* a stored key that does not parse

----------------------------------------------------------------------------
(***************************************************************************)
(* Keys at rest.  A private key is locked by a passphrase; both are stored *)
(* wrapped by the master key of the installation.                          *)
(***************************************************************************)
WrapSecret(master, secret) == [master |-> master, secret |-> secret]
UnwrapSecret(master, blob) == IF blob.master = master THEN <<blob.secret>> ELSE <<>>

UnlockPrivate(priv, passphrase) == IF priv.lock \in {"", passphrase} THEN <<priv.key>> ELSE <<>>

\* What is stored, locked by a passphrase of its own however it came.
ImportPrivateKey(priv, passphrase, new) ==
  IF UnlockPrivate(priv, passphrase) = <<>> THEN <<>>
  ELSE <<[private |-> [key |-> priv.key, lock |-> new], passphrase |-> new, public |-> priv.key]>>

StoreKey(master, km) ==
  [private |-> WrapSecret(master, km.private), passphrase |-> WrapSecret(master, km.passphrase),
   public |-> km.public]

----------------------------------------------------------------------------
(***************************************************************************)
(* Building.                                                               *)
(***************************************************************************)
Kind(type, boundary, protocol) ==
  Line("type", [type |-> type, boundary |-> boundary, protocol |-> protocol])
Blank == Line("blank", Nothing)
Entities(boundary, parts) ==
  FlattenSeq([i \in DOMAIN parts |-> <<Line("dash", boundary)>> \o parts[i]])
    \o <<Line("dash", Append(boundary, EndMark))>>
Multipart(boundary, parts) == <<Kind("multipart", boundary, ""), Blank>> \o Entities(boundary, parts)

\* An empty body still is a line.
B64Lines(data) == IF data = <<>> THEN <<Blank>> ELSE data
Part(type, data) == <<Kind(type, Nothing, ""), Line("field", "encoding"), Blank>> \o B64Lines(data)

\* content has a text and an html, each in a sequence of at most one, and attachments.
BuildContentEntity(content) ==
  LET text == [i \in DOMAIN content.text |-> Part("text", content.text[i])]
      html == [i \in DOMAIN content.html |-> Part("text", content.html[i])]
      body == IF text # <<>> /\ html # <<>> THEN Multipart(<<"alt">>, text \o html)
              ELSE IF html # <<>> THEN html[1]
              ELSE IF text # <<>> THEN text[1] ELSE Part("text", <<>>)
  IN  IF content.attachments = <<>> THEN body
      ELSE Multipart(<<"mix">>, <<body>> \o [i \in DOMAIN content.attachments |->
                                               Part("application", content.attachments[i])])

Armor(kind, payload) == <<Line("begin", kind), Line("armor", payload), Line("end", kind)>>

\* The fields of the envelope, which names no blind copy.
TopHeaders == <<Line("field", "from"), Line("field", "to"), Line("field", "subject")>>

BuildSignedMime(entity, key) ==
  TopHeaders \o <<Kind("multipart", <<"sig">>, "signature"), Blank>>
    \o Entities(<<"sig">>, <<entity, <<Kind("application", Nothing, ""), Blank>>
                                       \o Armor("SIGNATURE", [by |-> key, over |-> entity])>>)

BuildEncryptedMime(entity, key, readers) ==
  TopHeaders \o <<Kind("multipart", <<"enc">>, "encrypted"), Blank>>
    \o Entities(<<"enc">>, <<<<Kind("application", Nothing, ""), Blank, Line("text", "version")>>,
                             <<Kind("application", Nothing, ""), Blank>>
                               \o Armor("MESSAGE", [to |-> readers, by |-> key, data |-> entity])>>)

----------------------------------------------------------------------------
(***************************************************************************)
(* Finding keys and sealing.                                               *)
(***************************************************************************)
\* The key the provider of an address publishes, in the advanced layout or the direct
\* one; only one that claims the address.
FetchWkdKey(wkd, addr) ==
  LET hits == SelectSeq(<<"advanced", "direct">>, LAMBDA l : addr \in wkd[addr][l].claims)
  IN  IF hits = <<>> THEN NoKey ELSE wkd[addr][hits[1]].key

\* The key for each recipient: the contact's, or if that is wanted the published one.
KeyFor(sender, addr) ==
  IF sender.contacts[addr] # NoKey THEN sender.contacts[addr]
  ELSE IF sender.mode = "sign_encrypt" /\ sender.autoFetch THEN FetchWkdKey(sender.wkd, addr)
  ELSE NoKey

\* Encrypted to all recipients and the sender when each has a key, else signed only.
BuildPgpMail(sender, recipients, content) ==
  LET all == recipients # {} /\ \A a \in recipients : KeyFor(sender, a) # NoKey
      entity == BuildContentEntity(content)
  IN  IF sender.mode = "sign_encrypt" /\ all
      THEN [encrypted |-> TRUE, warning |-> FALSE,
            raw |-> BuildEncryptedMime(entity, sender.key,
                      {KeyFor(sender, a) : a \in recipients} \union {sender.key})]
      ELSE [encrypted |-> FALSE, warning |-> sender.mode = "sign_encrypt",
            raw |-> BuildSignedMime(entity, sender.key)]

----------------------------------------------------------------------------
(***************************************************************************)
(* Opening.                                                                *)
(***************************************************************************)
HasLine(raw, k, v) == \E i \in DOMAIN raw : raw[i] = Line(k, v)

DetectPgp(raw) ==
  LET ct == ContentType(raw, 1, BodyStart(raw, 1, Len(raw)))
      shape(e, s, m) == [encrypted |-> e, signed |-> s, mime |-> m]
  IN  CASE ct.type = "multipart" /\ ct.protocol = "encrypted" -> shape(TRUE, FALSE, TRUE)
        [] ct.type = "multipart" /\ ct.protocol = "signature" -> shape(FALSE, TRUE, TRUE)
        [] OTHER -> IF HasLine(raw, "begin", "MESSAGE") THEN shape(TRUE, FALSE, FALSE)
                    ELSE shape(FALSE, HasLine(raw, "begin", "SIGNED MESSAGE"), FALSE)

FirstOf(raw, line) == IF HasLine(raw, line.k, line.v)
                      THEN CHOOSE i \in DOMAIN raw : raw[i] = line /\ \A j \in 1..(i - 1) : raw[j] # line
                      ELSE 0

ExtractArmored(raw, kind) ==
  LET begin == FirstOf(raw, Line("begin", kind))
      end == FirstOf(raw, Line("end", kind))
  IN  IF begin > 0 /\ begin < end THEN <<raw[begin + 1].v>> ELSE <<>>

\* What lies between the delimiters, the lines before the first one too.
SplitParts(body, boundary) ==
  LET cut(parts, line) ==
        IF line.k = "dash" /\ IsPrefix(boundary, line.v)
        THEN Append(parts, <<line>>) ELSE Append(Front(parts), Append(Last(parts), line))
      closing(part) == part # <<>> /\ part[1] = Line("dash", Append(boundary, EndMark))
      inner(part) == IF part # <<>> /\ part[1] = Line("dash", boundary) THEN Tail(part) ELSE part
      all(parts) == SelectSeq(parts, LAMBDA part : part # <<>> /\ ~closing(part))
  IN  [i \in DOMAIN all(FoldLeft(cut, <<<<>>>>, body)) |-> inner(all(FoldLeft(cut, <<<<>>>>, body))[i])]

\* The first part and the signature in whichever part has one, or nothing.
SplitSignedParts(raw) ==
  LET start == BodyStart(raw, 1, Len(raw))
      ct == ContentType(raw, 1, start)
      signed(parts) == SelectSeq(parts, LAMBDA p : HasLine(p, "begin", "SIGNATURE"))
      found(parts, sigs) == IF parts = <<>> \/ sigs = <<>> \/ ExtractArmored(sigs[1], "SIGNATURE") = <<>>
                            THEN <<>>
                            ELSE <<[content |-> parts[1], signature |-> ExtractArmored(sigs[1], "SIGNATURE")[1]]>>
      both(parts) == found(parts, signed(parts))
  IN  IF ct.boundary = Nothing THEN <<>> ELSE both(SplitParts(SubSeq(raw, start, Len(raw)), ct.boundary))

ReadVerificationKeys(key) == {key} \ {NoKey, Garbled}

CheckSignature(by, genuine, keys) ==
  IF keys = {} THEN "unknown" ELSE IF genuine /\ by \in keys THEN "good" ELSE "bad"

Failed(e, s) == [encrypted |-> e, signed |-> s, verify |-> "unknown", data |-> <<>>, mime |-> FALSE]

\* What a message turns out to be for the holder of the key, given the sender's.
DecryptVerify(raw, key, senderKey) ==
  LET shape == DetectPgp(raw)
      keys == ReadVerificationKeys(senderKey)
      opened(box) ==
        IF box = <<>> \/ key \notin box[1].to THEN Failed(TRUE, FALSE)
        ELSE [encrypted |-> TRUE, signed |-> box[1].by # NoKey, data |-> <<box[1].data>>, mime |-> shape.mime,
              verify |-> IF box[1].by = NoKey THEN "null" ELSE CheckSignature(box[1].by, TRUE, keys)]
      checked(parts) ==
        IF keys = {} \/ parts = <<>> THEN Failed(FALSE, TRUE)
        ELSE [Failed(FALSE, TRUE) EXCEPT !.verify =
                CheckSignature(parts[1].signature.by, parts[1].signature.over = parts[1].content, keys)]
  IN  IF shape.encrypted THEN opened(ExtractArmored(raw, "MESSAGE"))
      ELSE IF shape.signed THEN checked(SplitSignedParts(raw))
      ELSE [Failed(FALSE, FALSE) EXCEPT !.verify = "null"]

\* The key a received message is checked with: the contact's, or for a signed one the
\* published.
SenderKey(mb, from, raw) ==
  IF mb.contacts[from] # NoKey THEN mb.contacts[from]
  ELSE IF DetectPgp(raw).signed /\ mb.autoFetch THEN FetchWkdKey(mb.wkd, from) ELSE NoKey

\* The message as it is indexed and shown, and what is recorded about its seal.
Receive(mb, from, raw) ==
  LET shape == DetectPgp(raw)
      seen(res) == [pgp |-> <<res>>, shown |-> IF res.data = <<>> THEN raw ELSE res.data[1]]
  IN  IF mb.mode = "off" \/ ~(shape.encrypted \/ shape.signed) THEN [pgp |-> <<>>, shown |-> raw]
      ELSE seen(DecryptVerify(raw, mb.key, SenderKey(mb, from, raw)))

----------------------------------------------------------------------------
(***************************************************************************)
(* Properties.                                                             *)
(***************************************************************************)
\* An imported key opens, unwrapped by the same master key, by the passphrase stored
\* beside it and by no other, whatever protected it before.
StoredKeyOpens(priv, passphrase, masters) ==
  LET km == ImportPrivateKey(priv, passphrase, "fresh")
      opens(row) == \A m \in masters :
        LET key == UnwrapSecret(m, row.private)
            pass == UnwrapSecret(m, row.passphrase)
        IN  IF m = "master"
            THEN UnlockPrivate(key[1], pass[1]) = <<priv.key>> /\ UnlockPrivate(key[1], passphrase) = <<>>
            ELSE key = <<>> /\ pass = <<>>
  IN  /\ (km = <<>>) = (priv.lock \notin {"", passphrase})
      /\ km # <<>> => opens(StoreKey("master", km[1]))

RECURSIVE Bodies(_, _)
Bodies(raw, p) == IF p.type = "multipart"
                  THEN FlattenSeq([i \in DOMAIN p.children |-> Bodies(raw, p.children[i])])
                  ELSE <<SubSeq(raw, p.body, p.end)>>
\* The bodies a client finds; an empty last line ends the text.
ShownBodies(raw) ==
  LET bytes == IF Last(raw) = Blank THEN Front(raw) ELSE raw
  IN  Bodies(bytes, ParseMimeTree(bytes))
Said(content) ==
  LET bodies == content.text \o content.html
  IN  (IF bodies = <<>> THEN <<<<>>>> ELSE bodies) \o content.attachments

Altered(raw) == [i \in DOMAIN raw |-> IF raw[i].k = "text" THEN Line("text", "altered") ELSE raw[i]]

\* Whatever is sealed: the recipients and the sender read what was written, and no one
\* else does if it is encrypted, which it is exactly when each recipient has a key; a
\* signature is good for the sender's key and for what was signed, never for another.
SealsOpen(sender, recipients, content, holders) ==
  LET sent == BuildPgpMail(sender, recipients, content)
      reader(k, contact) == [key |-> k, mode |-> "sign", autoFetch |-> FALSE, wkd |-> sender.wkd,
                             contacts |-> [a \in {"me"} |-> contact]]
      known == {KeyFor(sender, a) : a \in recipients} \union {sender.key}
      read(k, contact) == Receive(reader(k, contact), "me", sent.raw)
      opens(k) == ~sent.encrypted \/ k \in known
      says(k, contact, verdict) == opens(k) => read(k, contact).pgp[1].verify = verdict
  IN  /\ sent.encrypted = (sender.mode = "sign_encrypt" /\ recipients # {} /\ NoKey \notin known)
      /\ ~sent.encrypted => IsPrefix(Said(content), ShownBodies(sent.raw))
      /\ \A k \in holders :
           /\ sent.encrypted => IF k \in known THEN ShownBodies(read(k, sender.key).shown) = Said(content)
                                ELSE read(k, sender.key).shown = sent.raw
           /\ \A v \in {<<sender.key, "good">>, <<"other", "bad">>, <<NoKey, "unknown">>, <<Garbled, "unknown">>} :
                says(k, v[1], v[2])
      /\ (~sent.encrypted /\ Altered(sent.raw) # sent.raw) =>
           Receive(reader(sender.key, sender.key), "me", Altered(sent.raw)).pgp[1].verify = "bad"
=============================================================================
