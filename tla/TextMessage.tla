--------------------------- MODULE TextMessage ---------------------------
(* One text on its way to a reader: sendMessage (src/src/client.ts) keeps a*)
(* text that is too long as an attachment and only its beginning in the    *)
(* body; uploadSignalAttachment (src/src/attachments.ts) encrypts it, asks *)
(* for an upload form and uploads; the content is padded (MessagePadding), *)
(* and the receiver strips it, downloads what the pointers name, checks    *)
(* and decrypts it.  The CDN and the host that tries again are external.   *)
(*                                                                         *)
(* A text is the sequence of the UTF-8 lengths of its code points; one of  *)
(* four bytes is two UTF-16 units.  Cryptography is abstracted: an object  *)
(* on the CDN opens with the digest and the key it was made with.          *)
EXTENDS MessagePadding, SequencesExt

CONSTANTS
  Texts,       \* texts the host sends: sequences over 1 .. 4
  Encodings,   \* byte strings that a content may be encoded to
  BodyLimit,   \* SIGNAL_MESSAGE_BODY_MAX_BYTES, 2000
  MaxTries     \* bound: times the host calls sendMessage

ASSUME TextAssumption ==
  /\ Texts \subseteq Seq(1 .. 4) /\ Encodings \subseteq Seq(Byte)
  /\ BodyLimit \in Nat /\ MaxTries \in Nat

VARIABLES
  text,        \* what the host sends
  given,       \* pointers to attachments the host has uploaded before
  try,         \* calls of sendMessage so far
  step,        \* what the current call awaits
  upload,      \* the encrypted long text and its pointer
  cdn,         \* external: the objects in the CDN, by number and key
  content,     \* the content that was sent
  encoded,     \* its encoding
  wire,        \* what was encrypted: the padded encoding
  reader,      \* what the receiver awaits
  stripped,    \* what it decodes
  fetched      \* the attachments it has downloaded, by position

sendVars == <<text, given, try, step, upload, content, encoded, wire>>
readVars == <<reader, stripped, fetched>>
vars == <<sendVars, cdn, readVars>>

CdnNumbers == {0, 2, 3}
NoKey == MaxTries + 1
NoForm == [cdnNumber |-> 0, cdnKey |-> NoKey]
NoUpload == [object |-> <<>>, pointer |-> <<>>, form |-> NoForm]

(* Where an object can be, and what is there before it is uploaded.        *)
Places == CdnNumbers \X (0 .. NoKey)
NoObject == [data |-> <<>>, length |-> 0, key |-> NoKey]

-----------------------------------------------------------------------------
(* Texts                                                                   *)

Bytes(t) == FoldLeft(LAMBDA sum, width : sum + width, 0, t)

(* The UTF-16 units of a text: which code point and which half of it.      *)
Units(t) ==
  FlattenSeq([i \in DOMAIN t |->
    IF t[i] = 4 THEN <<<<i, 1>>, <<i, 2>>>> ELSE <<<<i, 1>>>>])

(* splitUtf8TextAtByteLimit: code points are taken as long as they fit.    *)
Fitting(t, limit) ==
  CHOOSE k \in 0 .. Len(t) :
    /\ Bytes(SubSeq(t, 1, k)) <= limit
    /\ k < Len(t) => Bytes(SubSeq(t, 1, k + 1)) > limit

(* Seeded fault: the end index counts code points.                         *)
SplitAtCodePoints(t, limit) ==
  LET k == Fitting(t, limit)
  IN  [prefix |-> SubSeq(Units(t), 1, k), prefixBytes |-> Bytes(SubSeq(t, 1, k))]

Split(t, limit) ==
  LET k == Fitting(t, limit)
      endIndex == Len(Units(SubSeq(t, 1, k)))
  IN  [prefix |-> SubSeq(Units(t), 1, endIndex),
       prefixBytes |-> Bytes(SubSeq(t, 1, k))]

-----------------------------------------------------------------------------
(* Attachments                                                             *)

(* padAttachmentPlaintext: never shorter than the data; by how much the    *)
(* logarithm rounds up is left open.                                       *)
PaddedSizes(size) == size .. size + 1

Encrypted(data, size, padded, key) ==
  [object  |-> [data |-> data, length |-> padded, key |-> key],
   pointer |-> [key |-> key, size |-> size,
                digest |-> [data |-> data, length |-> padded, key |-> key],
                cdnNumber |-> 0, cdnKey |-> NoKey],
   form    |-> NoForm]

(* An upload that is over: the pointer says where the object is.           *)
Complete(up) ==
  [up.pointer EXCEPT !.cdnNumber = up.form.cdnNumber, !.cdnKey = up.form.cdnKey]
Place(up) == <<up.form.cdnNumber, up.form.cdnKey>>

(* resolveAttachmentDownloadUrl and decryptSignalAttachment: the object    *)
(* where the pointer says, with the digest it says, cut to its size.       *)
Located(p, objects) ==
  objects[<<p.cdnNumber, p.cdnKey>>] # NoObject

Opens(p, object) == object = p.digest /\ object.key = p.key

Decrypted(p, object) ==
  [data |-> object.data,
   length |-> IF object.length < p.size THEN object.length ELSE p.size]

-----------------------------------------------------------------------------
(* The sender                                                              *)

(* createTextSignalContent.                                                *)
TextContent(body, attachments) == [body |-> body, attachments |-> attachments]

Init ==
  /\ text \in Texts
  /\ \E own \in BOOLEAN :
       LET up == [Encrypted(<<2>>, 2, 3, 0) EXCEPT
                    !.form = [cdnNumber |-> 2, cdnKey |-> 0]]
       IN  /\ given = IF own THEN <<Complete(up)>> ELSE <<>>
           /\ cdn = [place \in Places |->
                       IF own /\ place = Place(up) THEN up.object ELSE NoObject]
  /\ try = 0
  /\ step = "idle"
  /\ upload = NoUpload
  /\ content = TextContent(<<>>, <<>>)
  /\ encoded = <<>>
  /\ wire = <<>>
  /\ reader = "idle"
  /\ stripped = <<>>
  /\ fetched = <<>>

(* createTextContent up to its first await.  A retry starts from nothing   *)
(* and draws new keys.                                                     *)
SendMessage ==
  /\ step \in {"idle", "failed"}
  /\ text # <<>> \/ given # <<>>
  /\ try < MaxTries
  /\ try' = try + 1
  /\ \/ /\ Bytes(text) <= BodyLimit
        /\ content' = TextContent(Units(text), given)
        /\ step' = "encode"
        /\ UNCHANGED upload
     \/ /\ Bytes(text) > BodyLimit
        /\ \E padded \in PaddedSizes(Bytes(text)) :
             upload' = Encrypted(text, Bytes(text), padded, try')
        /\ step' = "form"
        /\ UNCHANGED content
  /\ UNCHANGED <<text, given, cdn, encoded, wire, readVars>>

(* The upload form names the CDN and a new key.                            *)
FormArrives ==
  /\ step = "form"
  /\ \E number \in CdnNumbers :
       /\ upload' = [upload EXCEPT !.form = [cdnNumber |-> number, cdnKey |-> try]]
       /\ step' = CASE number = 3 -> "post"
                    [] number = 2 -> "init"
                    [] OTHER -> "failed"
  /\ UNCHANGED <<text, given, try, cdn, content, encoded, wire, readVars>>

LongTextContent ==
  TextContent(Split(text, BodyLimit).prefix, <<Complete(upload)>> \o given)

(* Seeded fault: the answer to the first request of CDN 2 is taken for the *)
(* end of the upload.                                                      *)
InitAnsweredDone ==
  /\ step = "init"
  /\ step' = "encode"
  /\ content' = LongTextContent
  /\ UNCHANGED <<text, given, try, upload, cdn, encoded, wire, readVars>>

(* CDN 2 answers with a location to put the object to, or without one.     *)
InitAnswered ==
  /\ step = "init"
  /\ step' \in {"put", "failed"}
  /\ UNCHANGED <<text, given, try, upload, cdn, content, encoded, wire, readVars>>

Store == cdn' = [cdn EXCEPT ![Place(upload)] = upload.object]

(* The object is up: the pointer is complete and goes before the others.   *)
Uploaded ==
  /\ step \in {"put", "post"}
  /\ Store
  /\ content' = LongTextContent
  /\ step' = "encode"
  /\ UNCHANGED <<text, given, try, upload, encoded, wire, readVars>>

(* A refusal, a lost answer or an abort; the object may be up all the same.*)
RequestFails ==
  /\ step \in {"form", "init", "put", "post"}
  /\ step' = "failed"
  /\ \/ UNCHANGED cdn
     \/ step \in {"put", "post"} /\ Store
  /\ UNCHANGED <<text, given, try, upload, content, encoded, wire, readVars>>

(* The content is encoded, padded and sent.                                *)
SendContent ==
  /\ step = "encode"
  /\ encoded' \in Encodings
  /\ wire' = Pad(encoded')
  /\ step' = "sent"
  /\ UNCHANGED <<text, given, try, upload, cdn, content, readVars>>

-----------------------------------------------------------------------------
(* The receiver                                                            *)

Receive ==
  /\ step = "sent"
  /\ reader = "idle"
  /\ stripped' = Strip(wire)
  /\ reader' = "reading"
  /\ UNCHANGED <<sendVars, cdn, fetched>>

(* downloadSignalAttachment, for the next pointer.  Only what decodes to   *)
(* the content has its pointers.                                           *)
Download ==
  /\ reader = "reading"
  /\ stripped = encoded
  /\ Len(fetched) < Len(content.attachments)
  /\ LET p == content.attachments[Len(fetched) + 1]
         object == cdn[<<p.cdnNumber, p.cdnKey>>]
     IN  /\ Located(p, cdn)
         /\ Opens(p, object)
         /\ fetched' = Append(fetched, Decrypted(p, object))
  /\ UNCHANGED <<sendVars, cdn, reader, stripped>>

ReadAll ==
  /\ reader = "reading"
  /\ Len(fetched) = Len(content.attachments)
  /\ reader' = "done"
  /\ UNCHANGED <<sendVars, cdn, stripped, fetched>>

Next ==
  \/ SendMessage \/ FormArrives \/ InitAnswered \/ Uploaded \/ RequestFails
  \/ SendContent
  \/ Receive \/ Download \/ ReadAll

Spec == Init /\ [][Next]_vars

-----------------------------------------------------------------------------
(* Properties                                                              *)

(* Every pointer of a message that is on its way names an object that is   *)
(* in the CDN and opens: an upload is over, answer and all, before its     *)
(* pointer is sent, and a failed upload leaves no pointer behind           *)
(* (createTextContent, uploadSignalAttachment).                            *)
PointersResolve ==
  step \in {"encode", "sent"} =>
    \A i \in DOMAIN content.attachments :
      LET p == content.attachments[i] IN
      /\ Located(p, cdn)
      /\ Opens(p, cdn[<<p.cdnNumber, p.cdnKey>>])

(* The receiver reads what was sent, whatever bytes the encoding ends in:  *)
(* the body is the text up to the end of a code point, as long as the limit*)
(* allows and no longer, and what it lacks is the whole text of the first  *)
(* attachment (padSignalMessageBody, splitUtf8TextAtByteLimit,             *)
(* decryptSignalAttachment).                                               *)
ReaderGetsText ==
  /\ reader # "idle" => stripped = encoded
  /\ reader = "done" =>
       \E k \in 0 .. Len(text) :
         /\ content.body = Units(SubSeq(text, 1, k))
         /\ Bytes(SubSeq(text, 1, k)) <= BodyLimit
         /\ k < Len(text) =>
              /\ Bytes(SubSeq(text, 1, k + 1)) > BodyLimit
              /\ fetched[1] = [data |-> text, length |-> Bytes(text)]

=============================================================================
