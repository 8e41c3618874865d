------------------------------ MODULE GlsldProofs ------------------------------
(***************************************************************************)
(* glsld keeps up with its editor: for every set of documents, every queue *)
(* of messages and every version, what the server has, has analysed and    *)
(* has reported is what the editor will see once its messages are handled. *)
(***************************************************************************)
EXTENDS Glsld, SequenceTheorems, TLAPS

\* The messages that change what the server has of a document.
Effective == Texts \cup {"didSave"}

(* The queue by position.                                                    *)
LEMMA QueueFacts ==
  ASSUME TypeOK
  PROVE  /\ inbox \in Seq(Message) /\ Len(inbox) \in Nat /\ DOMAIN inbox = 1 .. Len(inbox)
         /\ \A i \in 1 .. Len(inbox) : inbox[i] \in Message
         /\ inbox = <<>> <=> Len(inbox) = 0
         /\ \A u \in Uris : docs_[u] \in Doc /\ buffer[u] \in Buffer
                            /\ saved[u] \in Nat /\ shown[u] \in Nat
<1>1. inbox \in Seq(Message)
  BY DEF TypeOK
<1>2. /\ Len(inbox) \in Nat /\ DOMAIN inbox = 1 .. Len(inbox)
      /\ \A i \in 1 .. Len(inbox) : inbox[i] \in Message
      /\ inbox = <<>> <=> Len(inbox) = 0
  <2> HIDE DEF Message
  <2> QED BY <1>1, LenProperties, ElementOfSeq, EmptySeq
<1>3. \A u \in Uris : docs_[u] \in Doc /\ buffer[u] \in Buffer
                      /\ saved[u] \in Nat /\ shown[u] \in Nat
  BY DEF TypeOK
<1> QED BY <1>1, <1>2, <1>3

(* What is queued once the oldest message has been taken.                    *)
LEMMA TakenFacts ==
  ASSUME TypeOK, inbox # <<>>, inbox' = Tail(inbox)
  PROVE  /\ inbox' \in Seq(Message) /\ Head(inbox) = inbox[1] /\ inbox[1] \in Message
         /\ \A u, methods :
              /\ 1 \in Queued(inbox, u, methods) <=> inbox[1].uri = u /\ inbox[1].method \in methods
              /\ \A i \in Queued(inbox, u, methods) :
                   /\ i \in Nat /\ i >= 1
                   /\ i = 1 \/ (i > 1 /\ i - 1 \in Queued(inbox', u, methods) /\ inbox'[i - 1] = inbox[i])
              /\ \A i \in Queued(inbox', u, methods) :
                   i \in Nat /\ i >= 1 /\ i + 1 \in Queued(inbox, u, methods) /\ inbox'[i] = inbox[i + 1]
<1> DEFINE n == Len(inbox)
<1>1. /\ inbox \in Seq(Message) /\ n \in Nat /\ n # 0 /\ DOMAIN inbox = 1 .. n
      /\ \A i \in 1 .. n : inbox[i] \in Message
  BY QueueFacts
<1> HIDE DEF Message
<1>2. /\ Head(inbox) = inbox[1] /\ inbox' \in Seq(Message) /\ Len(inbox') = n - 1
      /\ \A i \in 1 .. n - 1 : inbox'[i] = inbox[i + 1]
  BY <1>1, HeadTailProperties
<1>3. DOMAIN inbox' = 1 .. n - 1
  BY <1>2, LenProperties
<1> HIDE DEF n
<1>4. 1 \in 1 .. n
  BY <1>1
<1> SUFFICES ASSUME NEW u, NEW methods
             PROVE  /\ 1 \in Queued(inbox, u, methods) <=> inbox[1].uri = u /\ inbox[1].method \in methods
                    /\ \A i \in Queued(inbox, u, methods) :
                         /\ i \in Nat /\ i >= 1
                         /\ i = 1 \/ (i > 1 /\ i - 1 \in Queued(inbox', u, methods) /\ inbox'[i - 1] = inbox[i])
                    /\ \A i \in Queued(inbox', u, methods) :
                         i \in Nat /\ i >= 1 /\ i + 1 \in Queued(inbox, u, methods) /\ inbox'[i] = inbox[i + 1]
  BY <1>1, <1>2, <1>4
<1>5. \A i : i \in Queued(inbox, u, methods) <=> i \in 1 .. n /\ inbox[i].uri = u /\ inbox[i].method \in methods
  BY <1>1 DEF Queued
<1>6. \A i : i \in Queued(inbox', u, methods)
               <=> i \in 1 .. n - 1 /\ inbox'[i].uri = u /\ inbox'[i].method \in methods
  BY <1>3 DEF Queued
<1>7. ASSUME NEW i \in Queued(inbox, u, methods)
      PROVE  /\ i \in Nat /\ i >= 1
             /\ i = 1 \/ (i > 1 /\ i - 1 \in Queued(inbox', u, methods) /\ inbox'[i - 1] = inbox[i])
  <2>1. i \in 1 .. n /\ inbox[i].uri = u /\ inbox[i].method \in methods
    BY <1>5
  <2>3. i \in Nat /\ i >= 1
    BY <2>1, <1>1
  <2>2. CASE i # 1
    <3>1. i - 1 \in 1 .. n - 1 /\ i > 1 /\ (i - 1) + 1 = i
      BY <2>1, <2>2, <1>1
    <3>2. inbox'[i - 1] = inbox[i]
      BY <3>1, <1>2
    <3>3. inbox'[i - 1].uri = u /\ inbox'[i - 1].method \in methods
      BY <2>1, <3>2
    <3>4. i - 1 \in Queued(inbox', u, methods)
      BY <3>1, <3>3, <1>6
    <3> QED BY <2>3, <3>1, <3>2, <3>4
  <2> QED BY <2>2, <2>3
<1>8. ASSUME NEW i \in Queued(inbox', u, methods)
      PROVE  i \in Nat /\ i >= 1 /\ i + 1 \in Queued(inbox, u, methods) /\ inbox'[i] = inbox[i + 1]
  <2>1. i \in 1 .. n - 1 /\ inbox'[i].uri = u /\ inbox'[i].method \in methods
    BY <1>6
  <2>2. i + 1 \in 1 .. n /\ inbox'[i] = inbox[i + 1]
    BY <2>1, <1>1, <1>2
  <2>3. i + 1 \in Queued(inbox, u, methods)
    BY <2>1, <2>2, <1>5
  <2>4. i \in Nat /\ i >= 1
    BY <2>1, <1>1
  <2> QED BY <2>2, <2>3, <2>4
<1> QED BY <1>4, <1>5, <1>7, <1>8

(* What is queued once a message has been sent.                              *)
LEMMA SentFacts ==
  ASSUME TypeOK, NEW m \in Message, inbox' = Append(inbox, m)
  PROVE  /\ inbox' \in Seq(Message)
         /\ Len(inbox) \in Nat
         /\ inbox'[Len(inbox) + 1] = m
         /\ \A u, methods :
              /\ \A i \in Queued(inbox, u, methods) :
                   i \in Queued(inbox', u, methods) /\ i \in Nat /\ i >= 1 /\ i <= Len(inbox)
                   /\ inbox'[i] = inbox[i]
              /\ \A i \in Queued(inbox', u, methods) :
                   \/ i \in Queued(inbox, u, methods)
                   \/ i = Len(inbox) + 1 /\ m.uri = u /\ m.method \in methods
              /\ m.uri = u /\ m.method \in methods => Len(inbox) + 1 \in Queued(inbox', u, methods)
<1> DEFINE n == Len(inbox)
<1>1. inbox \in Seq(Message) /\ n \in Nat /\ DOMAIN inbox = 1 .. n
  BY QueueFacts
<1> HIDE DEF Message
<1>2. /\ inbox' \in Seq(Message) /\ Len(inbox') = n + 1 /\ inbox'[n + 1] = m
      /\ \A i \in 1 .. n : inbox'[i] = inbox[i]
  BY <1>1, AppendProperties
<1>3. DOMAIN inbox' = 1 .. n + 1
  BY <1>2, LenProperties
<1> HIDE DEF n
<1>4. /\ n + 1 \in 1 .. n + 1 /\ 1 .. n \subseteq 1 .. n + 1
      /\ \A i \in 1 .. n + 1 : i \in 1 .. n \/ i = n + 1
      /\ \A i \in 1 .. n : i \in Nat /\ i >= 1 /\ i <= n
  BY <1>1
<1>5. ASSUME NEW u, NEW methods
      PROVE  /\ \A i \in Queued(inbox, u, methods) :
                  i \in Queued(inbox', u, methods) /\ i \in Nat /\ i >= 1 /\ i <= n /\ inbox'[i] = inbox[i]
             /\ \A i \in Queued(inbox', u, methods) :
                  \/ i \in Queued(inbox, u, methods)
                  \/ i = n + 1 /\ m.uri = u /\ m.method \in methods
             /\ m.uri = u /\ m.method \in methods => n + 1 \in Queued(inbox', u, methods)
  BY <1>1, <1>2, <1>3, <1>4 DEF Queued
<1> QED BY <1>1, <1>2, <1>5 DEF n

(* What handling a message does to the server's side of u: nothing, unless it*)
(* is an effective one for u, and then what it is for.                       *)
LEMMA HandledFacts ==
  ASSUME TypeOK, Handle, NEW u \in Uris
  PROVE  LET m == inbox[1]
             d == docs_[u]
             Parses(c) == \E ok \in Outcomes(c.content) :
                            docs_'[u] = Parsed(c, ok) /\ shown'[u] = Published(u, c, ok) IN
         /\ inbox # <<>> /\ inbox' = Tail(inbox) /\ m \in Message
         /\ UNCHANGED editorVars
         /\ init_ => init_'
         /\ ~Ready' \/ init_' \/ UNCHANGED <<answers, init_>>
         /\ \/ docs_'[u] = d /\ shown'[u] = shown[u]
            \/ m.uri = u /\ m.method \in Effective
         /\ m.uri = u /\ m.method = "didOpen" /\ init_ => Parses(Unparsed(m.version, m.content))
         /\ m.uri = u /\ m.method = "didChange" /\ init_ =>
              /\ docs_'[u] = IF Exists(u) THEN Updated(d, m.version, m.content)
                             ELSE Unparsed(m.version, m.content)
              /\ shown'[u] = shown[u]
         /\ m.uri = u /\ m.method = "didSave" /\ init_ =>
              IF ~Exists(u) THEN docs_'[u] = d /\ shown'[u] = shown[u]
              ELSE IF SameVersion(d, m.version) THEN Parses(d)
              ELSE docs_'[u] = d /\ shown'[u] = 0
<1>1. docs_ \in [Uris -> Doc] /\ shown \in [Uris -> Nat]
  BY DEF TypeOK
<1>2. inbox # <<>> /\ inbox' = Tail(inbox) /\ UNCHANGED editorVars
  BY DEF Handle, Ignored, Unhandled, Receive, Initialize, Definition, Completion,
         DidOpen, DidChange, DidSave, DidSaveOther, DidSaveUnknown, editorVars
<1>3. Head(inbox) = inbox[1] /\ inbox[1] \in Message
  BY <1>2, TakenFacts
<1> DEFINE m == inbox[1]
<1>4. CASE Ignored
  BY <1>2, <1>3, <1>4 DEF Ignored, Accepts, serverVars, outputVars, Ready, Effective, Texts
<1>5. CASE Unhandled
  BY <1>2, <1>3, <1>5 DEF Unhandled, Receive, serverVars, outputVars, Ready
<1>6. CASE Initialize(m)
  BY <1>2, <1>3, <1>6 DEF Initialize, Receive
<1>7. CASE (Definition(m) \/ Completion(m))
  BY <1>2, <1>3, <1>7 DEF Definition, Completion, Receive, Accepts, serverVars
<1>8. CASE DidOpen(m)
  BY <1>1, <1>2, <1>3, <1>8 DEF DidOpen, Receive, Opened, ParseAndPublish, Effective, Texts
<1>9. CASE DidChange(m)
  BY <1>1, <1>2, <1>3, <1>9 DEF DidChange, Receive, outputVars, Effective, Texts
<1>10. CASE DidSave(m)
  BY <1>1, <1>2, <1>3, <1>10 DEF DidSave, Receive, ParseAndPublish, Effective, Texts
<1>11. CASE DidSaveOther(m)
  BY <1>1, <1>2, <1>3, <1>11 DEF DidSaveOther, Receive, serverVars, Effective, Texts
<1>12. CASE DidSaveUnknown(m)
  BY <1>2, <1>3, <1>12 DEF DidSaveUnknown, Receive, serverVars, outputVars, Effective, Texts
<1>13. \A k : (Initialize(k) \/ Definition(k) \/ Completion(k) \/ DidOpen(k) \/ DidChange(k)
                 \/ DidSave(k) \/ DidSaveOther(k) \/ DidSaveUnknown(k)) => k = m
  BY <1>3 DEF Receive, Initialize, Definition, Completion,
              DidOpen, DidChange, DidSave, DidSaveOther, DidSaveUnknown
<1>14. \/ Ignored \/ Unhandled \/ Initialize(m) \/ Definition(m) \/ Completion(m)
       \/ DidOpen(m) \/ DidChange(m) \/ DidSave(m) \/ DidSaveOther(m) \/ DidSaveUnknown(m)
  BY <1>13, Zenon DEF Handle
<1> QED BY <1>4, <1>5, <1>6, <1>7, <1>8, <1>9, <1>10, <1>11, <1>12, <1>14

(* A parse leaves a document with the text it had.                           *)
LEMMA ParsedFacts ==
  ASSUME NEW d \in Doc, NEW ok \in BOOLEAN
  PROVE  /\ Parsed(d, ok) \in Doc
         /\ Parsed(d, ok).version = d.version /\ Parsed(d, ok).content = d.content
         /\ ok => Parsed(d, ok).analysed = [version |-> d.version, content |-> d.content]
BY DEF Parsed, Doc

LEMMA DocsFacts ==
  /\ \A v \in Nat, c \in Contents :
       Unparsed(v, c) \in Doc /\ Unparsed(v, c).version = v /\ Unparsed(v, c).content = c
  /\ \A d \in Doc, v \in Nat, c \in Contents :
       /\ Updated(d, v, c) \in Doc
       /\ d.version < v => Updated(d, v, c).version = v /\ Updated(d, v, c).content = c
  /\ \A d \in Doc : 1 <= d.version => d # NoDoc
  /\ \A c : Outcomes(c) \subseteq BOOLEAN
  /\ \A m \in Message : m.version \in Nat /\ m.content \in Contents /\ m.uri \in Uris /\ m.id \in Nat
<1>1. \A v \in Nat, c \in Contents :
        Unparsed(v, c) \in Doc /\ Unparsed(v, c).version = v /\ Unparsed(v, c).content = c
  BY DEF Unparsed, Doc, NotParsed, Contents
<1>2. \A d \in Doc, v \in Nat, c \in Contents :
        /\ Updated(d, v, c) \in Doc
        /\ d.version < v => Updated(d, v, c).version = v /\ Updated(d, v, c).content = c
  <2> TAKE d \in Doc, v \in Nat, c \in Contents
  <2> DEFINE e == [d EXCEPT !.version = v, !.content = c]
  <2>1. e \in Doc /\ e.version = v /\ e.content = c
    BY DEF Doc
  <2>2. d.version \in Nat
    BY DEF Doc
  <2>3. Updated(d, v, c) = IF d.version >= v THEN d ELSE e
    BY DEF Updated
  <2> HIDE DEF e
  <2> QED BY <2>1, <2>2, <2>3
<1>3. \A d \in Doc : 1 <= d.version => d # NoDoc
  BY DEF NoDoc
<1>4. \A c : Outcomes(c) \subseteq BOOLEAN
  BY DEF Outcomes
<1>5. \A m \in Message : m.version \in Nat /\ m.content \in Contents /\ m.uri \in Uris /\ m.id \in Nat
  BY DEF Message
<1> QED BY <1>1, <1>2, <1>3, <1>4, <1>5

(* What a parse that is due leaves to see: the analysis of good text, and the*)
(* errors of bad text.                                                       *)
LEMMA ParseShows ==
  ASSUME NEW u \in Uris, NEW d \in Doc, NEW ok \in Outcomes(d.content)
  PROVE  /\ d.content = "good" => ok /\ Published(u, d, ok) = 0
         /\ d.content = "bad" => Published(u, d, ok) = d.version
         /\ Published(u, d, ok) = 0 \/ Published(u, d, ok) = d.version
              \/ Published(u, d, ok) = shown[u]
BY DEF Outcomes, Published

(* Handling a message keeps every value of its type.                         *)
LEMMA HandleTypes ==
  ASSUME TypeOK, Handle
  PROVE  TypeOK'
<1> DEFINE m == inbox[1]
<1>1. /\ inbox # <<>> /\ inbox' = Tail(inbox) /\ UNCHANGED editorVars
  BY DEF Handle, Ignored, Unhandled, Receive, Initialize, Definition, Completion,
         DidOpen, DidChange, DidSave, DidSaveOther, DidSaveUnknown, editorVars
<1>2. inbox' \in Seq(Message) /\ Head(inbox) = m /\ m \in Message
  BY <1>1, TakenFacts
<1>3. /\ docs_ \in [Uris -> Doc] /\ shown \in [Uris -> Nat] /\ init_ \in BOOLEAN
      /\ threadPool \in Uris \cup {"default", "deleted"} /\ answers \in Seq(Nat)
  BY DEF TypeOK
<1>4. /\ m.uri \in Uris /\ m.version \in Nat /\ m.content \in Contents /\ m.id \in Nat
      /\ docs_[m.uri] \in Doc /\ shown[m.uri] \in Nat
  BY <1>2, <1>3, DocsFacts
<1> HIDE DEF m
<1> DEFINE Fine ==
             /\ docs_' \in [Uris -> Doc] /\ shown' \in [Uris -> Nat] /\ init_' \in BOOLEAN
             /\ threadPool' \in Uris \cup {"default", "deleted"} /\ answers' \in Seq(Nat)
<1> SUFFICES Fine
  BY <1>1, <1>2 DEF TypeOK, editorVars
<1>5. ASSUME NEW d \in Doc, ParseAndPublish(m.uri, d)
      PROVE  /\ docs_' \in [Uris -> Doc] /\ shown' \in [Uris -> Nat]
             /\ threadPool' \in Uris \cup {"default", "deleted"}
  <2>1. PICK ok \in Outcomes(d.content) :
          /\ docs_' = [docs_ EXCEPT ![m.uri] = Parsed(d, ok)]
          /\ threadPool' = PoolAfter(m.uri, ok)
          /\ shown' = [shown EXCEPT ![m.uri] = Published(m.uri, d, ok)]
    BY <1>5 DEF ParseAndPublish
  <2>2. ok \in BOOLEAN /\ Parsed(d, ok) \in Doc
    BY DocsFacts, ParsedFacts
  <2>3. Published(m.uri, d, ok) \in Nat
    <3>1. d.version \in Nat
      BY DEF Doc
    <3> QED BY <3>1, <1>4, ParseShows
  <2>4. PoolAfter(m.uri, ok) \in Uris \cup {"default", "deleted"}
    BY <1>4 DEF PoolAfter
  <2> QED BY <2>1, <2>2, <2>3, <2>4, <1>3
<1>6. CASE (Ignored \/ Unhandled)
  <2>1. UNCHANGED <<init_, docs_, threadPool, shown, answers>>
    BY <1>6 DEF Ignored, Unhandled, serverVars, outputVars
  <2> QED BY <2>1, <1>3
<1>7. ASSUME answers' = Answer(m), init_' \in BOOLEAN, UNCHANGED <<docs_, threadPool, shown>>
      PROVE  Fine
  <2>1. answers' \in Seq(Nat)
    BY <1>3, <1>4, <1>7, AppendProperties DEF Answer
  <2> QED BY <2>1, <1>3, <1>7
<1>8. CASE (Initialize(m) \/ Definition(m) \/ Completion(m))
  <2>1. answers' = Answer(m) /\ init_' \in BOOLEAN /\ UNCHANGED <<docs_, threadPool, shown>>
    BY <1>3, <1>8 DEF Initialize, Definition, Completion, serverVars
  <2> QED BY <2>1, <1>7
<1>9. CASE DidOpen(m)
  <2>1. Opened(m.uri, Unparsed(m.version, m.content)) \in Doc
    BY <1>4, DocsFacts DEF Opened
  <2>2. /\ ParseAndPublish(m.uri, Opened(m.uri, Unparsed(m.version, m.content)))
        /\ init_' = init_ /\ answers' = answers
    BY <1>9 DEF DidOpen
  <2> QED BY <2>1, <2>2, <1>3, <1>5
<1>10. CASE DidChange(m)
  <2>1. /\ docs_' = [docs_ EXCEPT ![m.uri] =
                       IF Exists(m.uri) THEN Updated(docs_[m.uri], m.version, m.content)
                       ELSE Unparsed(m.version, m.content)]
        /\ UNCHANGED <<init_, threadPool, shown, answers>>
    BY <1>10, <1>3 DEF DidChange, outputVars
  <2>2. /\ Updated(docs_[m.uri], m.version, m.content) \in Doc
        /\ Unparsed(m.version, m.content) \in Doc
    BY <1>4, DocsFacts
  <2> QED BY <2>1, <2>2, <1>3
<1>11. CASE DidSave(m)
  <2>1. ParseAndPublish(m.uri, docs_[m.uri]) /\ init_' = init_ /\ answers' = answers
    BY <1>11 DEF DidSave
  <2> QED BY <2>1, <1>3, <1>4, <1>5
<1>12. CASE DidSaveOther(m)
  <2>1. shown' = [shown EXCEPT ![m.uri] = 0] /\ UNCHANGED <<init_, docs_, threadPool, answers>>
    BY <1>12 DEF DidSaveOther, serverVars
  <2> QED BY <2>1, <1>3
<1>13. CASE DidSaveUnknown(m)
  <2>1. UNCHANGED <<init_, docs_, threadPool, shown, answers>>
    BY <1>13 DEF DidSaveUnknown, serverVars, outputVars
  <2> QED BY <2>1, <1>3
<1>14. \A k : (Initialize(k) \/ Definition(k) \/ Completion(k) \/ DidOpen(k) \/ DidChange(k)
                 \/ DidSave(k) \/ DidSaveOther(k) \/ DidSaveUnknown(k)) => k = m
  BY <1>2 DEF Receive, Initialize, Definition, Completion,
              DidOpen, DidChange, DidSave, DidSaveOther, DidSaveUnknown
<1>15. \/ Ignored \/ Unhandled \/ Initialize(m) \/ Definition(m) \/ Completion(m)
       \/ DidOpen(m) \/ DidChange(m) \/ DidSave(m) \/ DidSaveOther(m) \/ DidSaveUnknown(m)
  BY <1>14, Zenon DEF Handle
<1> QED BY <1>6, <1>8, <1>9, <1>10, <1>11, <1>12, <1>13, <1>15

(* Taking a message from the queue leaves the others in their order.         *)
LEMMA TakenKeepsTexts ==
  ASSUME TypeOK, inbox # <<>>, inbox' = Tail(inbox), NEW u \in Uris, buffer'[u] = buffer[u],
         TextsInOrder(u), LastTextIsBuffer(u)
  PROVE  TextsInOrder(u)' /\ LastTextIsBuffer(u)'
<1>0. \A i \in Queued(inbox', u, Texts) :
        i \in Nat /\ i >= 1 /\ i + 1 \in Queued(inbox, u, Texts) /\ inbox'[i] = inbox[i + 1]
  BY TakenFacts, Zenon
<1>1. ASSUME NEW i \in Queued(inbox', u, Texts), \A k \in Queued(inbox', u, {"didOpen"}) : k <= i
      PROVE  /\ 1 <= inbox'[i].version /\ inbox'[i].version <= buffer'[u].version
             /\ \A j \in Queued(inbox', u, Texts) : i < j => inbox'[i].version < inbox'[j].version
  <2>1. i \in Nat /\ i + 1 \in Queued(inbox, u, Texts) /\ inbox'[i] = inbox[i + 1]
    BY <1>0, Zenon
  <2>2. \A k \in Queued(inbox, u, {"didOpen"}) : k <= i + 1
    <3> TAKE k \in Queued(inbox, u, {"didOpen"})
    <3>1. k \in Nat /\ (k = 1 \/ k - 1 \in Queued(inbox', u, {"didOpen"}))
      BY TakenFacts
    <3>2. k = 1 => k <= i + 1
      BY <2>1
    <3>3. k - 1 \in Queued(inbox', u, {"didOpen"}) => k - 1 <= i
      BY <1>1
    <3> QED BY <3>1, <3>2, <3>3, <2>1
  <2>3. /\ 1 <= inbox[i + 1].version /\ inbox[i + 1].version <= buffer[u].version
        /\ \A j \in Queued(inbox, u, Texts) : i + 1 < j => inbox[i + 1].version < inbox[j].version
    BY <2>1, <2>2 DEF TextsInOrder
  <2>4. ASSUME NEW j \in Queued(inbox', u, Texts), i < j
        PROVE  inbox'[i].version < inbox'[j].version
    <3>1. j \in Nat /\ j + 1 \in Queued(inbox, u, Texts) /\ inbox'[j] = inbox[j + 1]
      BY <1>0, Zenon
    <3>2. i + 1 < j + 1
      BY <2>1, <2>4, <3>1
    <3> QED BY <2>1, <2>3, <3>1, <3>2
  <2> QED BY <2>1, <2>3, <2>4
<1>2. ASSUME NEW i \in Queued(inbox', u, Texts), \A j \in Queued(inbox', u, Texts) : j <= i
      PROVE  /\ inbox'[i].version = buffer'[u].version
             /\ inbox'[i].content = buffer'[u].content
  <2>1. i \in Nat /\ i + 1 \in Queued(inbox, u, Texts) /\ inbox'[i] = inbox[i + 1]
    BY <1>0, Zenon
  <2>2. \A j \in Queued(inbox, u, Texts) : j <= i + 1
    <3> TAKE j \in Queued(inbox, u, Texts)
    <3>1. j \in Nat /\ (j = 1 \/ j - 1 \in Queued(inbox', u, Texts))
      BY TakenFacts
    <3>2. j = 1 => j <= i + 1
      BY <2>1
    <3>3. j - 1 \in Queued(inbox', u, Texts) => j - 1 <= i
      BY <1>2
    <3> QED BY <3>1, <3>2, <3>3, <2>1
  <2> QED BY <2>1, <2>2 DEF LastTextIsBuffer
<1> QED BY <1>1, <1>2 DEF TextsInOrder, LastTextIsBuffer

(* The methods that the sets of effective messages are made of.              *)
LEMMA MethodFacts ==
  ASSUME NEW queue, NEW u
  PROVE  /\ Queued(queue, u, {"didOpen"}) \subseteq Queued(queue, u, Texts)
         /\ Queued(queue, u, Texts) \subseteq Queued(queue, u, Effective)
         /\ \A i \in Queued(queue, u, Texts) : queue[i].method \in Texts
         /\ \A i \in Queued(queue, u, Effective) :
              /\ queue[i].uri = u
              /\ \/ i \in Queued(queue, u, Texts)
                 \/ queue[i].method = "didSave" /\ i \notin Queued(queue, u, Texts)
         /\ \A i \in Queued(queue, u, {"didOpen", "didSave"}) :
              /\ i \in Queued(queue, u, Effective) /\ queue[i].uri = u
              /\ \/ queue[i].method = "didOpen" /\ i \in Queued(queue, u, {"didOpen"})
                 \/ queue[i].method = "didSave"
BY DEF Queued, Effective, Texts

(* The server's text stays behind what is queued.                            *)
LEMMA TakenKeepsBehind ==
  ASSUME TypeOK, Handle, init_, NEW u \in Uris,
         TextsInOrder(u), LastTextIsBuffer(u), ServerIsBehind(u), 1 <= buffer[u].version
  PROVE  ServerIsBehind(u)'
<1> DEFINE m == inbox[1]
           d == docs_[u]
           e == docs_'[u]
<1>1. inbox # <<>> /\ inbox' = Tail(inbox) /\ m \in Message /\ buffer' = buffer
  BY HandledFacts DEF editorVars
<1> DEFINE Taken(methods) ==
             /\ \A i \in Queued(inbox, u, methods) :
                  i \in Nat /\ i >= 1 /\ (i = 1 \/ i - 1 \in Queued(inbox', u, methods))
             /\ \A i \in Queued(inbox', u, methods) :
                  i \in Nat /\ i >= 1 /\ i + 1 \in Queued(inbox, u, methods) /\ inbox'[i] = inbox[i + 1]
             /\ 1 \in Queued(inbox, u, methods) <=> m.uri = u /\ m.method \in methods
<1>2. Taken(Texts) /\ Taken({"didOpen"})
  <2>1. \A methods : Taken(methods)
    <3> TAKE methods
    <3>1. \A i \in Queued(inbox, u, methods) :
            i \in Nat /\ i >= 1 /\ (i = 1 \/ i - 1 \in Queued(inbox', u, methods))
      BY <1>1, TakenFacts, Zenon
    <3>2. \A i \in Queued(inbox', u, methods) :
            i \in Nat /\ i >= 1 /\ i + 1 \in Queued(inbox, u, methods) /\ inbox'[i] = inbox[i + 1]
      BY <1>1, TakenFacts, Zenon
    <3>3. 1 \in Queued(inbox, u, methods) <=> m.uri = u /\ m.method \in methods
      BY <1>1, TakenFacts, Zenon
    <3> QED BY <3>1, <3>2, <3>3
  <2> HIDE DEF Taken
  <2> QED BY <2>1
<1>3. d \in Doc /\ d.version \in Nat /\ buffer[u].version \in Nat /\ m.version \in Nat /\ m.content \in Contents
  BY <1>1, QueueFacts, DocsFacts DEF Doc, Buffer
<1> SUFFICES ASSUME Queued(inbox', u, {"didOpen"}) = {}
             PROVE  /\ 1 <= e.version
                    /\ \A i \in Queued(inbox', u, Texts) : e.version < inbox'[i].version
                    /\ Queued(inbox', u, Texts) = {} =>
                         e.version = buffer[u].version /\ e.content = buffer[u].content
  BY <1>1 DEF ServerIsBehind
<1>4. \A k \in Queued(inbox, u, {"didOpen"}) : k = 1
  BY <1>2
<1> DEFINE Applied == e.version = m.version /\ e.content = m.content
<1>5. ASSUME 1 \in Queued(inbox, u, Texts), Applied, 1 <= m.version
      PROVE  /\ 1 <= e.version
             /\ \A i \in Queued(inbox', u, Texts) : e.version < inbox'[i].version
             /\ Queued(inbox', u, Texts) = {} =>
                  e.version = buffer[u].version /\ e.content = buffer[u].content
  <2>1. \A j \in Queued(inbox, u, Texts) : 1 < j => m.version < inbox[j].version
    <3>1. \A k \in Queued(inbox, u, {"didOpen"}) : k <= 1
      BY <1>4
    <3> QED BY <1>5, <3>1 DEF TextsInOrder
  <2>2. ASSUME NEW i \in Queued(inbox', u, Texts)
        PROVE  e.version < inbox'[i].version
    <3>1. i \in Nat /\ i >= 1 /\ i + 1 \in Queued(inbox, u, Texts) /\ inbox'[i] = inbox[i + 1]
      BY <1>2, Zenon
    <3>2. 1 < i + 1
      BY <3>1
    <3> QED BY <3>1, <3>2, <2>1, <1>5
  <2>3. ASSUME Queued(inbox', u, Texts) = {}
        PROVE  e.version = buffer[u].version /\ e.content = buffer[u].content
    <3>1. \A j \in Queued(inbox, u, Texts) : j <= 1
      BY <1>2, <2>3
    <3> QED BY <3>1, <1>5 DEF LastTextIsBuffer
  <2> QED BY <2>2, <2>3, <1>5
<1>6. CASE m.uri = u /\ m.method = "didOpen"
  <2>1. 1 \in Queued(inbox, u, Texts)
    BY <1>2, <1>6 DEF Texts
  <2>2. PICK ok \in Outcomes(m.content) : e = Parsed(Unparsed(m.version, m.content), ok)
    <3>1. Unparsed(m.version, m.content).content = m.content
      BY <1>3, DocsFacts
    <3> QED BY <1>6, <3>1, HandledFacts
  <2>3. Applied
    <3> DEFINE c == Unparsed(m.version, m.content)
    <3>1. c \in Doc /\ ok \in BOOLEAN /\ c.version = m.version /\ c.content = m.content
      BY <1>3, DocsFacts
    <3>2. e = Parsed(c, ok)
      BY <2>2
    <3> HIDE DEF c, e, m
    <3>3. Parsed(c, ok).version = c.version /\ Parsed(c, ok).content = c.content
      BY <3>1, ParsedFacts
    <3> QED BY <3>1, <3>2, <3>3
  <2>4. 1 <= m.version
    <3>1. \A k \in Queued(inbox, u, {"didOpen"}) : k <= 1
      BY <1>4
    <3> QED BY <2>1, <3>1 DEF TextsInOrder
  <2> QED BY <2>1, <2>3, <2>4, <1>5
<1>7. CASE m.uri = u /\ m.method = "didChange"
  <2>1. 1 \in Queued(inbox, u, Texts)
    BY <1>2, <1>7 DEF Texts
  <2>2. Queued(inbox, u, {"didOpen"}) = {}
    BY <1>2, <1>4, <1>7
  <2>3. 1 <= d.version /\ d.version < m.version
    BY <2>1, <2>2 DEF ServerIsBehind
  <2>4. e = Updated(d, m.version, m.content)
    <3>1. Exists(u)
      BY <2>3, <1>3, DocsFacts DEF Exists
    <3> QED BY <1>7, <3>1, HandledFacts
  <2>5. Applied
    BY <2>3, <2>4, <1>3, DocsFacts
  <2>6. 1 <= m.version
    BY <2>3, <1>3
  <2> QED BY <2>1, <2>5, <2>6, <1>5
<1>8. CASE ~(m.uri = u /\ m.method \in Texts)
  <2>1. Queued(inbox, u, {"didOpen"}) = {}
    BY <1>2, <1>4, <1>8 DEF Texts
  <2>2. e.version = d.version /\ e.content = d.content
    <3>1. CASE m.uri = u /\ m.method = "didSave"
      <4>1. \/ e = d
            \/ \E ok \in Outcomes(d.content) : e = Parsed(d, ok)
        BY <3>1, HandledFacts
      <4>2. ASSUME NEW ok \in Outcomes(d.content), e = Parsed(d, ok)
            PROVE  e.version = d.version /\ e.content = d.content
        <5>1. ok \in BOOLEAN
          BY DocsFacts
        <5> HIDE DEF d, e
        <5>2. Parsed(d, ok).version = d.version /\ Parsed(d, ok).content = d.content
          BY <5>1, <1>3, ParsedFacts
        <5> QED BY <4>2, <5>2
      <4> QED BY <4>1, <4>2
    <3>2. CASE ~(m.uri = u /\ m.method = "didSave")
      BY <3>2, <1>8, HandledFacts DEF Effective, Texts
    <3> QED BY <3>1, <3>2
  <2>3. ASSUME NEW i \in Queued(inbox', u, Texts)
        PROVE  e.version < inbox'[i].version
    <3>1. i + 1 \in Queued(inbox, u, Texts) /\ inbox'[i] = inbox[i + 1]
      BY <1>2, Zenon
    <3> QED BY <3>1, <2>1, <2>2 DEF ServerIsBehind
  <2>4. ASSUME Queued(inbox', u, Texts) = {}
        PROVE  e.version = buffer[u].version /\ e.content = buffer[u].content
    <3>1. Queued(inbox, u, Texts) = {}
      BY <2>4, <1>2, <1>8
    <3> QED BY <3>1, <2>1, <2>2 DEF ServerIsBehind
  <2> QED BY <2>1, <2>2, <2>3, <2>4 DEF ServerIsBehind
<1> QED BY <1>6, <1>7, <1>8 DEF Texts

(* A parse of the text the user sees shows what there is to show of it.      *)
LEMMA ParseOfBuffer ==
  ASSUME NEW u \in Uris, NEW d \in Doc, buffer'[u] = buffer[u],
         d.version = buffer[u].version, d.content = buffer[u].content,
         NEW ok \in Outcomes(d.content),
         docs_'[u] = Parsed(d, ok), shown'[u] = Published(u, d, ok)
  PROVE  IsParsed(u)'
<1>1. ok \in BOOLEAN
  BY DocsFacts
<1>2. ok => Parsed(d, ok).analysed = [version |-> d.version, content |-> d.content]
  BY <1>1, ParsedFacts
<1>3. /\ d.content = "good" => ok /\ Published(u, d, ok) = 0
      /\ d.content = "bad" => Published(u, d, ok) = d.version
  BY ParseShows
<1>4. buffer'[u].content = "good" =>
        /\ docs_'[u].analysed = [version |-> buffer'[u].version, content |-> "good"]
        /\ shown'[u] = 0
  BY <1>2, <1>3
<1>5. buffer'[u].content = "bad" => shown'[u] = buffer'[u].version
  BY <1>3
<1> QED BY <1>4, <1>5 DEF IsParsed

(* The text that was saved is still parsed, or still about to be.            *)
LEMMA TakenKeepsSave ==
  ASSUME TypeOK, Handle, init_, NEW u \in Uris,
         LastTextIsBuffer(u), ServerIsBehind(u), SaveArrives(u)
  PROVE  SaveArrives(u)'
<1> DEFINE m == inbox[1]
           d == docs_[u]
           v == buffer[u].version
<1>1. inbox # <<>> /\ inbox' = Tail(inbox) /\ m \in Message /\ buffer' = buffer /\ saved' = saved
  BY HandledFacts DEF editorVars
<1> DEFINE Taken(methods) ==
             /\ \A i \in Queued(inbox, u, methods) :
                  i \in Nat /\ i >= 1 /\ (i = 1 \/ i - 1 \in Queued(inbox', u, methods))
             /\ \A i \in Queued(inbox', u, methods) :
                  i \in Nat /\ i >= 1 /\ i + 1 \in Queued(inbox, u, methods) /\ inbox'[i] = inbox[i + 1]
             /\ 1 \in Queued(inbox, u, methods) <=> m.uri = u /\ m.method \in methods
<1>2. Taken(Texts) /\ Taken(Effective) /\ Taken({"didOpen", "didSave"})
  <2>1. \A methods : Taken(methods)
    <3> TAKE methods
    <3>1. \A i \in Queued(inbox, u, methods) :
            i \in Nat /\ i >= 1 /\ (i = 1 \/ i - 1 \in Queued(inbox', u, methods))
      BY <1>1, TakenFacts, Zenon
    <3>2. \A i \in Queued(inbox', u, methods) :
            i \in Nat /\ i >= 1 /\ i + 1 \in Queued(inbox, u, methods) /\ inbox'[i] = inbox[i + 1]
      BY <1>1, TakenFacts, Zenon
    <3>3. 1 \in Queued(inbox, u, methods) <=> m.uri = u /\ m.method \in methods
      BY <1>1, TakenFacts, Zenon
    <3> QED BY <3>1, <3>2, <3>3
  <2> HIDE DEF Taken
  <2> QED BY <2>1
<1>3. d \in Doc /\ d.version \in Nat /\ m.version \in Nat /\ m.content \in Contents
  BY <1>1, QueueFacts, DocsFacts DEF Doc
<1> SUFFICES ASSUME saved[u] = v
             PROVE  (IsParsed(u)' /\ SettledAfter(u, 0)') \/ WillBeParsed(u)'
  BY <1>1 DEF SaveArrives
<1>4. ASSUME NEW k \in {0, 1}, SettledAfter(u, k)
      PROVE  SettledAfter(u, 0)'
  <2>1. ASSUME NEW j \in Queued(inbox', u, Effective)
        PROVE  inbox'[j].method = "didSave" /\ inbox'[j].version = v
    <3>1. j \in Nat /\ j >= 1 /\ j + 1 \in Queued(inbox, u, Effective) /\ inbox'[j] = inbox[j + 1]
      BY <1>2, Zenon
    <3>2. k < j + 1
      BY <3>1
    <3> QED BY <3>1, <3>2, <1>4 DEF SettledAfter, Effective
  <2> QED BY <2>1, <1>1 DEF SettledAfter, Effective
<1>5. ASSUME m.uri = u, m.method = "didSave", m.version = v, SettledAfter(u, 1)
      PROVE  IsParsed(u)' /\ SettledAfter(u, 0)'
  <2>1. Queued(inbox, u, Texts) = {}
    <3> SUFFICES ASSUME NEW j \in Queued(inbox, u, Texts)
                 PROVE  FALSE
      OBVIOUS
    <3>1. j \in Queued(inbox, u, Effective) /\ inbox[j].method \in Texts
      BY MethodFacts
    <3>2. j # 1
      BY <3>1, <1>5 DEF Texts
    <3>3. 1 < j
      BY <3>1, <3>2, <1>2
    <3> QED BY <3>1, <3>3, <1>5 DEF SettledAfter, Effective, Texts
  <2>2. Queued(inbox, u, {"didOpen"}) = {}
    BY <2>1, MethodFacts
  <2>3. 1 <= d.version /\ d.version = v /\ d.content = buffer[u].content
    BY <2>1, <2>2 DEF ServerIsBehind
  <2>4. Exists(u) /\ SameVersion(d, m.version)
    BY <2>3, <1>3, <1>5, DocsFacts DEF Exists, SameVersion
  <2>5. PICK ok \in Outcomes(d.content) :
          docs_'[u] = Parsed(d, ok) /\ shown'[u] = Published(u, d, ok)
    BY <2>4, <1>5, HandledFacts
  <2>6. IsParsed(u)'
    BY <2>3, <2>5, <1>1, <1>3, ParseOfBuffer
  <2> QED BY <2>6, <1>4, <1>5
<1>6. CASE IsParsed(u) /\ SettledAfter(u, 0)
  <2>1. CASE m.uri = u /\ m.method \in Effective
    <3>1. 1 \in Queued(inbox, u, Effective)
      BY <2>1, <1>2
    <3>2. m.method = "didSave" /\ m.version = v
      BY <3>1, <1>6 DEF SettledAfter, Effective
    <3>3. SettledAfter(u, 1)
      <4>1. \A j \in Queued(inbox, u, Effective) : 1 < j => 0 < j
        BY <1>2
      <4> QED BY <4>1, <1>6 DEF SettledAfter, Effective
    <3> QED BY <3>2, <3>3, <2>1, <1>5
  <2>2. CASE ~(m.uri = u /\ m.method \in Effective)
    <3>1. docs_'[u] = docs_[u] /\ shown'[u] = shown[u]
      BY <2>2, HandledFacts
    <3>2. IsParsed(u)'
      BY <3>1, <1>1, <1>6 DEF IsParsed
    <3> QED BY <3>2, <1>4, <1>6
  <2> QED BY <2>1, <2>2
<1>7. ASSUME NEW i \in Queued(inbox, u, {"didOpen", "didSave"}),
             inbox[i].version = v, SettledAfter(u, i)
      PROVE  (IsParsed(u)' /\ SettledAfter(u, 0)') \/ WillBeParsed(u)'
  <2>1. CASE i # 1
    <3>1. i \in Nat /\ i - 1 \in Queued(inbox', u, {"didOpen", "didSave"})
      BY <2>1, <1>2
    <3>2. inbox'[i - 1] = inbox[(i - 1) + 1]
      BY <3>1, <1>2, Zenon
    <3>3. inbox'[i - 1].version = v
      BY <3>1, <3>2, <1>7
    <3>4. SettledAfter(u, i - 1)'
      <4>1. ASSUME NEW j \in Queued(inbox', u, Effective), i - 1 < j
            PROVE  inbox'[j].method = "didSave" /\ inbox'[j].version = v
        <5>1. j \in Nat /\ j + 1 \in Queued(inbox, u, Effective) /\ inbox'[j] = inbox[j + 1]
          BY <1>2, Zenon
        <5>2. i < j + 1
          BY <3>1, <4>1, <5>1
        <5> QED BY <5>1, <5>2, <1>7 DEF SettledAfter, Effective
      <4> QED BY <4>1, <1>1 DEF SettledAfter, Effective
    <3> QED BY <3>1, <3>3, <3>4, <1>1 DEF WillBeParsed
  <2>2. CASE i = 1 /\ m.method = "didSave"
    <3>1. m.uri = u
      BY <2>2, MethodFacts
    <3> QED BY <3>1, <2>2, <1>5, <1>7
  <2>3. CASE i = 1 /\ m.method = "didOpen"
    <3>1. m.uri = u /\ 1 \in Queued(inbox, u, Texts)
      BY <2>3, <1>2, MethodFacts DEF Texts
    <3>2. \A j \in Queued(inbox, u, Texts) : j <= 1
      <4> SUFFICES ASSUME NEW j \in Queued(inbox, u, Texts), ~(j <= 1)
                   PROVE  FALSE
        OBVIOUS
      <4>1. j \in Queued(inbox, u, Effective) /\ inbox[j].method \in Texts
        BY MethodFacts
      <4>2. 1 < j
        BY <1>2
      <4> QED BY <4>1, <4>2, <2>3, <1>7 DEF SettledAfter, Effective, Texts
    <3>3. m.version = v /\ m.content = buffer[u].content
      BY <3>1, <3>2 DEF LastTextIsBuffer
    <3> DEFINE c == Unparsed(m.version, m.content)
    <3>4. c \in Doc /\ c.version = m.version /\ c.content = m.content
      BY <1>3, DocsFacts
    <3>5. PICK ok \in Outcomes(c.content) :
            docs_'[u] = Parsed(c, ok) /\ shown'[u] = Published(u, c, ok)
      BY <3>1, <2>3, HandledFacts
    <3>6. IsParsed(u)'
      <4> HIDE DEF c
      <4> QED BY <3>3, <3>4, <3>5, <1>1, ParseOfBuffer
    <3> QED BY <3>6, <2>3, <1>4, <1>7
  <2> QED BY <2>1, <2>2, <2>3, MethodFacts
<1> QED BY <1>6, <1>7 DEF SaveArrives, WillBeParsed

(* What the editor sends, and what it then has of u.                         *)
LEMMA EditorFacts ==
  ASSUME TypeOK, SavedBefore, Editor
  PROVE  /\ UNCHANGED <<serverVars, outputVars>>
         /\ TypeOK' /\ SavedBefore'
         /\ \E m \in Message :
              /\ inbox' = Append(inbox, m)
              /\ \A u \in Uris :
                   \/ /\ m.uri # u \/ m.method \notin Effective
                      /\ buffer'[u].open => buffer'[u] = buffer[u] /\ saved'[u] = saved[u]
                   \/ /\ m.uri = u /\ m.method = "didOpen" /\ m.version = 1
                      /\ buffer'[u].early = ~Ready
                      /\ buffer'[u].version = 1 /\ buffer'[u].content = m.content
                   \/ /\ m.uri = u /\ m.method = "didChange" /\ m.version = buffer[u].version + 1
                      /\ Tracked(u)' => Tracked(u)
                      /\ buffer'[u].version = m.version /\ buffer'[u].content = m.content
                      /\ saved'[u] = saved[u] /\ saved[u] <= buffer[u].version
                   \/ /\ m.uri = u /\ m.method = "didSave"
                      /\ buffer'[u] = buffer[u]
                      /\ m.version = buffer[u].version \/ saved'[u] # buffer[u].version
<1>1. /\ inbox \in Seq(Message) /\ buffer \in [Uris -> Buffer] /\ saved \in [Uris -> Nat]
      /\ lastId \in Nat
  BY DEF TypeOK
<1>2. /\ \A u \in Uris : /\ buffer[u].version \in Nat /\ buffer[u].content \in Contents
                         /\ buffer[u].open \in BOOLEAN /\ buffer[u].early \in BOOLEAN
                         /\ buffer[u] \in Buffer /\ saved[u] \in Nat
      /\ Closed \in Buffer /\ ~Closed.open /\ "good" \in Contents
  BY <1>1 DEF Buffer, Closed, Contents
<1> DEFINE Typed == /\ UNCHANGED <<serverVars, outputVars>>
                    /\ buffer' \in [Uris -> Buffer] /\ saved' \in [Uris -> Nat] /\ lastId' \in Nat
           Effect(m, u) ==
             \/ /\ m.uri # u \/ m.method \notin Effective
                /\ buffer'[u].open => buffer'[u] = buffer[u] /\ saved'[u] = saved[u]
             \/ /\ m.uri = u /\ m.method = "didOpen" /\ m.version = 1
                /\ buffer'[u].early = ~Ready
                /\ buffer'[u].version = 1 /\ buffer'[u].content = m.content
             \/ /\ m.uri = u /\ m.method = "didChange" /\ m.version = buffer[u].version + 1
                /\ Tracked(u)' => Tracked(u)
                /\ buffer'[u].version = m.version /\ buffer'[u].content = m.content
                /\ saved'[u] = saved[u] /\ saved[u] <= buffer[u].version
             \/ /\ m.uri = u /\ m.method = "didSave"
                /\ buffer'[u] = buffer[u]
                /\ m.version = buffer[u].version \/ saved'[u] # buffer[u].version
           Msg(method, u, v, c, id) ==
             [method |-> method, uri |-> u, version |-> v, content |-> c, id |-> id]
<1>3. ASSUME NEW method \in Requests \cup Texts \cup {"didSave", "didClose"},
             NEW u \in Uris, NEW v \in Nat, NEW c \in Contents, NEW id \in Nat,
             Send(method, u, v, c, id), Typed, SavedBefore',
             \A w \in Uris : Effect(Msg(method, u, v, c, id), w)
      PROVE  /\ UNCHANGED <<serverVars, outputVars>> /\ TypeOK' /\ SavedBefore'
             /\ \E m \in Message : inbox' = Append(inbox, m) /\ \A w \in Uris : Effect(m, w)
  <2> DEFINE m == Msg(method, u, v, c, id)
  <2>1. m \in Message /\ inbox' = Append(inbox, m)
    BY <1>3 DEF Message, Send
  <2>2. inbox' \in Seq(Message)
    <3> HIDE DEF m, Message
    <3> QED BY <2>1, <1>1, AppendProperties
  <2>3. UNCHANGED <<serverVars, outputVars>>
    BY <1>3
  <2>4. TypeOK'
    BY <1>3, <2>2 DEF TypeOK, serverVars, outputVars
  <2>5. \A w \in Uris : Effect(m, w)
    BY <1>3
  <2> HIDE DEF Effect, m
  <2> QED BY <1>3, <2>1, <2>3, <2>4, <2>5
<1>4. ASSUME NEW u \in Uris, NEW method \in Requests, EditorRequest(method, u)
      PROVE  /\ UNCHANGED <<serverVars, outputVars>> /\ TypeOK' /\ SavedBefore'
             /\ \E m \in Message : inbox' = Append(inbox, m) /\ \A w \in Uris : Effect(m, w)
  <2>1. /\ Send(method, u, 0, "good", lastId + 1) /\ lastId + 1 \in Nat
        /\ Typed /\ buffer' = buffer /\ saved' = saved
    BY <1>1, <1>4 DEF EditorRequest
  <2>2. SavedBefore'
    BY <2>1 DEF SavedBefore
  <2>3. \A w \in Uris : Effect(Msg(method, u, 0, "good", lastId + 1), w)
    BY <2>1 DEF Requests, Effective, Texts
  <2> HIDE DEF Effect, Typed
  <2> QED BY <2>1, <2>2, <2>3, <1>2, <1>3
<1>5. ASSUME NEW u \in Uris, NEW c \in Contents, EditorOpen(u, c)
      PROVE  /\ UNCHANGED <<serverVars, outputVars>> /\ TypeOK' /\ SavedBefore'
             /\ \E m \in Message : inbox' = Append(inbox, m) /\ \A w \in Uris : Effect(m, w)
  <2> DEFINE b == [open |-> TRUE, early |-> ~Ready, version |-> 1, content |-> c]
  <2>1. /\ Send("didOpen", u, 1, c, 0) /\ UNCHANGED <<serverVars, outputVars, lastId>>
        /\ buffer' = [buffer EXCEPT ![u] = b] /\ saved' = [saved EXCEPT ![u] = 1]
    BY <1>5 DEF EditorOpen
  <2>2. b \in Buffer
    BY DEF Buffer
  <2>3. /\ b.early = ~Ready /\ b.version = 1 /\ b.content = c
    OBVIOUS
  <2> HIDE DEF b
  <2>4. /\ buffer'[u] = b /\ saved'[u] = 1
        /\ \A w \in Uris : w # u => buffer'[w] = buffer[w] /\ saved'[w] = saved[w]
    BY <2>1, <1>1
  <2>5. Typed
    BY <2>1, <2>2, <1>1
  <2>6. SavedBefore'
    BY <2>3, <2>4 DEF SavedBefore
  <2>7. \A w \in Uris : Effect(Msg("didOpen", u, 1, c, 0), w)
    BY <2>3, <2>4
  <2> HIDE DEF Effect, Typed
  <2> QED BY <2>1, <2>5, <2>6, <2>7, <1>3 DEF Texts
<1>6. ASSUME NEW u \in Uris, NEW c \in Contents, EditorChange(u, c)
      PROVE  /\ UNCHANGED <<serverVars, outputVars>> /\ TypeOK' /\ SavedBefore'
             /\ \E m \in Message : inbox' = Append(inbox, m) /\ \A w \in Uris : Effect(m, w)
  <2> DEFINE v == buffer[u].version + 1
  <2>1. /\ buffer[u].open /\ Send("didChange", u, v, c, 0)
        /\ UNCHANGED <<serverVars, outputVars, saved, lastId>>
        /\ buffer' = [buffer EXCEPT ![u].version = buffer[u].version + 1, ![u].content = c]
    BY <1>6 DEF EditorChange
  <2>2. v \in Nat /\ saved[u] <= buffer[u].version /\ 1 <= saved[u]
    BY <1>2, <2>1 DEF SavedBefore
  <2>3. /\ buffer'[u] = [buffer[u] EXCEPT !.version = v, !.content = c]
        /\ \A w \in Uris : w # u => buffer'[w] = buffer[w]
        /\ buffer' \in [Uris -> Buffer]
    BY <2>1, <2>2, <1>1 DEF Buffer
  <2>4. /\ buffer'[u].version = v /\ buffer'[u].content = c
        /\ buffer'[u].open = buffer[u].open /\ buffer'[u].early = buffer[u].early
    BY <2>3, <1>2 DEF Buffer
  <2>5. Typed
    BY <2>1, <2>3, <1>1
  <2>6. SavedBefore'
    BY <2>1, <2>2, <2>3, <2>4, <1>2 DEF SavedBefore
  <2>7. \A w \in Uris : Effect(Msg("didChange", u, v, c, 0), w)
    BY <2>1, <2>2, <2>3, <2>4 DEF Tracked
  <2> HIDE DEF Effect, Typed, v
  <2> QED BY <2>1, <2>2, <2>5, <2>6, <2>7, <1>2, <1>3 DEF Texts
<1>7. ASSUME NEW u \in Uris, NEW v \in Nat, Send("didSave", u, v, "good", 0),
             UNCHANGED <<serverVars, outputVars, buffer, lastId>>,
             buffer[u].open, saved' \in [Uris -> Nat],
             \A w \in Uris : w # u => saved'[w] = saved[w],
             1 <= saved'[u] /\ saved'[u] <= buffer[u].version,
             v = buffer[u].version \/ saved'[u] # buffer[u].version
      PROVE  /\ UNCHANGED <<serverVars, outputVars>> /\ TypeOK' /\ SavedBefore'
             /\ \E m \in Message : inbox' = Append(inbox, m) /\ \A w \in Uris : Effect(m, w)
  <2>1. Typed
    BY <1>1, <1>7
  <2>2. SavedBefore'
    BY <1>7 DEF SavedBefore
  <2>3. \A w \in Uris : Effect(Msg("didSave", u, v, "good", 0), w)
    BY <1>7
  <2> HIDE DEF Effect, Typed
  <2> QED BY <2>1, <2>2, <2>3, <1>2, <1>3, <1>7
<1>8. ASSUME NEW u \in Uris, EditorSave(u)
      PROVE  /\ UNCHANGED <<serverVars, outputVars>> /\ TypeOK' /\ SavedBefore'
             /\ \E m \in Message : inbox' = Append(inbox, m) /\ \A w \in Uris : Effect(m, w)
  <2>1. /\ buffer[u].open /\ saved' = [saved EXCEPT ![u] = buffer[u].version]
        /\ Send("didSave", u, buffer[u].version, "good", 0)
        /\ UNCHANGED <<serverVars, outputVars, buffer, lastId>>
    BY <1>8 DEF EditorSave
  <2>2. 1 <= buffer[u].version
    BY <2>1, <1>2 DEF SavedBefore
  <2>3. /\ saved' \in [Uris -> Nat] /\ saved'[u] = buffer[u].version
        /\ \A w \in Uris : w # u => saved'[w] = saved[w]
        /\ 1 <= saved'[u] /\ saved'[u] <= buffer[u].version
    BY <2>1, <2>2, <1>1, <1>2
  <2> HIDE DEF Effect
  <2> QED BY <2>1, <2>3, <1>2, <1>7
<1>9. ASSUME NEW u \in Uris, EditorLateSave(u)
      PROVE  /\ UNCHANGED <<serverVars, outputVars>> /\ TypeOK' /\ SavedBefore'
             /\ \E m \in Message : inbox' = Append(inbox, m) /\ \A w \in Uris : Effect(m, w)
  <2>1. /\ buffer[u].open /\ saved[u] < buffer[u].version - 1
        /\ Send("didSave", u, buffer[u].version - 1, "good", 0)
        /\ UNCHANGED <<serverVars, outputVars, buffer, saved, lastId>>
    BY <1>9 DEF EditorLateSave, editorVars
  <2>2. /\ buffer[u].version - 1 \in Nat /\ saved[u] # buffer[u].version
        /\ 1 <= saved[u] /\ saved[u] <= buffer[u].version
    BY <2>1, <1>2 DEF SavedBefore
  <2> HIDE DEF Effect
  <2> QED BY <2>1, <2>2, <1>1, <1>7
<1>10. ASSUME NEW u \in Uris, EditorClose(u)
       PROVE  /\ UNCHANGED <<serverVars, outputVars>> /\ TypeOK' /\ SavedBefore'
              /\ \E m \in Message : inbox' = Append(inbox, m) /\ \A w \in Uris : Effect(m, w)
  <2>1. /\ buffer' = [buffer EXCEPT ![u] = Closed] /\ Send("didClose", u, 0, "good", 0)
        /\ UNCHANGED <<serverVars, outputVars, saved, lastId>>
    BY <1>10 DEF EditorClose
  <2>2. /\ buffer'[u] = Closed /\ \A w \in Uris : w # u => buffer'[w] = buffer[w]
    BY <2>1, <1>1
  <2>3. Typed
    BY <2>1, <1>1, <1>2
  <2>4. SavedBefore'
    BY <2>1, <2>2, <1>2 DEF SavedBefore
  <2>5. \A w \in Uris : Effect(Msg("didClose", u, 0, "good", 0), w)
    BY <2>1, <2>2, <1>2 DEF Effective, Texts
  <2> HIDE DEF Effect, Typed
  <2> QED BY <2>1, <2>3, <2>4, <2>5, <1>2, <1>3
<1> HIDE DEF Effect
<1>11. /\ UNCHANGED <<serverVars, outputVars>> /\ TypeOK' /\ SavedBefore'
       /\ \E m \in Message : inbox' = Append(inbox, m) /\ \A w \in Uris : Effect(m, w)
  BY <1>4, <1>5, <1>6, <1>8, <1>9, <1>10 DEF Editor
<1> QED BY <1>11, Zenon DEF Effect

(* Whatever the editor sends, the server will keep up with it.               *)
LEMMA EditorKeeps ==
  ASSUME GlsldIInv, Editor, NEW u \in Uris, Tracked(u)'
  PROVE  Follows(u)'
<1>1. /\ TypeOK /\ SavedBefore /\ docs_' = docs_ /\ shown' = shown
      /\ Tracked(u) => Follows(u)
  BY EditorFacts DEF GlsldIInv, serverVars, outputVars
<1>2. PICK m \in Message :
        /\ inbox' = Append(inbox, m)
        /\ \/ /\ m.uri # u \/ m.method \notin Effective
              /\ buffer'[u].open => buffer'[u] = buffer[u] /\ saved'[u] = saved[u]
           \/ /\ m.uri = u /\ m.method = "didOpen" /\ m.version = 1
              /\ buffer'[u].version = 1 /\ buffer'[u].content = m.content
           \/ /\ m.uri = u /\ m.method = "didChange" /\ m.version = buffer[u].version + 1
              /\ Tracked(u)' => Tracked(u)
              /\ buffer'[u].version = m.version /\ buffer'[u].content = m.content
              /\ saved'[u] = saved[u] /\ saved[u] <= buffer[u].version
           \/ /\ m.uri = u /\ m.method = "didSave"
              /\ buffer'[u] = buffer[u]
              /\ m.version = buffer[u].version \/ saved'[u] # buffer[u].version
  BY <1>1, EditorFacts
<1> DEFINE n == Len(inbox)
           Sent(methods) ==
             /\ \A i \in Queued(inbox, u, methods) :
                  i \in Queued(inbox', u, methods) /\ i \in Nat /\ i >= 1 /\ i <= n
                  /\ inbox'[i] = inbox[i]
             /\ \A i \in Queued(inbox', u, methods) :
                  \/ i \in Queued(inbox, u, methods)
                  \/ i = n + 1 /\ m.uri = u /\ m.method \in methods
             /\ m.uri = u /\ m.method \in methods => n + 1 \in Queued(inbox', u, methods)
<1>3. n \in Nat /\ inbox'[n + 1] = m
  BY <1>1, <1>2, SentFacts
<1>4. /\ Sent(Texts) /\ Sent(Effective) /\ Sent({"didOpen"}) /\ Sent({"didOpen", "didSave"})
  <2>1. \A methods : Sent(methods)
    <3> TAKE methods
    <3>1. \A i \in Queued(inbox, u, methods) :
            i \in Queued(inbox', u, methods) /\ i \in Nat /\ i >= 1 /\ i <= n
            /\ inbox'[i] = inbox[i]
      BY <1>1, <1>2, SentFacts, ZenonT(60)
    <3>2. \A i \in Queued(inbox', u, methods) :
            \/ i \in Queued(inbox, u, methods)
            \/ i = n + 1 /\ m.uri = u /\ m.method \in methods
      BY <1>1, <1>2, SentFacts, Zenon
    <3>3. m.uri = u /\ m.method \in methods => n + 1 \in Queued(inbox', u, methods)
      BY <1>1, <1>2, SentFacts, Zenon
    <3> QED BY <3>1, <3>2, <3>3
  <2> HIDE DEF Sent
  <2> QED BY <2>1
<1>5. ASSUME NEW methods, Sent(methods), m.uri # u \/ m.method \notin methods
      PROVE  Queued(inbox', u, methods) = Queued(inbox, u, methods)
  BY <1>5
<1>6. buffer[u].version \in Nat /\ buffer'[u].open
  BY <1>1, QueueFacts DEF Buffer, Tracked
<1> HIDE DEF n
<1>7. CASE (m.uri # u \/ m.method \notin Effective) /\ buffer'[u] = buffer[u] /\ saved'[u] = saved[u]
  <2>1. Follows(u)
    BY <1>1, <1>7 DEF Tracked
  <2>2. /\ Queued(inbox', u, Texts) = Queued(inbox, u, Texts)
        /\ Queued(inbox', u, Effective) = Queued(inbox, u, Effective)
        /\ Queued(inbox', u, {"didOpen"}) = Queued(inbox, u, {"didOpen"})
        /\ Queued(inbox', u, {"didOpen", "didSave"}) = Queued(inbox, u, {"didOpen", "didSave"})
    <3>1. m.uri # u \/ (m.method \notin Texts /\ m.method \notin {"didOpen"}
                         /\ m.method \notin {"didOpen", "didSave"} /\ m.method \notin Effective)
      BY <1>7 DEF Effective, Texts
    <3> HIDE DEF Sent
    <3> QED BY <3>1, <1>4, <1>5
  <2>3. /\ \A i \in Queued(inbox, u, Texts) : inbox'[i] = inbox[i]
        /\ \A i \in Queued(inbox, u, Effective) : inbox'[i] = inbox[i]
        /\ \A i \in Queued(inbox, u, {"didOpen", "didSave"}) : inbox'[i] = inbox[i]
    BY <1>4
  <2>4. TextsInOrder(u)' /\ LastTextIsBuffer(u)'
    BY <2>1, <2>2, <2>3, <1>7 DEF TextsInOrder, LastTextIsBuffer, Follows
  <2>5. ServerIsBehind(u)'
    BY <2>1, <2>2, <2>3, <1>1, <1>7 DEF ServerIsBehind, Follows
  <2>6. \A i : SettledAfter(u, i) => SettledAfter(u, i)'
    BY <2>2, <2>3, <1>7 DEF SettledAfter, Effective
  <2>7. IsParsed(u) => IsParsed(u)'
    BY <1>1, <1>7 DEF IsParsed
  <2>8. WillBeParsed(u) => WillBeParsed(u)'
    BY <2>2, <2>3, <2>6, <1>7 DEF WillBeParsed
  <2>9. SaveArrives(u)'
    BY <2>1, <2>6, <2>7, <2>8, <1>7 DEF SaveArrives, Follows
  <2> QED BY <2>4, <2>5, <2>9 DEF Follows
<1>8. ASSUME m.uri = u, m.method \in {"didOpen", "didSave"}, m.version = buffer'[u].version
      PROVE  SaveArrives(u)'
  <2>1. n + 1 \in Queued(inbox', u, {"didOpen", "didSave"}) /\ inbox'[n + 1].version = buffer'[u].version
    BY <1>3, <1>4, <1>8
  <2>2. \A j \in Queued(inbox', u, Effective) : ~(n + 1 < j)
    BY <1>3, <1>4
  <2> QED BY <2>1, <2>2 DEF SaveArrives, WillBeParsed, SettledAfter, Effective
<1>9. CASE /\ m.uri = u /\ m.method = "didOpen" /\ m.version = 1
           /\ buffer'[u].version = 1 /\ buffer'[u].content = m.content
  <2>1. n + 1 \in Queued(inbox', u, {"didOpen"}) /\ n + 1 \in Queued(inbox', u, Texts)
    BY <1>4, <1>9 DEF Texts
  <2>2. \A i \in Queued(inbox', u, Texts) : i <= n + 1 /\ (n + 1 <= i => i = n + 1)
    BY <1>3, <1>4
  <2>3. TextsInOrder(u)'
    <3> SUFFICES ASSUME NEW i \in Queued(inbox', u, Texts),
                        \A k \in Queued(inbox', u, {"didOpen"}) : k <= i
                 PROVE  /\ 1 <= inbox'[i].version /\ inbox'[i].version <= buffer'[u].version
                        /\ \A j \in Queued(inbox', u, Texts) : i < j => inbox'[i].version < inbox'[j].version
      BY DEF TextsInOrder
    <3>1. i = n + 1
      BY <2>1, <2>2
    <3>2. \A j \in Queued(inbox', u, Texts) : ~(n + 1 < j)
      BY <1>3, <1>4
    <3> QED BY <3>1, <3>2, <1>3, <1>9
  <2>4. LastTextIsBuffer(u)'
    <3> SUFFICES ASSUME NEW i \in Queued(inbox', u, Texts),
                        \A k \in Queued(inbox', u, Texts) : k <= i
                 PROVE  /\ inbox'[i].version = buffer'[u].version
                        /\ inbox'[i].content = buffer'[u].content
      BY DEF LastTextIsBuffer
    <3>1. i = n + 1
      BY <2>1, <2>2
    <3> QED BY <3>1, <1>3, <1>9
  <2>5. ServerIsBehind(u)'
    BY <2>1 DEF ServerIsBehind
  <2>6. SaveArrives(u)'
    BY <1>8, <1>9
  <2> QED BY <2>3, <2>4, <2>5, <2>6 DEF Follows
<1>10. CASE /\ m.uri = u /\ m.method = "didChange" /\ m.version = buffer[u].version + 1
            /\ Tracked(u)' => Tracked(u)
            /\ buffer'[u].version = m.version /\ buffer'[u].content = m.content
            /\ saved'[u] = saved[u] /\ saved[u] <= buffer[u].version
  <2>1. Follows(u)
    BY <1>1, <1>10, EditorFacts DEF Tracked
  <2>2. Queued(inbox', u, {"didOpen"}) = Queued(inbox, u, {"didOpen"})
    BY <1>4, <1>5, <1>10
  <2>3. n + 1 \in Queued(inbox', u, Texts)
    BY <1>4, <1>10 DEF Texts
  <2>4. TextsInOrder(u)'
    <3> SUFFICES ASSUME NEW i \in Queued(inbox', u, Texts),
                        \A k \in Queued(inbox', u, {"didOpen"}) : k <= i
                 PROVE  /\ 1 <= inbox'[i].version /\ inbox'[i].version <= buffer'[u].version
                        /\ \A j \in Queued(inbox', u, Texts) : i < j => inbox'[i].version < inbox'[j].version
      BY DEF TextsInOrder
    <3>1. CASE i = n + 1
      <4>1. \A j \in Queued(inbox', u, Texts) : ~(n + 1 < j)
        BY <1>3, <1>4
      <4> QED BY <3>1, <4>1, <1>3, <1>6, <1>10
    <3>2. CASE i \in Queued(inbox, u, Texts)
      <4>1. /\ inbox'[i] = inbox[i] /\ 1 <= inbox[i].version
            /\ inbox[i].version <= buffer[u].version
            /\ \A j \in Queued(inbox, u, Texts) : i < j => inbox[i].version < inbox[j].version
        BY <3>2, <2>1, <2>2, <1>4 DEF Follows, TextsInOrder
      <4>2. inbox[i].version \in Nat
        <5>1. i \in 1 .. Len(inbox)
          BY <3>2, <1>1, QueueFacts DEF Queued
        <5> QED BY <5>1, <1>1, QueueFacts, DocsFacts
      <4>3. inbox[i].version < m.version
        BY <4>1, <4>2, <1>6, <1>10
      <4>4. ASSUME NEW j \in Queued(inbox', u, Texts), i < j
            PROVE  inbox'[i].version < inbox'[j].version
        <5>1. CASE j = n + 1
          BY <5>1, <4>1, <4>3, <1>3
        <5>2. CASE j \in Queued(inbox, u, Texts)
          BY <5>2, <4>1, <4>4, <1>4
        <5> QED BY <5>1, <5>2, <1>4
      <4>5. inbox[i].version <= buffer'[u].version
        BY <4>2, <4>3, <1>6, <1>10
      <4> QED BY <4>1, <4>4, <4>5
    <3> QED BY <3>1, <3>2, <1>4
  <2>5. LastTextIsBuffer(u)'
    <3> SUFFICES ASSUME NEW i \in Queued(inbox', u, Texts),
                        \A k \in Queued(inbox', u, Texts) : k <= i
                 PROVE  /\ inbox'[i].version = buffer'[u].version
                        /\ inbox'[i].content = buffer'[u].content
      BY DEF LastTextIsBuffer
    <3>1. n + 1 <= i
      BY <2>3
    <3>2. i = n + 1
      BY <3>1, <1>3, <1>4
    <3> QED BY <3>2, <1>3, <1>10
  <2>6. ServerIsBehind(u)'
    <3> SUFFICES ASSUME Queued(inbox, u, {"didOpen"}) = {}
                 PROVE  /\ 1 <= docs_[u].version
                        /\ \A i \in Queued(inbox', u, Texts) : docs_[u].version < inbox'[i].version
      BY <2>2, <2>3, <1>1 DEF ServerIsBehind
    <3>1. /\ 1 <= docs_[u].version
          /\ \A i \in Queued(inbox, u, Texts) : docs_[u].version < inbox[i].version
          /\ Queued(inbox, u, Texts) = {} => docs_[u].version = buffer[u].version
      BY <2>1 DEF Follows, ServerIsBehind
    <3>2. docs_[u].version \in Nat /\ docs_[u].version <= buffer[u].version
      <4>1. docs_[u].version \in Nat
        BY <1>1, QueueFacts DEF Doc
      <4>2. ASSUME NEW i \in Queued(inbox, u, Texts)
            PROVE  docs_[u].version <= buffer[u].version
        <5>1. inbox[i].version <= buffer[u].version
          BY <2>1 DEF Follows, TextsInOrder
        <5>2. inbox[i].version \in Nat
          <6>1. i \in 1 .. Len(inbox)
            BY <1>1, QueueFacts DEF Queued
          <6> QED BY <6>1, <1>1, QueueFacts, DocsFacts
        <5>3. docs_[u].version < inbox[i].version
          BY <3>1
        <5> QED BY <5>1, <5>2, <5>3, <4>1, <1>6
      <4> QED BY <4>1, <4>2, <3>1, <1>6
    <3>3. docs_[u].version < m.version
      BY <3>2, <1>6, <1>10
    <3> QED BY <3>1, <3>3, <1>3, <1>4
  <2>7. SaveArrives(u)'
    <3>1. saved'[u] # buffer'[u].version
      BY <1>1, <1>6, <1>10, QueueFacts
    <3> QED BY <3>1 DEF SaveArrives
  <2> QED BY <2>4, <2>5, <2>6, <2>7 DEF Follows
<1>11. CASE /\ m.uri = u /\ m.method = "didSave"
            /\ buffer'[u] = buffer[u]
            /\ m.version = buffer[u].version \/ saved'[u] # buffer[u].version
  <2>1. Follows(u)
    BY <1>1, <1>11 DEF Tracked
  <2>2. /\ Queued(inbox', u, Texts) = Queued(inbox, u, Texts)
        /\ Queued(inbox', u, {"didOpen"}) = Queued(inbox, u, {"didOpen"})
    <3>1. m.method \notin Texts /\ m.method \notin {"didOpen"}
      BY <1>11 DEF Texts
    <3> HIDE DEF Sent
    <3> QED BY <3>1, <1>4, <1>5
  <2>3. \A i \in Queued(inbox, u, Texts) : inbox'[i] = inbox[i]
    BY <1>4
  <2>4. TextsInOrder(u)' /\ LastTextIsBuffer(u)'
    BY <2>1, <2>2, <2>3, <1>11 DEF TextsInOrder, LastTextIsBuffer, Follows
  <2>5. ServerIsBehind(u)'
    BY <2>1, <2>2, <2>3, <1>1, <1>11 DEF ServerIsBehind, Follows
  <2>6. SaveArrives(u)'
    <3>1. CASE m.version = buffer[u].version
      BY <3>1, <1>8, <1>11
    <3>2. CASE saved'[u] # buffer[u].version
      BY <3>2, <1>11 DEF SaveArrives
    <3> QED BY <3>1, <3>2, <1>11
  <2> QED BY <2>4, <2>5, <2>6 DEF Follows
<1> QED BY <1>2, <1>6, <1>7, <1>9, <1>10, <1>11

LEMMA GlsldInit == Init => GlsldIInv
<1> SUFFICES ASSUME Init PROVE GlsldIInv
  OBVIOUS
<1>1. /\ inbox = <<>> /\ init_ = FALSE /\ docs_ = [u \in Uris |-> NoDoc]
      /\ threadPool = "default" /\ buffer = [u \in Uris |-> Closed]
      /\ saved = [u \in Uris |-> 0] /\ shown = [u \in Uris |-> 0]
      /\ answers = <<>> /\ lastId = 0
  BY DEF Init
<1>2. Closed \in Buffer /\ NoDoc \in Doc /\ ~Closed.open
  BY DEF Closed, Buffer, NoDoc, Doc, NotParsed, Contents
<1>3. <<>> \in Seq(Message) /\ <<>> \in Seq(Nat)
  BY EmptySeq
<1>4. TypeOK
  <2> HIDE DEF Message, Doc, Buffer
  <2> QED BY <1>1, <1>2, <1>3 DEF TypeOK
<1>5. \A u \in Uris : ~buffer[u].open
  BY <1>1, <1>2
<1>6. ServesTracked /\ SavedBefore
  BY <1>1, <1>5 DEF ServesTracked, SavedBefore, Tracked, Ready
<1> QED BY <1>4, <1>5, <1>6 DEF GlsldIInv, Tracked

LEMMA GlsldNext ==
  ASSUME GlsldIInv, [Next]_vars
  PROVE  GlsldIInv'
<1>1. TypeOK /\ ServesTracked /\ SavedBefore
  BY DEF GlsldIInv
<1>2. CASE Handle
  <2>1. TypeOK'
    BY <1>1, <1>2, HandleTypes
  <2>2. SavedBefore' /\ \A u \in Uris : Tracked(u)' <=> Tracked(u)
    <3>1. editorVars' = editorVars
      BY <1>2 DEF Handle, Ignored, Unhandled, Receive, Initialize, Definition, Completion,
                  DidOpen, DidChange, DidSave, DidSaveOther, DidSaveUnknown
    <3> QED BY <3>1, <1>1 DEF editorVars, SavedBefore, Tracked
  <2>3. ASSUME NEW u \in Uris, Tracked(u)'
        PROVE  init_' /\ Follows(u)'
    <3>1. Tracked(u) /\ init_ /\ Follows(u) /\ buffer[u].open
      BY <2>2, <2>3 DEF GlsldIInv, ServesTracked, Tracked
    <3>2. 1 <= buffer[u].version
      <4>1. 1 <= saved[u] /\ saved[u] <= buffer[u].version
        BY <3>1, <1>1 DEF SavedBefore
      <4>2. saved[u] \in Nat /\ buffer[u].version \in Nat
        BY <1>1, QueueFacts DEF Buffer
      <4> QED BY <4>1, <4>2
    <3>3. inbox # <<>> /\ inbox' = Tail(inbox) /\ buffer' = buffer /\ init_'
      BY <1>1, <1>2, <3>1, HandledFacts DEF editorVars
    <3>4. TextsInOrder(u)' /\ LastTextIsBuffer(u)'
      BY <1>1, <3>1, <3>3, TakenKeepsTexts DEF Follows
    <3>5. ServerIsBehind(u)'
      BY <1>1, <1>2, <3>1, <3>2, TakenKeepsBehind DEF Follows
    <3>6. SaveArrives(u)'
      BY <1>1, <1>2, <3>1, TakenKeepsSave DEF Follows
    <3> QED BY <3>3, <3>4, <3>5, <3>6 DEF Follows
  <2>4. Ready' => init_'
    <3>1. CASE Uris = {}
      <4>1. inbox # <<>> /\ Head(inbox) \in Message
        <5>1. inbox # <<>> /\ inbox' = Tail(inbox)
          BY <1>2 DEF Handle, Ignored, Unhandled, Receive, Initialize, Definition, Completion,
                      DidOpen, DidChange, DidSave, DidSaveOther, DidSaveUnknown
        <5> QED BY <5>1, <1>1, TakenFacts
      <4> QED BY <4>1, <3>1, DocsFacts
    <3>2. CASE Uris # {}
      <4>1. PICK u \in Uris : TRUE
        BY <3>2
      <4>2. ~Ready' \/ init_' \/ (answers' = answers /\ init_' = init_)
        BY <1>1, <1>2, HandledFacts
      <4> QED BY <4>2, <1>1 DEF ServesTracked, Ready
    <3> QED BY <3>1, <3>2
  <2> QED BY <2>1, <2>2, <2>3, <2>4 DEF GlsldIInv, ServesTracked
<1>3. CASE Editor
  <2>1. TypeOK' /\ SavedBefore' /\ init_' = init_ /\ answers' = answers
    BY <1>1, <1>3, EditorFacts DEF serverVars, outputVars
  <2>2. ASSUME NEW u \in Uris, Tracked(u)'
        PROVE  init_' /\ Follows(u)'
    <3>1. Tracked(u) \/ Ready
      <4>1. \/ buffer'[u] = buffer[u]
            \/ Tracked(u)
            \/ buffer'[u].early = ~Ready
        BY <1>1, <1>3, <2>2, EditorFacts DEF Tracked
      <4> QED BY <4>1, <2>2 DEF Tracked, Ready
    <3>2. init_'
      BY <3>1, <2>1, <1>1 DEF ServesTracked
    <3>3. Follows(u)'
      BY <1>3, <2>2, EditorKeeps
    <3> QED BY <3>2, <3>3
  <2>3. Ready' => init_'
    BY <2>1, <1>1 DEF ServesTracked, Ready
  <2> QED BY <2>1, <2>2, <2>3 DEF GlsldIInv, ServesTracked
<1>4. CASE UNCHANGED vars
  <2>1. /\ inbox' = inbox /\ init_' = init_ /\ docs_' = docs_ /\ threadPool' = threadPool
        /\ buffer' = buffer /\ saved' = saved /\ lastId' = lastId
        /\ shown' = shown /\ answers' = answers
    BY <1>4 DEF vars, serverVars, editorVars, outputVars
  <2>2. TypeOK' /\ ServesTracked' /\ SavedBefore'
    BY <2>1, <1>1 DEF TypeOK, ServesTracked, SavedBefore, Tracked, Ready
  <2>3. ASSUME NEW u \in Uris, Tracked(u)'
        PROVE  Follows(u)'
    <3>1. Follows(u)
      BY <2>1, <2>3 DEF GlsldIInv, Tracked
    <3> QED BY <3>1, <2>1 DEF Follows, TextsInOrder, LastTextIsBuffer, ServerIsBehind,
                              SaveArrives, IsParsed, SettledAfter, WillBeParsed
  <2> QED BY <2>2, <2>3 DEF GlsldIInv
<1> QED BY <1>2, <1>3, <1>4 DEF Next

(* Documents are opened, changed, saved late and opened again, and texts and *)
(* saves queue up before the server: those still queued bring what it has to *)
(* what the editor shows (Doc::update, Workspace::save_doc, Protocol).       *)
THEOREM GlsldInvariance == Spec => []GlsldIInv
BY GlsldInit, GlsldNext, PTL DEF Spec

(* With nothing queued for it, there is nothing in any set of effective ones.*)
LEMMA NothingQueued ==
  ASSUME NEW u \in Uris, Quiet(u)
  PROVE  /\ Queued(inbox, u, Texts) = {} /\ Queued(inbox, u, {"didOpen"}) = {}
         /\ ~WillBeParsed(u)
<1>1. \A i \in DOMAIN inbox : inbox[i].uri = u =>
        inbox[i].method \notin Texts /\ inbox[i].method \notin {"didOpen"}
          /\ inbox[i].method \notin {"didOpen", "didSave"}
  BY DEF Quiet, Requests, Texts
<1> QED BY <1>1 DEF Queued, WillBeParsed

(* When nothing for a document is queued, the server has the text the user   *)
(* sees, also after it was closed and opened again with an older version.    *)
THEOREM DocsAgree == Spec => []DocsInSync
<1>1. GlsldIInv => DocsInSync
  BY NothingQueued DEF GlsldIInv, DocsInSync, Follows, ServerIsBehind
<1> QED BY <1>1, GlsldInvariance, PTL

(* A document that parses and was saved as it is, is the one definitions and *)
(* completions are looked up in.                                             *)
THEOREM SavesAnalysed == Spec => []SavedIsAnalysed
<1>1. GlsldIInv => SavedIsAnalysed
  BY NothingQueued DEF GlsldIInv, SavedIsAnalysed, AtRest, Follows, SaveArrives, IsParsed
<1> QED BY <1>1, GlsldInvariance, PTL

(* The errors of its own that a saved document has are displayed, for that   *)
(* version, and a document that parses shows none.                           *)
THEOREM SavesDiagnosed == Spec => []SavedIsDiagnosed
<1>1. GlsldIInv => SavedIsDiagnosed
  BY NothingQueued DEF GlsldIInv, SavedIsDiagnosed, AtRest, Follows, SaveArrives, IsParsed
<1> QED BY <1>1, GlsldInvariance, PTL
===============================================================================
