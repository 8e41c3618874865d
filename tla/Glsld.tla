-------------------------------- MODULE Glsld --------------------------------
(***************************************************************************)
(* glsld, the language server built on glslang: main reads one message at  *)
(* a time from the editor (glsld.cc), Protocol dispatches it, Workspace    *)
(* keeps one Doc for each uri, and a Doc keeps the text it was last told   *)
(* next to the analysis of the last text that parsed.                      *)
(*                                                                         *)
(* The editor is the environment: it runs ahead of the server, so messages *)
(* queue up, and it may start before the server is initialised.  A text is *)
(* abstracted to its version and to what a parse of it gives: "good" text  *)
(* parses, "bad" text has errors of its own, "including" text depends on   *)
(* another file, and the errors found there carry a path, not a file: uri. *)
(***************************************************************************)
EXTENDS Integers, Sequences, FiniteSets

CONSTANT Uris           \* the documents of the editor

Contents == {"good", "bad", "including"}
Requests == {"initialize", "completion", "definition"}

VARIABLES
  inbox,          \* messages on the server's standard input, oldest first
  init_,          \* Protocol: initialize was handled
  docs_,          \* Workspace: uri -> the Doc, or NoDoc
  threadPool,     \* whose pool the thread allocates from: the shader of a
                  \* uri's Doc, "default", or "deleted" with its shader
  buffer,         \* editor: uri -> the text the user sees
  saved,          \* editor: uri -> version that was last opened or saved
  shown,          \* editor: uri -> version whose errors are displayed, 0 none
  answers,        \* editor: ids of the answered requests, in order
  lastId          \* editor: id of the last request it sent

serverVars == <<init_, docs_, threadPool>>
editorVars == <<buffer, saved, lastId>>
outputVars == <<shown, answers>>
vars == <<inbox, serverVars, editorVars, outputVars>>

-------------------------------------------------------------------------------
NotParsed == [version |-> 0, content |-> "bad"]
NoDoc == [version |-> 0, content |-> "bad", analysed |-> NotParsed]
Unparsed(v, c) == [version |-> v, content |-> c, analysed |-> NotParsed]

Exists(u) == docs_[u] # NoDoc

\* The outcomes of TShader::parse, by the text it is given.
Outcomes(c) == IF c = "including" THEN BOOLEAN ELSE {c = "good"}

Parsed(d, ok) ==
  IF ok THEN [d EXCEPT !.analysed = [version |-> d.version, content |-> d.content]]
        ELSE d

\* The shader of a failed parse is deleted at once, and its pool with it.
PoolAfter(u, ok) == IF ok THEN u ELSE "deleted"

\* publish_diagnostics sends one list per file: uri with errors, and
\* publish_clear_diagnostics the empty list.  Errors in an included file name
\* a path, which the pattern does not match, so nothing is sent for them.
PublishNothing(u, d, ok) == shown[u]
Published(u, d, ok) ==
  IF ok THEN 0 ELSE IF d.content = "bad" THEN d.version ELSE shown[u]

\* Doc::update ignores a version that is not newer.
Updated(d, v, c) ==
  IF d.version >= v THEN d ELSE [d EXCEPT !.version = v, !.content = c]

\* Workspace::add_doc replaces what it had; open documents start from there.
UpdateOnOpen(u, d) == IF Exists(u) THEN Updated(docs_[u], d.version, d.content) ELSE d
Opened(u, d) == d

\* A save is parsed if it names the version the server has.
NeverReparse(d, v) == FALSE
SameVersion(d, v) == d.version = v

Accepts(m) == init_ \/ m.method = "initialize"

\* make_response_ with the id of the request.
AnswerFirst(m) == IF answers = <<>> THEN <<m.id>> ELSE answers
Answer(m) == Append(answers, m.id)

-------------------------------------------------------------------------------
(* The editor.                                                               *)
Send(method, u, v, c, id) ==
  inbox' = Append(inbox, [method |-> method, uri |-> u, version |-> v,
                          content |-> c, id |-> id])

Closed == [open |-> FALSE, early |-> FALSE, version |-> 0, content |-> "good"]
Ready == answers # <<>>     \* the editor has the answer to initialize

Init ==
  /\ inbox = <<>>
  /\ init_ = FALSE
  /\ docs_ = [u \in Uris |-> NoDoc]
  /\ threadPool = "default"
  /\ buffer = [u \in Uris |-> Closed]
  /\ saved = [u \in Uris |-> 0]
  /\ shown = [u \in Uris |-> 0]
  /\ answers = <<>>
  /\ lastId = 0

EditorRequest(method, u) ==
  /\ method = "initialize" <=> lastId = 0
  /\ lastId' = lastId + 1
  /\ Send(method, u, 0, "good", lastId + 1)
  /\ UNCHANGED <<serverVars, outputVars, buffer, saved>>

\* An editor should wait for the answer to initialize, its first request,
\* before it opens documents; early marks the documents of one that does not.
EditorOpen(u, c) ==
  /\ ~buffer[u].open
  /\ buffer' = [buffer EXCEPT ![u] = [open |-> TRUE, early |-> ~Ready,
                                      version |-> 1, content |-> c]]
  /\ saved' = [saved EXCEPT ![u] = 1]
  /\ Send("didOpen", u, 1, c, 0)
  /\ UNCHANGED <<serverVars, outputVars, lastId>>

EditorChange(u, c) ==
  /\ buffer[u].open
  /\ buffer' = [buffer EXCEPT ![u].version = @ + 1, ![u].content = c]
  /\ Send("didChange", u, buffer[u].version + 1, c, 0)
  /\ UNCHANGED <<serverVars, outputVars, saved, lastId>>

EditorSave(u) ==
  /\ buffer[u].open
  /\ saved' = [saved EXCEPT ![u] = buffer[u].version]
  /\ Send("didSave", u, buffer[u].version, "good", 0)
  /\ UNCHANGED <<serverVars, outputVars, buffer, lastId>>

\* A save that is reported only after the user has typed on.
EditorLateSave(u) ==
  /\ buffer[u].open
  /\ saved[u] < buffer[u].version - 1
  /\ Send("didSave", u, buffer[u].version - 1, "good", 0)
  /\ UNCHANGED <<serverVars, outputVars, editorVars>>

EditorClose(u) ==
  /\ buffer[u].open
  /\ buffer' = [buffer EXCEPT ![u] = Closed]
  /\ Send("didClose", u, 0, "good", 0)
  /\ UNCHANGED <<serverVars, outputVars, saved, lastId>>

-------------------------------------------------------------------------------
(* The server: one message of standard input at a time, to its end.          *)
Receive(m, method) ==
  /\ inbox # <<>>
  /\ m = Head(inbox)
  /\ m.method = method
  /\ inbox' = Tail(inbox)
  /\ UNCHANGED editorVars

\* Protocol::handle before initialize: no answer, no effect.
Ignored ==
  /\ inbox # <<>> /\ ~Accepts(Head(inbox))
  /\ inbox' = Tail(inbox)
  /\ UNCHANGED <<serverVars, editorVars, outputVars>>

\* initialized, didClose and every method handle() does not name.
Unhandled ==
  /\ Receive(Head(inbox), "didClose") /\ Accepts(Head(inbox))
  /\ UNCHANGED <<serverVars, outputVars>>

Initialize(m) ==
  /\ Receive(m, "initialize")
  /\ init_' = TRUE
  /\ answers' = Answer(m)
  /\ UNCHANGED <<docs_, threadPool, shown>>

\* Parses doc d for uri u and reports the result.
ParseAndPublish(u, d) ==
  \E ok \in Outcomes(d.content) :
    /\ docs_' = [docs_ EXCEPT ![u] = Parsed(d, ok)]
    /\ threadPool' = PoolAfter(u, ok)
    /\ shown' = [shown EXCEPT ![u] = Published(u, d, ok)]

DidOpen(m) ==
  /\ Receive(m, "didOpen") /\ Accepts(m)
  /\ ParseAndPublish(m.uri, Opened(m.uri, Unparsed(m.version, m.content)))
  /\ UNCHANGED <<init_, answers>>

DidChange(m) ==
  /\ Receive(m, "didChange") /\ Accepts(m)
  /\ docs_' = [docs_ EXCEPT ![m.uri] =
                 IF Exists(m.uri) THEN Updated(@, m.version, m.content)
                 ELSE Unparsed(m.version, m.content)]
  /\ UNCHANGED <<init_, threadPool, outputVars>>

DidSave(m) ==
  /\ Receive(m, "didSave") /\ Accepts(m)
  /\ Exists(m.uri) /\ SameVersion(docs_[m.uri], m.version)
  /\ ParseAndPublish(m.uri, docs_[m.uri])
  /\ UNCHANGED <<init_, answers>>

\* save_doc returns true without parsing, and the diagnostics are cleared.
DidSaveOther(m) ==
  /\ Receive(m, "didSave") /\ Accepts(m)
  /\ Exists(m.uri) /\ ~SameVersion(docs_[m.uri], m.version)
  /\ shown' = [shown EXCEPT ![m.uri] = 0]
  /\ UNCHANGED <<serverVars, answers>>

DidSaveUnknown(m) ==
  /\ Receive(m, "didSave") /\ Accepts(m) /\ ~Exists(m.uri)
  /\ UNCHANGED <<serverVars, outputVars>>

\* Answers from what the last successful parse left, null if there is none.
Definition(m) ==
  /\ Receive(m, "definition") /\ Accepts(m)
  /\ answers' = Answer(m)
  /\ UNCHANGED <<serverVars, shown>>

\* Reads the words before the cursor with a parser of their own, which
\* allocates from the pool the last parse left as the thread's.
CompletionAllocates(m) == Exists(m.uri)
Completion(m) ==
  /\ Receive(m, "completion") /\ Accepts(m)
  /\ answers' = Answer(m)
  /\ UNCHANGED <<serverVars, shown>>

Handle ==
  \/ Ignored \/ Unhandled
  \/ \E m \in {inbox[i] : i \in DOMAIN inbox} :
       \/ Initialize(m) \/ Definition(m) \/ Completion(m)
       \/ DidOpen(m) \/ DidChange(m)
       \/ DidSave(m) \/ DidSaveOther(m) \/ DidSaveUnknown(m)

Editor ==
  \E u \in Uris :
    \/ \E method \in Requests : EditorRequest(method, u)
    \/ \E c \in Contents : EditorOpen(u, c) \/ EditorChange(u, c)
    \/ EditorSave(u) \/ EditorLateSave(u) \/ EditorClose(u)

Next == Handle \/ Editor

Spec == Init /\ [][Next]_vars /\ WF_vars(Handle)

-------------------------------------------------------------------------------

Quiet(u) == \A i \in DOMAIN inbox : inbox[i].uri = u => inbox[i].method \in Requests
Tracked(u) == buffer[u].open /\ ~buffer[u].early
AtRest(u) == Quiet(u) /\ Tracked(u) /\ saved[u] = buffer[u].version

(* When nothing for a document is queued, the server has the text the user   *)
(* sees, also after it was closed and opened again with an older version.    *)
DocsInSync ==
  \A u \in Uris : Quiet(u) /\ Tracked(u) =>
    /\ docs_[u].version = buffer[u].version
    /\ docs_[u].content = buffer[u].content

(* A document that parses and was saved as it is, is the one definitions and *)
(* completions are looked up in.                                             *)
SavedIsAnalysed ==
  \A u \in Uris : AtRest(u) /\ buffer[u].content = "good" =>
    docs_[u].analysed = [version |-> buffer[u].version, content |-> "good"]

(* The errors of its own that a saved document has are displayed, for that   *)
(* version, and a document that parses shows none.                           *)
SavedIsDiagnosed ==
  \A u \in Uris : AtRest(u) =>
    /\ buffer[u].content = "bad" => shown[u] = buffer[u].version
    /\ buffer[u].content = "good" => shown[u] = 0

(* The thread-specific current pool (PoolAlloc.cpp) is one that exists when  *)
(* a completion allocates from it.                                           *)
CurrentPoolExists ==
  [][\A m \in {inbox[i] : i \in DOMAIN inbox} :
       Completion(m) /\ CompletionAllocates(m) => threadPool # "deleted"]_vars

-------------------------------------------------------------------------------
(* What the three invariants of documents rest on, while messages for them   *)
(* are still queued.                                                         *)
Texts == {"didOpen", "didChange"}
Message == [method : Requests \cup Texts \cup {"didSave", "didClose"}, uri : Uris,
            version : Nat, content : Contents, id : Nat]
Doc == [version : Nat, content : Contents, analysed : [version : Nat, content : Contents]]
Buffer == [open : BOOLEAN, early : BOOLEAN, version : Nat, content : Contents]

TypeOK ==
  /\ inbox \in Seq(Message)
  /\ init_ \in BOOLEAN
  /\ docs_ \in [Uris -> Doc]
  /\ threadPool \in Uris \cup {"default", "deleted"}
  /\ buffer \in [Uris -> Buffer]
  /\ saved \in [Uris -> Nat]
  /\ shown \in [Uris -> Nat]
  /\ answers \in Seq(Nat)
  /\ lastId \in Nat

\* The server is initialised before the first document it has to keep.
ServesTracked ==
  /\ Ready => init_
  /\ \A u \in Uris : Tracked(u) => init_

SavedBefore ==
  \A u \in Uris : buffer[u].open => 1 <= saved[u] /\ saved[u] <= buffer[u].version

\* The positions of the messages for u in a queue, of some methods.
Queued(queue, u, methods) ==
  {i \in DOMAIN queue : queue[i].uri = u /\ queue[i].method \in methods}

\* After the last time u was opened, its texts are newer and newer, up to what
\* the user sees.
TextsInOrder(u) ==
  \A i \in Queued(inbox, u, Texts) : (\A k \in Queued(inbox, u, {"didOpen"}) : k <= i) =>
    /\ 1 <= inbox[i].version /\ inbox[i].version <= buffer[u].version
    /\ \A j \in Queued(inbox, u, Texts) : i < j => inbox[i].version < inbox[j].version
LastTextIsBuffer(u) ==
  \A i \in Queued(inbox, u, Texts) : (\A j \in Queued(inbox, u, Texts) : j <= i) =>
    inbox[i].version = buffer[u].version /\ inbox[i].content = buffer[u].content

\* Unless u is to be opened again, the server's text is older than all queued.
ServerIsBehind(u) ==
  Queued(inbox, u, {"didOpen"}) = {} =>
    /\ 1 <= docs_[u].version
    /\ \A i \in Queued(inbox, u, Texts) : docs_[u].version < inbox[i].version
    /\ Queued(inbox, u, Texts) = {} =>
         docs_[u].version = buffer[u].version /\ docs_[u].content = buffer[u].content

\* The text that was saved as it is has been parsed, or will be by a message
\* that only saves of that version follow.
IsParsed(u) ==
  /\ buffer[u].content = "good" =>
       /\ docs_[u].analysed = [version |-> buffer[u].version, content |-> "good"]
       /\ shown[u] = 0
  /\ buffer[u].content = "bad" => shown[u] = buffer[u].version
SettledAfter(u, i) ==
  \A j \in Queued(inbox, u, Texts \cup {"didSave"}) :
    i < j => inbox[j].method = "didSave" /\ inbox[j].version = buffer[u].version
WillBeParsed(u) ==
  \E i \in Queued(inbox, u, {"didOpen", "didSave"}) :
    inbox[i].version = buffer[u].version /\ SettledAfter(u, i)
SaveArrives(u) ==
  saved[u] = buffer[u].version => (IsParsed(u) /\ SettledAfter(u, 0)) \/ WillBeParsed(u)

Follows(u) ==
  TextsInOrder(u) /\ LastTextIsBuffer(u) /\ ServerIsBehind(u) /\ SaveArrives(u)
GlsldIInv ==
  /\ TypeOK /\ ServesTracked /\ SavedBefore
  /\ \A u \in Uris : Tracked(u) => Follows(u)
=============================================================================
