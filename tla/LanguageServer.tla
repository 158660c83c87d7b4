--------------------------- MODULE LanguageServer ---------------------------
(***************************************************************************)
(* The language server (jett_lsp): a store of open documents, and handlers *)
(* of the messages of a client.  tower-lsp decides which handlers run and  *)
(* in what order they go on after an await; here any of those under way    *)
(* may take the next step, at most Concurrency at a time.                  *)
(***************************************************************************)
EXTENDS Queries

CONSTANTS
  Documents,     \* URIs
  Typed,         \* the texts a client sends
  Concurrency,   \* handlers that run at a time (external: tower-lsp)
  MaxMessages    \* bound: messages of the client

VARIABLES
  documents,  \* the store: URI -> text, Closed for none
  handlers,   \* handlers under way: id -> what it does next
  shown,      \* the diagnostics the client shows, Unshown before any
  opened,     \* URI -> the text the client has there, Closed for none
  overlap,    \* URIs two of whose handlers were under way at once
  answer,     \* the answer to a request, until the next step
  messages    \* how many were sent

server == <<documents, handlers, shown, opened, overlap, answer, messages>>

Closed == [syntax |-> "closed", tidy |-> TRUE, lines |-> <<>>]
ASSUME TextsAreOpen == Closed \notin Typed
Unshown == {[code |-> "unshown", file |-> 0, line |-> 0]}
NoAnswer == [op |-> "none"]

Handling(uri) == {h \in DOMAIN handlers : handlers[h].uri = uri}
Sent(kind, uri, texts) ==
  /\ messages < MaxMessages     \* bound
  /\ Cardinality(DOMAIN handlers) < Concurrency
  /\ messages' = messages + 1
  /\ handlers' = [h \in DOMAIN handlers \union {messages + 1} |->
       IF h \in DOMAIN handlers THEN handlers[h]
       ELSE [kind |-> kind, uri |-> uri, texts |-> texts, stored |-> FALSE]]
  /\ overlap' = IF Handling(uri) # {} THEN overlap \union {uri} ELSE overlap
  /\ answer' = NoAnswer
  /\ UNCHANGED <<documents, shown>>

\* The client opens, changes and closes documents.  A change carries one or
\* more texts, each replacing the whole document, the last one to stay: here
\* the new text, or what the client had and then the new text.
ClientOpens ==
  \E uri \in Documents, text \in Typed :
    /\ opened[uri] = Closed
    /\ opened' = [opened EXCEPT ![uri] = text]
    /\ Sent("open", uri, <<text>>)
ClientChanges ==
  \E uri \in Documents, text \in Typed :
    /\ opened[uri] \notin {Closed, text}
    /\ opened' = [opened EXCEPT ![uri] = text]
    /\ \/ Sent("change", uri, <<text>>)
       \/ Sent("change", uri, <<opened[uri], text>>)
ClientCloses ==
  \E uri \in Documents :
    /\ opened[uri] # Closed
    /\ opened' = [opened EXCEPT ![uri] = Closed]
    /\ Sent("close", uri, <<>>)

Ended(h) == handlers' = [k \in DOMAIN handlers \ {h} |-> handlers[k]]

\* did_open and did_change: the text is stored under the lock and validated;
\* to publish what that found is another await.
Store(h) ==
  /\ handlers[h].kind \in {"open", "change"} /\ ~handlers[h].stored
  /\ documents' = [documents EXCEPT ![handlers[h].uri] =
                     Last(handlers[h].texts)]
  /\ handlers' = [handlers EXCEPT ![h].stored = TRUE]
  /\ answer' = NoAnswer
  /\ UNCHANGED <<shown, opened, overlap, messages>>

Diagnosed == [text \in Typed |-> BuildSource(text)]
\* Mutant: the first text of a change counts.
ValidatedFirst(h) == Diagnosed[Head(handlers[h].texts)]
Validated(h) == Diagnosed[Last(handlers[h].texts)]
Publish(h) ==
  /\ handlers[h].stored
  /\ shown' = [shown EXCEPT ![handlers[h].uri] = Validated(h)]
  /\ Ended(h)
  /\ answer' = NoAnswer
  /\ UNCHANGED <<documents, opened, overlap, messages>>

\* did_close forgets the text; what is shown stays.
Forget(h) ==
  /\ handlers[h].kind = "close"
  /\ documents' = [documents EXCEPT ![handlers[h].uri] = Closed]
  /\ Ended(h)
  /\ answer' = NoAnswer
  /\ UNCHANGED <<shown, opened, overlap, messages>>

\* A request is answered from the store in one step, under the read lock.
\* It changes nothing, so none needs to be followed by another.
Respond(op, uri, at, result) ==
  /\ answer = NoAnswer
  /\ answer' = [op |-> op, text |-> documents[uri], at |-> at,
                result |-> result]
  /\ UNCHANGED <<documents, handlers, shown, opened, overlap, messages>>
Hover ==
  \E uri \in Documents : \E at \in Positions(documents[uri]) :
    Respond("hover", uri, at, HoverType(documents[uri], at))
Goto ==
  \E uri \in Documents : \E at \in Positions(documents[uri]) :
    Respond("goto", uri, at, GotoDefinition(documents[uri], at))
Completion ==
  \E uri \in Documents : \E at \in Positions(documents[uri]) :
    Respond("completion", uri, at, CompletionsAt(documents[uri], at))

ServerInit ==
  /\ documents = [uri \in Documents |-> Closed]
  /\ handlers = <<>>
  /\ shown = [uri \in Documents |-> Unshown]
  /\ opened = [uri \in Documents |-> Closed]
  /\ overlap = {} /\ answer = NoAnswer /\ messages = 0

Handle == \E h \in DOMAIN handlers : Store(h) \/ Publish(h) \/ Forget(h)
ServerNext ==
  \/ ClientOpens \/ ClientChanges \/ ClientCloses
  \/ Handle \/ Hover \/ Goto \/ Completion
=============================================================================
