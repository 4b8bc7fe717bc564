----------------------------- MODULE NaClBridge -----------------------------
(***************************************************************************)
(* The request/response bridge between a web page and a Portable Native    *)
(* Client module: thrift_nacl.js and hello_world.js on the page,           *)
(* thrift_nacl.cc, thrift_nacl.h and the registered handlers in the        *)
(* module.                                                                 *)
(*                                                                         *)
(* The page and the module are two sequential actors joined by two FIFO    *)
(* channels, the browser's postMessage queues.  The JavaScript event loop  *)
(* and the module's main thread each run a handler to its end, so each     *)
(* handler is one action.  A request is a record of what the code tells    *)
(* apart: the message type, how the data behaves when it is read, and      *)
(* which callbacks the caller passed.                                      *)
(***************************************************************************)
EXTENDS Naturals, Sequences, FiniteSets

CONSTANTS
  Types,          \* the strings used as message types
  NotAString,     \* a message type that is not a string
  Handlers,       \* the wrapped handler functions
  None,           \* no handler, no entry, no id
  Registrations,  \* <<type, handler>> pairs of the static initialisers
  Requests,       \* the requests the page may make
  MaxMessages     \* bound: requests made in one behaviour

Callbacks == {"onSuccess", "onError"}

\* "readable" data is a dictionary the generated read() accepts, "malformed"
\* data a dictionary it throws on, "notDictionary" anything else.
DataKinds == {"readable", "malformed", "notDictionary"}

AllRequests ==
  [type : Types \cup {NotAString}, data : DataKinds, callbacks : SUBSET Callbacks]

ASSUME BridgeAssumption ==
  /\ MaxMessages \in Nat
  /\ NotAString \notin Types
  /\ None \notin Handlers
  /\ None \notin Callbacks /\ \A cbs \in SUBSET Callbacks : cbs # None
  /\ None \notin Nat
  /\ Registrations \subseteq Types \X Handlers
  /\ Requests \subseteq AllRequests

Ids == 1 .. MaxMessages

VARIABLES
  \* the native module
  toRegister,     \* static initialisers that have not run yet
  handlerMap,     \* GetMessageHandlerMap()
  instance,       \* "loading", "running" or "crashed"
  \* the page
  isLoaded,       \* hello_world.js: the load event was seen
  messageMap,     \* callbacks of each message id
  nextMessageId,
  \* the browser's queues
  toModule,
  toPage,
  \* history, read by no action
  posted,         \* the requests made; the id of a request is its index
  calls,          \* the callbacks invoked, in order
  orphans         \* requests whose answer made the page throw

moduleVars == <<toRegister, handlerMap, instance>>
history == <<posted, calls, orphans>>
vars == <<toRegister, handlerMap, instance, isLoaded, messageMap,
          nextMessageId, toModule, toPage, posted, calls, orphans>>

Init ==
  /\ toRegister = Registrations
  /\ handlerMap = [t \in Types |-> None]
  /\ instance = "loading"
  /\ isLoaded = FALSE
  /\ messageMap = [id \in Ids |-> None]
  /\ nextMessageId = 1
  /\ toModule = <<>>
  /\ toPage = <<>>
  /\ posted = <<>>
  /\ calls = <<>>
  /\ orphans = {}

-----------------------------------------------------------------------------
(* Mutated forms of the definitions below: plausible slips in this code. *)

\* the instance answers before every static initialiser has run
EarlyCreateInstance ==
  /\ instance = "loading"
  /\ instance' = "running"
  /\ UNCHANGED <<toRegister, handlerMap, isLoaded, messageMap, nextMessageId,
                 toModule, toPage, history>>

\* the id is advanced twice
SkippingPostMessage(r) ==
  /\ messageMap' = [messageMap EXCEPT ![nextMessageId] = r.callbacks]
  /\ nextMessageId' = nextMessageId + 2
  /\ toModule' = Append(toModule, [id |-> nextMessageId, type |-> r.type, data |-> r.data])
  /\ posted' = Append(posted, r)

\* one response is posted twice
DoubleRespond(response) == toPage' = toPage \o <<response, response>>

\* whatever has a success callback is a success
CarelessCallback(response, cbs) ==
  IF "onSuccess" \in cbs THEN "onSuccess"
  ELSE IF "onError" \in cbs THEN "onError"
  ELSE None

\* an error is reported only to callers that pass no success callback
QuietCallback(response, cbs) ==
  IF "onSuccess" \in cbs THEN IF response.kind = "data" THEN "onSuccess" ELSE None
  ELSE IF "onError" \in cbs THEN "onError"
  ELSE None

\* whoever has an error callback gets it called, after a success as well
FallThroughDeliver(response) ==
  /\ response.id \in Ids
  /\ messageMap[response.id] # None
  /\ LET cbs == messageMap[response.id]
         call(fn) == [id |-> response.id, fn |-> fn, kind |-> response.kind,
                      by |-> response.by, of |-> response.of]
     IN  calls' = calls \o (IF response.kind = "data" /\ "onSuccess" \in cbs
                            THEN <<call("onSuccess")>> ELSE <<>>)
                        \o (IF "onError" \in cbs THEN <<call("onError")>> ELSE <<>>)
  /\ UNCHANGED orphans

\* the answer to an unknown type loses its id
AnonymousUnknownType(m) ==
  /\ m.type \in Types /\ m.data # "notDictionary"
  /\ handlerMap[m.type] = None
  /\ toPage' = Append(toPage, [id |-> None, kind |-> "error", by |-> None, of |-> m.id])
  /\ UNCHANGED instance

-----------------------------------------------------------------------------
(* The native module *)

\* RegisterMessageHandler, run by the static initialisers that
\* REGISTER_MESSAGE_HANDLER declares, in any order: std::map::insert keeps the
\* entry that is already there.
RegisterMessageHandler(type, handler) ==
  /\ <<type, handler>> \in toRegister
  /\ toRegister' = toRegister \ {<<type, handler>>}
  /\ handlerMap' = [handlerMap EXCEPT ![type] = IF @ = None THEN handler ELSE @]
  /\ UNCHANGED <<instance, isLoaded, messageMap, nextMessageId, toModule, toPage, history>>

\* The browser calls CreateModule and CreateInstance once the static
\* initialisers have run.
CreateInstance ==
  /\ instance = "loading"
  /\ toRegister = {}
  /\ instance' = "running"
  /\ UNCHANGED <<toRegister, handlerMap, isLoaded, messageMap, nextMessageId,
                 toModule, toPage, history>>

\* A request is valid when its type is a string and its data a dictionary; the
\* id the page sends is always a string.
ParseMessage(m) == m.type \in Types /\ m.data # "notDictionary"

Respond(response) == toPage' = Append(toPage, response)

\* Every response carries, for the properties only, the request it answers
\* ("of") and the handler that computed it ("by").
Response(id, kind, by, of) == [id |-> id, kind |-> kind, by |-> by, of |-> of]

\* HandleMessage: the answer to an invalid message has no id.
HandleInvalid(m) ==
  /\ ~ParseMessage(m)
  /\ Respond(Response(None, "error", None, m.id))
  /\ UNCHANGED instance

HandleUnknownType(m) ==
  /\ ParseMessage(m)
  /\ handlerMap[m.type] = None
  /\ Respond(Response(m.id, "error", None, m.id))
  /\ UNCHANGED instance

\* MAKE_HANDLER_WRAPPER: read the request, call the handler, write the response
\* or the error it fills in.
HandleRequest(m) ==
  /\ ParseMessage(m)
  /\ handlerMap[m.type] # None
  /\ m.data = "readable"
  /\ \E kind \in {"data", "error"} :
        Respond(Response(m.id, kind, handlerMap[m.type], m.id))
  /\ UNCHANGED instance

\* The wrapper catches nothing: read() throws on malformed data, and whatever the
\* data, the handler may throw, or write() on a value it cannot represent.  The
\* exception ends the module.
WrapperThrows(m) ==
  /\ ParseMessage(m)
  /\ handlerMap[m.type] # None
  /\ instance' = "crashed"
  /\ UNCHANGED toPage

HandleMessage ==
  /\ instance = "running"
  /\ toModule # <<>>
  /\ \/ HandleInvalid(Head(toModule))
     \/ HandleUnknownType(Head(toModule))
     \/ HandleRequest(Head(toModule))
     \/ WrapperThrows(Head(toModule))
  /\ toModule' = Tail(toModule)
  /\ UNCHANGED <<toRegister, handlerMap, isLoaded, messageMap, nextMessageId, history>>

-----------------------------------------------------------------------------
(* The page *)

\* hello_world.js: the embed element's load event.
moduleDidLoad ==
  /\ instance # "loading"
  /\ ~isLoaded
  /\ isLoaded' = TRUE
  /\ UNCHANGED <<moduleVars, messageMap, nextMessageId, toModule, toPage, history>>

\* NaClModule.postMessage, after its check for a duplicate id.
postMessage(r) ==
  /\ messageMap' = [messageMap EXCEPT ![nextMessageId] = r.callbacks]
  /\ nextMessageId' = nextMessageId + 1
  /\ toModule' = Append(toModule, [id |-> nextMessageId, type |-> r.type, data |-> r.data])
  /\ posted' = Append(posted, r)

\* hello_world.js: nothing is sent before the module is loaded.  A duplicate id
\* makes postMessage throw before it changes anything.
onFormSubmit(r) ==
  /\ isLoaded
  /\ Len(posted) < MaxMessages
  /\ messageMap[nextMessageId] = None
  /\ postMessage(r)
  /\ UNCHANGED <<moduleVars, isLoaded, toPage, calls, orphans>>

\* Which callback a response invokes: onSuccess needs data, and whatever is not
\* given to onSuccess goes to onError, a success nobody waits for included.
Callback(response, cbs) ==
  IF response.kind = "data" /\ "onSuccess" \in cbs THEN "onSuccess"
  ELSE IF "onError" \in cbs THEN "onError"
  ELSE None

\* NaClModule.handleMessage for an id in messageMap.  Its delete names the id
\* of the event, which has none, so messageMap keeps the entry.
DeliverResponse(response) ==
  /\ response.id \in Ids
  /\ messageMap[response.id] # None
  /\ LET fn == Callback(response, messageMap[response.id])
     IN  calls' = IF fn = None THEN calls
                  ELSE Append(calls, [id |-> response.id, fn |-> fn, kind |-> response.kind,
                                      by |-> response.by, of |-> response.of])
  /\ UNCHANGED orphans

\* NaClModule.handleMessage for any other id: it throws.
UnknownId(response) ==
  /\ response.id \notin {id \in Ids : messageMap[id] # None}
  /\ orphans' = orphans \cup {response.of}
  /\ UNCHANGED calls

handleMessage ==
  /\ toPage # <<>>
  /\ \/ DeliverResponse(Head(toPage))
     \/ UnknownId(Head(toPage))
  /\ toPage' = Tail(toPage)
  /\ UNCHANGED <<moduleVars, isLoaded, messageMap, nextMessageId, toModule, posted>>

-----------------------------------------------------------------------------
Next ==
  \/ \E reg \in Registrations : RegisterMessageHandler(reg[1], reg[2])
  \/ CreateInstance
  \/ HandleMessage
  \/ moduleDidLoad
  \/ \E r \in Requests : onFormSubmit(r)
  \/ handleMessage

\* The browser delivers every queued message while its receiver runs; nothing
\* obliges the user to submit, or the module to finish loading.
Fairness == WF_vars(HandleMessage) /\ WF_vars(handleMessage)

Spec == Init /\ [][Next]_vars /\ Fairness

-----------------------------------------------------------------------------
(* Properties *)

ModuleMessages == [id : Ids, type : Types \cup {NotAString}, data : DataKinds]
PageMessages == [id : Ids \cup {None}, kind : {"data", "error"},
                 by : Handlers \cup {None}, of : Ids]
Invocations == [id : Ids, fn : Callbacks, kind : {"data", "error"},
                by : Handlers \cup {None}, of : Ids]

\* Every variable of the page, the module and the queues keeps its type; the
\* ids stay within what nextMessageId has given out.
TypeOK ==
  /\ toRegister \subseteq Registrations
  /\ handlerMap \in [Types -> Handlers \cup {None}]
  /\ instance \in {"loading", "running", "crashed"}
  /\ isLoaded \in BOOLEAN
  /\ messageMap \in [Ids -> {None} \cup SUBSET Callbacks]
  /\ nextMessageId \in 1 .. MaxMessages + 1
  /\ toModule \in Seq(ModuleMessages)
  /\ toPage \in Seq(PageMessages)
  /\ posted \in Seq(Requests)
  /\ calls \in Seq(Invocations)
  /\ orphans \subseteq Ids

\* Callbacks are invoked in the order of the requests, and so at most once for
\* each: handleMessage never removes an entry of messageMap, so only the
\* module's one answer per request and the order of the queues ensure it.
InOrder == \A i, j \in DOMAIN calls : i < j => calls[i].id < calls[j].id

\* A callback is one its request passed, and gets the answer computed from that
\* request by a handler registered for its type; onSuccess gets data only, and
\* onError gets an error unless the request has no onSuccess.
Correlated ==
  \A i \in DOMAIN calls :
    LET c == calls[i]
        r == posted[c.id]
    IN  /\ c.of = c.id
        /\ c.fn \in r.callbacks
        /\ c.by # None => <<r.type, c.by>> \in Registrations
        /\ c.fn = "onSuccess" => c.kind = "data" /\ c.by # None
        /\ c.fn = "onError" => c.kind = "error" \/ "onSuccess" \notin r.callbacks

\* No request is told its type is unknown when some static initialiser
\* registers that type: registration is complete before the first request.
UnknownMeansUnregistered ==
  \A i \in DOMAIN calls :
    calls[i].by = None =>
      \A h \in Handlers : <<posted[calls[i].id].type, h>> \notin Registrations

Called(id) == \E i \in DOMAIN calls : calls[i].id = id
InFlight(id) == \/ \E i \in DOMAIN toModule : toModule[i].id = id
                \/ \E i \in DOMAIN toPage : toPage[i].of = id
Valid(r) == r.type \in Types /\ r.data # "notDictionary"

\* The module crashed while it handled this request: a handler is registered for
\* it, no callback was invoked, and every later request is still in the queue.
CrashedOn(id) ==
  /\ instance = "crashed"
  /\ Valid(posted[id]) /\ \E h \in Handlers : <<posted[id].type, h>> \in Registrations
  /\ ~Called(id) /\ id \notin orphans
  /\ \A later \in id + 1 .. nextMessageId - 1 :
       \E i \in DOMAIN toModule : toModule[i].id = later

\* Whatever left the queues reached its caller: a request no longer in flight had
\* a callback invoked, passed none for its outcome, was invalid and made the page
\* throw, or is the one request that crashed the module.
EveryAnswerSurfaces ==
  \A id \in 1 .. nextMessageId - 1 :
    ~InFlight(id) =>
      \/ Valid(posted[id]) /\ Called(id) /\ id \notin orphans
      \/ Valid(posted[id]) /\ "onError" \notin posted[id].callbacks /\ id \notin orphans
      \/ ~Valid(posted[id]) /\ ~Called(id) /\ id \in orphans
      \/ CrashedOn(id)

\* A valid request with both callbacks gets one of them called, unless the
\* module crashes first.
Answered ==
  \A id \in Ids :
    (/\ id < nextMessageId
     /\ Valid(posted[id])
     /\ posted[id].callbacks = Callbacks) ~> (Called(id) \/ instance = "crashed")

\* What the callers see: the callbacks they passed, and every invocation of one.
CallsMade == [id \in DOMAIN posted |-> posted[id].callbacks]
CallsCompleted == [i \in DOMAIN calls |-> [id |-> calls[i].id, fn |-> calls[i].fn]]

Calls == INSTANCE AsyncCall WITH made <- CallsMade, completed <- CallsCompleted

\* The two actors and their queues implement asynchronous calls that complete in
\* order, at most once, and by a callback of their own.
ImplementsAsyncCall == Calls!Spec

\* handleMessage's "Received message with unknown id" is never reached: the
\* module answers only messages the page is waiting for, under their id.
NoUnknownId == orphans = {}
=============================================================================
