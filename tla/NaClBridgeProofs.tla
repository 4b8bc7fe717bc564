-------------------------- MODULE NaClBridgeProofs --------------------------
(* Proofs about NaClBridge, for any types, handlers, registrations and       *)
(* requests, and any number of messages.                                     *)
EXTENDS NaClBridge, SequenceTheorems, TLAPS

-----------------------------------------------------------------------------
(* The invariant *)

\* The request that was being handled when the module crashed has no answer.
Lost == IF instance = "crashed" THEN 1 ELSE 0

\* The last request the module has taken from its queue and answered, and the
\* last one whose answer the page has taken from its queue.
LastHandled == nextMessageId - 1 - Len(toModule) - Lost
LastSeen == LastHandled - Len(toPage)

\* The two queues and the history form one pipeline: the queues hold consecutive
\* requests, oldest first, and the callbacks already invoked are older than
\* everything in the queues.
Numbered == Len(posted) = nextMessageId - 1
ModuleQueue ==
  \A i \in DOMAIN toModule : toModule[i].id = nextMessageId - 1 - Len(toModule) + i
PageQueue ==
  \A i \in DOMAIN toPage : /\ toPage[i].of = LastSeen + i
                           /\ toPage[i].id \in {None, toPage[i].of}
CallsSeen == \A i \in DOMAIN calls : calls[i].id <= LastSeen

Pipeline == Numbered /\ ModuleQueue /\ PageQueue /\ CallsSeen /\ InOrder
BridgeInv == TypeOK /\ Pipeline

LEMMA BridgeInit == Init => BridgeInv
<1> SUFFICES ASSUME Init PROVE BridgeInv
  OBVIOUS
<1>1. /\ toModule = <<>> /\ toPage = <<>> /\ calls = <<>> /\ posted = <<>>
      /\ nextMessageId = 1
  BY DEF Init
<1>2. Pipeline
  BY <1>1 DEF Pipeline, Numbered, ModuleQueue, PageQueue, CallsSeen, InOrder
<1>3. nextMessageId \in 1 .. MaxMessages + 1
  BY <1>1, BridgeAssumption
<1>4. /\ handlerMap \in [Types -> Handlers \cup {None}]
      /\ messageMap \in [Ids -> {None} \cup SUBSET Callbacks]
      /\ toRegister \subseteq Registrations
      /\ instance \in {"loading", "running", "crashed"}
      /\ isLoaded \in BOOLEAN
      /\ orphans \subseteq Ids
  BY DEF Init
<1> QED BY <1>1, <1>2, <1>3, <1>4 DEF BridgeInv, TypeOK

\* Registration and loading touch neither queue nor history.
LEMMA LoadStep ==
  ASSUME BridgeInv,
         \/ \E reg \in Registrations : RegisterMessageHandler(reg[1], reg[2])
         \/ CreateInstance
         \/ moduleDidLoad
  PROVE  BridgeInv'
<1> USE DEF BridgeInv, TypeOK, Pipeline, Numbered, ModuleQueue, PageQueue, CallsSeen,
            InOrder, LastSeen, LastHandled, Lost, history, moduleVars
<1>1. ASSUME NEW reg \in Registrations, RegisterMessageHandler(reg[1], reg[2])
      PROVE  BridgeInv'
  <2>1. reg[1] \in Types /\ reg[2] \in Handlers
    BY BridgeAssumption
  <2>2. handlerMap' \in [Types -> Handlers \cup {None}]
    BY <1>1, <2>1 DEF RegisterMessageHandler
  <2> QED BY <1>1, <2>2 DEF RegisterMessageHandler
<1>2. CASE CreateInstance
  BY <1>2 DEF CreateInstance
<1>3. CASE moduleDidLoad
  BY <1>3 DEF moduleDidLoad
<1> QED BY <1>1, <1>2, <1>3

\* A request gets the next number and the last place of the module's queue.
LEMMA SubmitStep ==
  ASSUME BridgeInv, NEW r \in Requests, onFormSubmit(r)
  PROVE  BridgeInv'
<1> DEFINE m == [id |-> nextMessageId, type |-> r.type, data |-> r.data]
<1>0. /\ nextMessageId \in Nat /\ nextMessageId \in Ids
      /\ MaxMessages \in Nat /\ r \in AllRequests
  BY BridgeAssumption DEF BridgeInv, TypeOK, Pipeline, Numbered, onFormSubmit, Ids
<1>1. /\ toModule' = Append(toModule, m) /\ posted' = Append(posted, r)
      /\ nextMessageId' = nextMessageId + 1
      /\ messageMap' = [messageMap EXCEPT ![nextMessageId] = r.callbacks]
      /\ UNCHANGED <<toRegister, handlerMap, instance, isLoaded, toPage, calls, orphans>>
  BY DEF onFormSubmit, postMessage, moduleVars
<1>2. m \in ModuleMessages
  BY <1>0 DEF ModuleMessages, AllRequests
<1>3. toModule \in Seq(ModuleMessages) /\ toPage \in Seq(PageMessages)
      /\ posted \in Seq(Requests) /\ calls \in Seq(Invocations)
  BY DEF BridgeInv, TypeOK
<1>4. /\ toModule' \in Seq(ModuleMessages)
      /\ Len(toModule') = Len(toModule) + 1
      /\ \A i \in 1 .. Len(toModule) : toModule'[i] = toModule[i]
      /\ toModule'[Len(toModule) + 1] = m
  BY <1>1, <1>2, <1>3, AppendProperties
<1>5. posted' \in Seq(Requests) /\ Len(posted') = Len(posted) + 1
  BY <1>1, <1>3, AppendProperties
<1>6. /\ Len(toModule) \in Nat /\ Len(posted) \in Nat /\ Len(toPage) \in Nat
      /\ DOMAIN toModule = 1 .. Len(toModule)
      /\ DOMAIN toModule' = 1 .. Len(toModule')
  BY <1>3, <1>4
<1>7. TypeOK'
  <2>1. messageMap' \in [Ids -> {None} \cup SUBSET Callbacks]
    BY <1>0, <1>1 DEF BridgeInv, TypeOK, AllRequests
  <2>2. nextMessageId' \in 1 .. MaxMessages + 1
    BY <1>0, <1>1 DEF Ids
  <2> QED BY <1>1, <1>4, <1>5, <2>1, <2>2 DEF BridgeInv, TypeOK
<1>8. Numbered'
  BY <1>0, <1>1, <1>5, <1>6 DEF BridgeInv, Pipeline, Numbered
<1>9. ModuleQueue'
  BY <1>0, <1>1, <1>4, <1>6 DEF BridgeInv, Pipeline, ModuleQueue
<1>10. LastSeen' = LastSeen
  BY <1>0, <1>1, <1>4, <1>6 DEF LastSeen, LastHandled, Lost
<1>11. PageQueue' /\ CallsSeen' /\ InOrder'
  BY <1>1, <1>10 DEF BridgeInv, Pipeline, PageQueue, CallsSeen, InOrder
<1> QED BY <1>7, <1>8, <1>9, <1>11 DEF BridgeInv, Pipeline

\* The module takes the oldest request and answers it, or crashes on it.
LEMMA HandleStep ==
  ASSUME BridgeInv, HandleMessage
  PROVE  BridgeInv'
<1> DEFINE m == Head(toModule)
<1>1. /\ toModule # <<>> /\ toModule' = Tail(toModule) /\ instance = "running"
      /\ UNCHANGED <<toRegister, handlerMap, isLoaded, messageMap, nextMessageId,
                     posted, calls, orphans>>
  BY DEF HandleMessage, history
<1>2. /\ toModule \in Seq(ModuleMessages) /\ toPage \in Seq(PageMessages)
      /\ nextMessageId \in Nat
      /\ handlerMap \in [Types -> Handlers \cup {None}]
  BY BridgeAssumption DEF BridgeInv, TypeOK
<1>3. /\ m \in ModuleMessages /\ toModule' \in Seq(ModuleMessages)
      /\ Len(toModule') = Len(toModule) - 1
      /\ \A i \in 1 .. Len(toModule') : toModule'[i] = toModule[i + 1]
      /\ m = toModule[1]
  BY <1>1, <1>2, HeadTailProperties
<1>4. /\ Len(toModule) \in Nat /\ Len(toModule) > 0 /\ Len(toPage) \in Nat
      /\ DOMAIN toModule = 1 .. Len(toModule) /\ DOMAIN toPage = 1 .. Len(toPage)
      /\ DOMAIN toModule' = 1 .. Len(toModule')
  BY <1>1, <1>2, <1>3
<1>5. ModuleQueue'
  BY <1>1, <1>2, <1>3, <1>4 DEF BridgeInv, Pipeline, ModuleQueue
<1>6. m.id = nextMessageId - Len(toModule)
  BY <1>2, <1>3, <1>4 DEF BridgeInv, Pipeline, ModuleQueue
<1>7. CASE WrapperThrows(m)
  <2>1. instance' = "crashed" /\ toPage' = toPage
    BY <1>7 DEF WrapperThrows
  <2>2. LastSeen' = LastSeen
    BY <1>1, <1>2, <1>3, <1>4, <2>1 DEF LastSeen, LastHandled, Lost
  <2> QED BY <1>1, <1>3, <1>5, <2>1, <2>2 DEF BridgeInv, TypeOK, Pipeline, Numbered,
                                              PageQueue, CallsSeen, InOrder
<1>8. CASE HandleInvalid(m) \/ HandleUnknownType(m) \/ HandleRequest(m)
  <2>1. PICK response \in PageMessages :
          /\ toPage' = Append(toPage, response) /\ instance' = instance
          /\ response.of = m.id /\ response.id \in {None, response.of}
    <3>0. m.id \in Ids /\ (m.type \in Types => handlerMap[m.type] \in Handlers \cup {None})
      BY <1>2, <1>3 DEF ModuleMessages
    <3>1. ASSUME NEW id \in {None, m.id}, NEW kind \in {"data", "error"},
                 NEW by \in Handlers \cup {None}
          PROVE  /\ Response(id, kind, by, m.id) \in PageMessages
                 /\ Response(id, kind, by, m.id).of = m.id
                 /\ Response(id, kind, by, m.id).id = id
      BY <3>0 DEF Response, PageMessages
    <3>2. PICK id \in {None, m.id}, kind \in {"data", "error"}, by \in Handlers \cup {None} :
            Respond(Response(id, kind, by, m.id)) /\ instance' = instance
      BY <1>8, <3>0 DEF HandleInvalid, HandleUnknownType, HandleRequest, ParseMessage
    <3> QED BY <3>1, <3>2 DEF Respond
  <2>2. /\ toPage' \in Seq(PageMessages) /\ Len(toPage') = Len(toPage) + 1
        /\ \A i \in 1 .. Len(toPage) : toPage'[i] = toPage[i]
        /\ toPage'[Len(toPage) + 1] = response
    BY <1>2, <2>1, AppendProperties
  <2>3. LastSeen' = LastSeen /\ LastSeen = nextMessageId - 1 - Len(toModule) - Len(toPage)
    BY <1>1, <1>2, <1>3, <1>4, <2>1, <2>2 DEF LastSeen, LastHandled, Lost
  <2>4. DOMAIN toPage' = 1 .. Len(toPage) + 1
    BY <2>2
  <2>5. PageQueue'
    <3> SUFFICES ASSUME NEW i \in 1 .. Len(toPage) + 1
                 PROVE  /\ toPage'[i].of = LastSeen + i
                        /\ toPage'[i].id \in {None, toPage'[i].of}
      BY <2>3, <2>4 DEF PageQueue
    <3>1. CASE i \in 1 .. Len(toPage)
      BY <1>4, <2>2, <3>1 DEF BridgeInv, Pipeline, PageQueue
    <3>2. CASE i = Len(toPage) + 1
      BY <1>2, <1>4, <1>6, <2>1, <2>2, <2>3, <3>2
    <3> QED BY <1>4, <3>1, <3>2
  <2> QED BY <1>1, <1>3, <1>5, <2>1, <2>2, <2>3, <2>5 DEF BridgeInv, TypeOK, Pipeline,
                                                         Numbered, CallsSeen, InOrder
<1> QED BY <1>7, <1>8 DEF HandleMessage

\* The page takes the oldest answer; a callback it invokes is for a younger
\* request than those before it.
LEMMA DeliverStep ==
  ASSUME BridgeInv, handleMessage
  PROVE  BridgeInv'
<1> DEFINE h == Head(toPage)
<1>1. /\ toPage # <<>> /\ toPage' = Tail(toPage)
      /\ UNCHANGED <<toRegister, handlerMap, instance, isLoaded, messageMap,
                     nextMessageId, toModule, posted>>
  BY DEF handleMessage, moduleVars
<1>2. /\ toModule \in Seq(ModuleMessages) /\ toPage \in Seq(PageMessages)
      /\ calls \in Seq(Invocations) /\ nextMessageId \in Nat
      /\ messageMap \in [Ids -> {None} \cup SUBSET Callbacks]
  BY BridgeAssumption DEF BridgeInv, TypeOK
<1>3. /\ h \in PageMessages /\ toPage' \in Seq(PageMessages)
      /\ Len(toPage') = Len(toPage) - 1
      /\ \A i \in 1 .. Len(toPage') : toPage'[i] = toPage[i + 1]
      /\ h = toPage[1]
  BY <1>1, <1>2, HeadTailProperties
<1>4. /\ Len(toModule) \in Nat /\ Len(toPage) \in Nat /\ Len(toPage) > 0
      /\ DOMAIN toPage = 1 .. Len(toPage) /\ DOMAIN toPage' = 1 .. Len(toPage')
      /\ Len(calls) \in Nat /\ DOMAIN calls = 1 .. Len(calls)
  BY <1>1, <1>2, <1>3
<1>5. LastSeen \in Int /\ LastSeen' = LastSeen + 1
  BY <1>1, <1>2, <1>3, <1>4 DEF LastSeen, LastHandled, Lost
<1>6. h.of = LastSeen + 1 /\ h.id \in {None, h.of} /\ h.of \in Ids
  <2>1. h.of \in Ids
    BY <1>3 DEF PageMessages
  <2> QED BY <1>3, <1>4, <2>1 DEF BridgeInv, Pipeline, PageQueue
<1>7. PageQueue'
  <2> SUFFICES ASSUME NEW i \in 1 .. Len(toPage')
               PROVE  /\ toPage'[i].of = LastSeen' + i
                      /\ toPage'[i].id \in {None, toPage'[i].of}
    BY <1>4 DEF PageQueue
  <2>1. i + 1 \in DOMAIN toPage /\ toPage'[i] = toPage[i + 1]
    BY <1>3, <1>4
  <2>2. toPage[i + 1].of = LastSeen + (i + 1) /\ toPage[i + 1].id \in {None, toPage[i + 1].of}
    BY <2>1 DEF BridgeInv, Pipeline, PageQueue
  <2> QED BY <1>5, <2>1, <2>2
<1>8. Numbered' /\ ModuleQueue'
  BY <1>1 DEF BridgeInv, Pipeline, Numbered, ModuleQueue
<1>9. CASE calls' = calls /\ orphans' \subseteq Ids
  <2>1. \A i \in DOMAIN calls : calls[i].id \in Int
    <3>1. \A i \in DOMAIN calls : calls[i] \in Invocations
      BY <1>2
    <3>2. \A c \in Invocations : c.id \in Int
      BY BridgeAssumption DEF Invocations, Ids
    <3> QED BY <3>1, <3>2
  <2>2. CallsSeen' /\ InOrder'
    BY <1>5, <1>9, <2>1 DEF BridgeInv, Pipeline, CallsSeen, InOrder
  <2> QED BY <1>1, <1>3, <1>7, <1>8, <1>9, <2>2 DEF BridgeInv, TypeOK, Pipeline
<1>10. ASSUME NEW c \in Invocations, calls' = Append(calls, c), c.id = h.of, orphans' = orphans
       PROVE  BridgeInv'
  <2>1. /\ calls' \in Seq(Invocations) /\ Len(calls') = Len(calls) + 1
        /\ \A i \in 1 .. Len(calls) : calls'[i] = calls[i]
        /\ calls'[Len(calls) + 1] = c
    BY <1>2, <1>10, AppendProperties
  <2>2. DOMAIN calls' = 1 .. Len(calls) + 1
    BY <2>1
  <2>3. \A i \in 1 .. Len(calls) : calls[i].id \in Int /\ calls[i].id <= LastSeen
    <3>1. \A i \in DOMAIN calls : calls[i] \in Invocations
      BY <1>2
    <3>2. \A d \in Invocations : d.id \in Int
      BY BridgeAssumption DEF Invocations, Ids
    <3> QED BY <1>4, <3>1, <3>2 DEF BridgeInv, Pipeline, CallsSeen
  <2>4. c.id = LastSeen + 1
    BY <1>6, <1>10
  <2>5. CallsSeen'
    BY <1>4, <1>5, <2>1, <2>2, <2>3, <2>4 DEF CallsSeen
  <2>6. InOrder'
    <3> SUFFICES ASSUME NEW i \in 1 .. Len(calls) + 1, NEW j \in 1 .. Len(calls) + 1, i < j
                 PROVE  calls'[i].id < calls'[j].id
      BY <2>2 DEF InOrder
    <3>1. CASE j = Len(calls) + 1
      BY <1>4, <1>5, <2>1, <2>3, <2>4, <3>1
    <3>2. CASE j \in 1 .. Len(calls)
      BY <1>4, <2>1, <3>2 DEF BridgeInv, Pipeline, InOrder
    <3> QED BY <1>4, <3>1, <3>2
  <2> QED BY <1>1, <1>3, <1>7, <1>8, <1>10, <2>1, <2>5, <2>6 DEF BridgeInv, TypeOK, Pipeline
<1>11. CASE UnknownId(h)
  <2>1. calls' = calls /\ orphans' \subseteq Ids
    BY <1>6, <1>11 DEF UnknownId, BridgeInv, TypeOK
  <2> QED BY <1>9, <2>1
<1>12. CASE DeliverResponse(h)
  <2> DEFINE fn == Callback(h, messageMap[h.id])
             c == [id |-> h.id, fn |-> fn, kind |-> h.kind, by |-> h.by, of |-> h.of]
  <2>1. h.id \in Ids /\ orphans' = orphans
        /\ calls' = IF fn = None THEN calls ELSE Append(calls, c)
    BY <1>12 DEF DeliverResponse
  <2>2. h.id = h.of
    BY <1>6, <2>1, BridgeAssumption DEF Ids
  <2>3. CASE fn = None
    BY <1>9, <2>1, <2>3 DEF BridgeInv, TypeOK
  <2>4. CASE fn # None
    <3>1. fn \in Callbacks
      BY <2>4 DEF Callback, Callbacks
    <3>2. c \in Invocations
      BY <1>3, <2>1, <3>1 DEF Invocations, PageMessages
    <3>3. c.id = h.of
      BY <2>2
    <3> QED BY <1>10, <2>1, <2>4, <3>2, <3>3
  <2> QED BY <2>3, <2>4
<1> QED BY <1>11, <1>12 DEF handleMessage

-----------------------------------------------------------------------------
(* Theorems *)

\* Every step of the page and of the module keeps the invariant.
LEMMA BridgeStep == BridgeInv /\ [Next]_vars => BridgeInv'
<1> SUFFICES ASSUME BridgeInv, [Next]_vars PROVE BridgeInv'
  OBVIOUS
<1>1. CASE UNCHANGED vars
  BY <1>1 DEF vars, BridgeInv, TypeOK, Pipeline, Numbered, ModuleQueue, PageQueue,
              CallsSeen, InOrder, LastSeen, LastHandled, Lost
<1>2. CASE Next
  BY <1>2, LoadStep, SubmitStep, HandleStep, DeliverStep DEF Next
<1> QED BY <1>1, <1>2

\* The queues and the history stay one pipeline.
THEOREM BridgeInvariant == Spec => []BridgeInv
BY BridgeInit, BridgeStep, PTL DEF Spec

\* Every variable of the bridge keeps its type.
THEOREM BridgeTypeCorrect == Spec => []TypeOK
<1>1. BridgeInv => TypeOK
  BY DEF BridgeInv
<1> QED BY <1>1, BridgeInvariant, PTL

\* Callbacks are invoked in the order of their requests and at most once each,
\* although the page never forgets an id it has answered.
THEOREM CallbacksInOrder == Spec => []InOrder
<1>1. BridgeInv => InOrder
  BY DEF BridgeInv, Pipeline
<1> QED BY <1>1, BridgeInvariant, PTL

-----------------------------------------------------------------------------
(* What the messages contain *)

\* handlerMap holds registered handlers only, and all types once the module runs.
Registry ==
  /\ \A t \in Types : handlerMap[t] # None => <<t, handlerMap[t]>> \in Registrations
  /\ \A reg \in Registrations : reg \in toRegister \/ handlerMap[reg[1]] # None
  /\ instance # "loading" => toRegister = {}

\* messageMap remembers the callbacks of every request, answered or not.
Mapped ==
  \A id \in Ids : messageMap[id] = IF id < nextMessageId THEN posted[id].callbacks ELSE None

\* A message in the module's queue is the request with its id.
Carried ==
  \A i \in DOMAIN toModule : /\ toModule[i].type = posted[toModule[i].id].type
                             /\ toModule[i].data = posted[toModule[i].id].data

\* The three answers a request r can get.
Refused(a, r) == a.id = None /\ ~Valid(r)
Unknown(a, r) ==
  /\ a.id = a.of /\ Valid(r) /\ a.by = None /\ a.kind = "error"
  /\ \A h \in Handlers : <<r.type, h>> \notin Registrations
Computed(a, r) ==
  a.id = a.of /\ Valid(r) /\ a.by # None /\ <<r.type, a.by>> \in Registrations

Answering ==
  \A i \in DOMAIN toPage :
    LET a == toPage[i]
        r == posted[a.of]
    IN  Refused(a, r) \/ Unknown(a, r) \/ Computed(a, r)

Delivered ==
  \A i \in DOMAIN calls :
    LET c == calls[i]
        r == posted[c.id]
    IN  /\ Unknown(c, r) \/ Computed(c, r)
        /\ c.fn = Callback(c, r.callbacks)

\* What has become of a request whose answer the page has taken from its queue.
Concluded(id) ==
  \/ /\ Valid(posted[id]) /\ id \notin orphans
     /\ Called(id) \/ "onError" \notin posted[id].callbacks
  \/ ~Valid(posted[id]) /\ ~Called(id) /\ id \in orphans

Outcome ==
  /\ LastSeen >= 0
  /\ orphans \subseteq 1 .. LastSeen
  /\ \A id \in 1 .. LastSeen : Concluded(id)

\* The request the module crashed on is one a registered handler was called for.
HasHandler(r) == Valid(r) /\ \E h \in Handlers : <<r.type, h>> \in Registrations
CrashCause == instance = "crashed" => HasHandler(posted[LastHandled + 1])

Contents == Registry /\ Mapped /\ Carried /\ Answering /\ Delivered /\ Outcome /\ CrashCause

LEMMA ContentsInit == Init => Contents
<1> SUFFICES ASSUME Init PROVE Contents
  OBVIOUS
<1>1. /\ toModule = <<>> /\ toPage = <<>> /\ calls = <<>> /\ orphans = {}
      /\ nextMessageId = 1 /\ instance = "loading" /\ toRegister = Registrations
      /\ handlerMap = [t \in Types |-> None] /\ messageMap = [id \in Ids |-> None]
  BY DEF Init
<1>2. LastSeen = 0
  <2>1. Len(toModule) = 0 /\ Len(toPage) = 0 /\ nextMessageId = 1
    BY <1>1
  <2>2. Lost = 0
    BY <1>1 DEF Lost
  <2> QED BY <2>1, <2>2 DEF LastSeen, LastHandled
<1>3. Registry /\ Carried /\ Answering /\ Delivered /\ CrashCause
  BY <1>1 DEF Registry, Carried, Answering, Delivered, CrashCause
<1>4. Mapped
  BY <1>1, BridgeAssumption DEF Mapped, Ids
<1>5. Outcome
  BY <1>1, <1>2 DEF Outcome
<1> QED BY <1>3, <1>4, <1>5 DEF Contents

\* The types that the steps below need, of the queues and of their members.
LEMMA QueueFacts ==
  ASSUME BridgeInv
  PROVE  /\ nextMessageId \in Nat /\ MaxMessages \in Nat
         /\ nextMessageId <= MaxMessages + 1
         /\ toModule \in Seq(ModuleMessages) /\ Len(toModule) \in Nat
         /\ DOMAIN toModule = 1 .. Len(toModule)
         /\ toPage \in Seq(PageMessages) /\ Len(toPage) \in Nat
         /\ DOMAIN toPage = 1 .. Len(toPage)
         /\ calls \in Seq(Invocations) /\ Len(calls) \in Nat
         /\ DOMAIN calls = 1 .. Len(calls)
         /\ posted \in Seq(Requests) /\ Len(posted) = nextMessageId - 1
         /\ DOMAIN posted = 1 .. Len(posted)
         /\ Lost \in {0, 1} /\ LastHandled \in Int /\ LastSeen \in Int
         /\ LastSeen <= nextMessageId - 1
<1>1. /\ nextMessageId \in Nat /\ MaxMessages \in Nat /\ nextMessageId <= MaxMessages + 1
      /\ toModule \in Seq(ModuleMessages) /\ toPage \in Seq(PageMessages)
      /\ calls \in Seq(Invocations) /\ posted \in Seq(Requests)
      /\ Len(posted) = nextMessageId - 1
  BY BridgeAssumption DEF BridgeInv, TypeOK, Pipeline, Numbered
<1>2. Lost \in {0, 1} /\ Len(toModule) \in Nat /\ Len(toPage) \in Nat
  BY <1>1 DEF Lost
<1>3. LastHandled \in Int /\ LastSeen \in Int /\ LastSeen <= nextMessageId - 1
  BY <1>1, <1>2 DEF LastHandled, LastSeen
<1> QED BY <1>1, <1>2, <1>3

\* Every request, wherever it is, has an id below nextMessageId.
LEMMA IdFacts ==
  ASSUME BridgeInv, LastSeen >= 0
  PROVE  /\ \A i \in DOMAIN toModule : toModule[i].id \in 1 .. nextMessageId - 1
         /\ \A i \in DOMAIN toPage : toPage[i].of \in 1 .. nextMessageId - 1
         /\ \A i \in DOMAIN calls : calls[i].id \in 1 .. nextMessageId - 1
<1>1. \A i \in DOMAIN toModule : toModule[i].id \in 1 .. nextMessageId - 1
  <2> SUFFICES ASSUME NEW i \in DOMAIN toModule
               PROVE  toModule[i].id \in 1 .. nextMessageId - 1
    OBVIOUS
  <2>1. toModule[i].id = nextMessageId - 1 - Len(toModule) + i
    BY DEF BridgeInv, Pipeline, ModuleQueue
  <2>2. nextMessageId - 1 - Len(toModule) >= 0
    BY QueueFacts DEF LastSeen, LastHandled
  <2> QED BY <2>1, <2>2, QueueFacts
<1>2. \A i \in DOMAIN toPage : toPage[i].of \in 1 .. nextMessageId - 1
  <2> SUFFICES ASSUME NEW i \in DOMAIN toPage
               PROVE  toPage[i].of \in 1 .. nextMessageId - 1
    OBVIOUS
  <2>1. toPage[i].of = LastSeen + i
    BY DEF BridgeInv, Pipeline, PageQueue
  <2>2. LastSeen + Len(toPage) <= nextMessageId - 1
    BY QueueFacts DEF LastSeen, LastHandled
  <2> QED BY <2>1, <2>2, QueueFacts
<1>3. \A i \in DOMAIN calls : calls[i].id \in 1 .. nextMessageId - 1
  <2> SUFFICES ASSUME NEW i \in DOMAIN calls
               PROVE  calls[i].id \in 1 .. nextMessageId - 1
    OBVIOUS
  <2>1. calls[i].id <= LastSeen
    BY DEF BridgeInv, Pipeline, CallsSeen
  <2>2. calls[i] \in Invocations
    BY QueueFacts
  <2>3. calls[i].id \in 1 .. MaxMessages
    BY <2>2 DEF Invocations, Ids
  <2> QED BY <2>1, <2>3, QueueFacts
<1> QED BY <1>1, <1>2, <1>3

LEMMA LoadContents ==
  ASSUME BridgeInv, Contents,
         \/ \E reg \in Registrations : RegisterMessageHandler(reg[1], reg[2])
         \/ CreateInstance
         \/ moduleDidLoad
  PROVE  Contents'
<1>1. /\ UNCHANGED <<messageMap, nextMessageId, toModule, toPage, posted, calls, orphans>>
      /\ Lost' = Lost
  BY DEF RegisterMessageHandler, CreateInstance, moduleDidLoad, history, moduleVars, Lost
<1>2. LastSeen' = LastSeen /\ LastHandled' = LastHandled
  BY <1>1 DEF LastSeen, LastHandled
<1>3. (Mapped /\ Carried /\ Answering /\ Delivered)'
  BY <1>1 DEF Contents, Mapped, Carried, Answering, Delivered, Refused, Unknown, Computed
<1>4. Outcome'
  BY <1>1, <1>2 DEF Contents, Outcome, Concluded, Called
<1>5. CrashCause'
  BY <1>1, <1>2 DEF Contents, CrashCause, Lost
<1>6. Registry'
  <2>1. ASSUME NEW reg \in Registrations, RegisterMessageHandler(reg[1], reg[2])
        PROVE  Registry'
    <3>1. reg[1] \in Types /\ reg[2] \in Handlers /\ reg = <<reg[1], reg[2]>>
      BY BridgeAssumption
    <3>2. handlerMap \in [Types -> Handlers \cup {None}]
      BY DEF BridgeInv, TypeOK
    <3>3. /\ toRegister' = toRegister \ {reg} /\ reg \in toRegister
          /\ handlerMap' = [handlerMap EXCEPT ![reg[1]] = IF @ = None THEN reg[2] ELSE @]
          /\ instance' = instance
      BY <2>1, <3>1 DEF RegisterMessageHandler
    <3>4. \A t \in Types : handlerMap'[t] # None => <<t, handlerMap'[t]>> \in Registrations
      BY <3>1, <3>2, <3>3 DEF Contents, Registry
    <3>5. ASSUME NEW other \in Registrations
          PROVE  other \in toRegister' \/ handlerMap'[other[1]] # None
      <4>1. other[1] \in Types
        BY BridgeAssumption
      <4>2. reg[2] # None
        BY <3>1, BridgeAssumption
      <4>3. other \in toRegister \/ handlerMap[other[1]] # None
        BY DEF Contents, Registry
      <4> QED BY <3>1, <3>2, <3>3, <4>1, <4>2, <4>3
    <3> QED BY <3>3, <3>4, <3>5 DEF Contents, Registry
  <2>2. CASE CreateInstance
    BY <2>2 DEF CreateInstance, Contents, Registry
  <2>3. CASE moduleDidLoad
    BY <2>3 DEF moduleDidLoad, moduleVars, Contents, Registry
  <2> QED BY <2>1, <2>2, <2>3
<1> QED BY <1>3, <1>4, <1>5, <1>6 DEF Contents

\* A request changes nothing about older ones.
LEMMA SubmitContents ==
  ASSUME BridgeInv, BridgeInv', Contents, NEW r \in Requests, onFormSubmit(r)
  PROVE  Contents'
<1> DEFINE m == [id |-> nextMessageId, type |-> r.type, data |-> r.data]
<1>1. /\ toModule' = Append(toModule, m) /\ posted' = Append(posted, r)
      /\ nextMessageId' = nextMessageId + 1
      /\ messageMap' = [messageMap EXCEPT ![nextMessageId] = r.callbacks]
      /\ UNCHANGED <<toRegister, handlerMap, instance, toPage, calls, orphans>>
  BY DEF onFormSubmit, postMessage, moduleVars
<1>2. /\ Len(posted) = nextMessageId - 1
      /\ posted'[nextMessageId] = r
      /\ \A id \in 1 .. nextMessageId - 1 : posted'[id] = posted[id]
  BY <1>1, QueueFacts, AppendProperties
<1>3. /\ Len(toModule') = Len(toModule) + 1
      /\ DOMAIN toModule' = 1 .. Len(toModule) + 1
      /\ \A i \in 1 .. Len(toModule) : toModule'[i] = toModule[i]
      /\ toModule'[Len(toModule) + 1] = m
  BY <1>1, QueueFacts, AppendProperties
<1>4. LastSeen >= 0
  BY DEF Contents, Outcome
<1>5. LastSeen' = LastSeen /\ LastHandled' = LastHandled
  <2>1. Lost' = Lost
    BY <1>1 DEF Lost
  <2>2. nextMessageId' = nextMessageId + 1 /\ toPage' = toPage
    BY <1>1
  <2>3. Len(toModule') = Len(toModule) + 1
    BY <1>3
  <2>4. nextMessageId \in Int /\ Len(toModule) \in Int /\ Len(toPage) \in Int /\ Lost \in Int
    BY QueueFacts
  <2> QED BY <2>1, <2>2, <2>3, <2>4 DEF LastSeen, LastHandled
<1>6. Registry'
  BY <1>1 DEF Contents, Registry
<1>7. Mapped'
  <2> SUFFICES ASSUME NEW id \in Ids
               PROVE  messageMap'[id] = IF id < nextMessageId' THEN posted'[id].callbacks ELSE None
    BY DEF Mapped
  <2>1. id \in 1 .. MaxMessages /\ messageMap \in [Ids -> {None} \cup SUBSET Callbacks]
    BY DEF Ids, BridgeInv, TypeOK
  <2>2. messageMap[id] = IF id < nextMessageId THEN posted[id].callbacks ELSE None
    BY DEF Contents, Mapped
  <2>3. CASE id = nextMessageId
    BY <1>1, <1>2, <2>1, <2>3, QueueFacts
  <2>4. CASE id # nextMessageId
    BY <1>1, <1>2, <2>1, <2>2, <2>4, QueueFacts
  <2> QED BY <2>3, <2>4
<1>8. Carried'
  <2> SUFFICES ASSUME NEW i \in 1 .. Len(toModule) + 1
               PROVE  /\ toModule'[i].type = posted'[toModule'[i].id].type
                      /\ toModule'[i].data = posted'[toModule'[i].id].data
    BY <1>3 DEF Carried
  <2>1. CASE i = Len(toModule) + 1
    BY <1>2, <1>3, <2>1
  <2>2. CASE i \in 1 .. Len(toModule)
    <3>1. toModule[i].id \in 1 .. nextMessageId - 1
      BY <1>4, <2>2, QueueFacts, IdFacts
    <3>2. /\ toModule[i].type = posted[toModule[i].id].type
          /\ toModule[i].data = posted[toModule[i].id].data
      BY <2>2, QueueFacts DEF Contents, Carried
    <3> QED BY <1>2, <1>3, <2>2, <3>1, <3>2
  <2> QED BY <2>1, <2>2, QueueFacts
<1>9. Answering'
  <2> SUFFICES ASSUME NEW i \in DOMAIN toPage
               PROVE  LET a == toPage[i] q == posted'[a.of]
                      IN  Refused(a, q) \/ Unknown(a, q) \/ Computed(a, q)
    BY <1>1 DEF Answering, Refused, Unknown, Computed
  <2>1. posted'[toPage[i].of] = posted[toPage[i].of]
    BY <1>2, <1>4, IdFacts
  <2> QED BY <2>1 DEF Contents, Answering
<1>10. Delivered'
  <2> SUFFICES ASSUME NEW i \in DOMAIN calls
               PROVE  LET c == calls[i] q == posted'[c.id]
                      IN  (Unknown(c, q) \/ Computed(c, q)) /\ c.fn = Callback(c, q.callbacks)
    BY <1>1 DEF Delivered, Unknown, Computed
  <2>1. posted'[calls[i].id] = posted[calls[i].id]
    BY <1>2, <1>4, IdFacts
  <2> QED BY <2>1 DEF Contents, Delivered
<1>11. Outcome'
  <2> SUFFICES ASSUME NEW id \in 1 .. LastSeen
               PROVE  Concluded(id)'
    BY <1>1, <1>5 DEF Contents, Outcome
  <2>1. posted'[id] = posted[id]
    BY <1>2, QueueFacts
  <2>2. Concluded(id)
    BY DEF Contents, Outcome
  <2> QED BY <1>1, <2>1, <2>2 DEF Concluded, Called
<1>12. CrashCause'
  <2> SUFFICES ASSUME instance = "crashed" PROVE HasHandler(posted'[LastHandled + 1])
    BY <1>1, <1>5 DEF CrashCause
  <2>1. Lost = 1
    BY DEF Lost
  <2>2. LastHandled + 1 \in 1 .. nextMessageId - 1
    BY <1>4, <2>1, QueueFacts DEF LastSeen, LastHandled
  <2> QED BY <1>2, <2>2 DEF Contents, CrashCause
<1> QED BY <1>6, <1>7, <1>8, <1>9, <1>10, <1>11, <1>12 DEF Contents

\* The module answers the request it takes from its queue by what it is: invalid, of
\* a type nobody registered, or computed by a handler registered for its type.
LEMMA HandleContents ==
  ASSUME BridgeInv, BridgeInv', Contents, HandleMessage
  PROVE  Contents'
<1> DEFINE m == Head(toModule)
           r == posted[m.id]
<1>1. /\ toModule # <<>> /\ toModule' = Tail(toModule) /\ instance = "running"
      /\ UNCHANGED <<toRegister, handlerMap, messageMap, nextMessageId, posted, calls, orphans>>
  BY DEF HandleMessage, history
<1>2. /\ Len(toModule') = Len(toModule) - 1 /\ Len(toModule) > 0
      /\ DOMAIN toModule' = 1 .. Len(toModule) - 1
      /\ \A i \in 1 .. Len(toModule') : toModule'[i] = toModule[i + 1]
      /\ m = toModule[1] /\ m \in ModuleMessages
  BY <1>1, QueueFacts, HeadTailProperties
<1>3. LastSeen >= 0 /\ Lost = 0
  BY <1>1 DEF Contents, Outcome, Lost
<1>4. m.type = r.type /\ m.data = r.data /\ m.id = LastHandled + 1
  <2>1. 1 \in DOMAIN toModule
    BY <1>2, QueueFacts
  <2>2. m.type = r.type /\ m.data = r.data
    BY <1>2, <2>1 DEF Contents, Carried
  <2>3. m.id = nextMessageId - 1 - Len(toModule) + 1
    BY <1>2, <2>1 DEF BridgeInv, Pipeline, ModuleQueue
  <2> QED BY <1>3, <2>2, <2>3, QueueFacts DEF LastHandled
<1>5. Mapped' /\ Delivered'
  BY <1>1 DEF Contents, Mapped, Delivered, Unknown, Computed
<1>6. Carried'
  <2> SUFFICES ASSUME NEW i \in 1 .. Len(toModule) - 1
               PROVE  /\ toModule'[i].type = posted[toModule'[i].id].type
                      /\ toModule'[i].data = posted[toModule'[i].id].data
    BY <1>1, <1>2 DEF Carried
  <2>1. i + 1 \in DOMAIN toModule /\ toModule'[i] = toModule[i + 1]
    BY <1>2, QueueFacts
  <2> QED BY <2>1 DEF Contents, Carried
<1>7. CASE WrapperThrows(m)
  <2>1. instance' = "crashed" /\ toPage' = toPage
    BY <1>7 DEF WrapperThrows
  <2>2. Lost' = 1
    BY <2>1 DEF Lost
  <2>3. LastHandled' = LastHandled /\ LastSeen' = LastSeen
    BY <1>1, <1>2, <1>3, <2>1, <2>2, QueueFacts DEF LastHandled, LastSeen
  <2>4. Registry' /\ Answering'
    BY <1>1, <2>1 DEF Contents, Registry, Answering, Refused, Unknown, Computed
  <2>5. Outcome'
    BY <1>1, <2>3 DEF Contents, Outcome, Concluded, Called
  <2>6. CrashCause'
    <3>1. m.type \in Types /\ m.data # "notDictionary" /\ handlerMap[m.type] # None
      BY <1>7 DEF WrapperThrows, ParseMessage
    <3>2. handlerMap[m.type] \in Handlers /\ <<m.type, handlerMap[m.type]>> \in Registrations
      BY <3>1 DEF Contents, Registry, BridgeInv, TypeOK
    <3>3. HasHandler(r)
      BY <1>4, <3>1, <3>2 DEF HasHandler, Valid
    <3> QED BY <1>1, <1>4, <2>3, <3>3 DEF CrashCause
  <2> QED BY <1>5, <1>6, <2>4, <2>5, <2>6 DEF Contents
<1>8. CASE HandleInvalid(m) \/ HandleUnknownType(m) \/ HandleRequest(m)
  <2>1. PICK a \in PageMessages :
          /\ toPage' = Append(toPage, a) /\ instance' = instance /\ a.of = m.id
          /\ Refused(a, r) \/ Unknown(a, r) \/ Computed(a, r)
    <3>0. m.id \in Ids /\ (m.type \in Types => handlerMap[m.type] \in Handlers \cup {None})
      BY <1>2 DEF ModuleMessages, BridgeInv, TypeOK
    <3>1. ASSUME NEW id \in {None, m.id}, NEW kind \in {"data", "error"},
                 NEW by \in Handlers \cup {None}
          PROVE  /\ Response(id, kind, by, m.id) \in PageMessages
                 /\ Response(id, kind, by, m.id).of = m.id
                 /\ Response(id, kind, by, m.id).id = id
                 /\ Response(id, kind, by, m.id).by = by
                 /\ Response(id, kind, by, m.id).kind = kind
      BY <3>0 DEF Response, PageMessages
    <3>2. ParseMessage(m) <=> Valid(r)
      BY <1>4 DEF ParseMessage, Valid
    <3>3. CASE HandleInvalid(m)
      <4>1. ~Valid(r) /\ instance' = instance /\ Respond(Response(None, "error", None, m.id))
        BY <3>2, <3>3 DEF HandleInvalid
      <4>2. Refused(Response(None, "error", None, m.id), r)
        BY <3>1, <4>1 DEF Refused
      <4> QED BY <3>1, <4>1, <4>2 DEF Respond
    <3>4. CASE HandleUnknownType(m)
      <4>1. /\ Valid(r) /\ handlerMap[m.type] = None /\ instance' = instance
            /\ Respond(Response(m.id, "error", None, m.id))
        BY <3>2, <3>4 DEF HandleUnknownType
      <4>2. ASSUME NEW h \in Handlers PROVE <<r.type, h>> \notin Registrations
        <5>1. toRegister = {}
          BY <1>1 DEF Contents, Registry
        <5>2. \A reg \in Registrations : handlerMap[reg[1]] # None
          BY <5>1 DEF Contents, Registry
        <5> QED BY <1>4, <4>1, <5>2
      <4>3. Unknown(Response(m.id, "error", None, m.id), r)
        BY <3>1, <4>1, <4>2 DEF Unknown
      <4> QED BY <3>1, <4>1, <4>3 DEF Respond
    <3>5. CASE HandleRequest(m)
      <4>1. PICK kind \in {"data", "error"} :
              /\ Valid(r) /\ handlerMap[m.type] # None /\ instance' = instance
              /\ Respond(Response(m.id, kind, handlerMap[m.type], m.id))
        BY <3>2, <3>5 DEF HandleRequest
      <4>2. m.type \in Types
        BY <1>4, <4>1 DEF Valid
      <4>3. <<r.type, handlerMap[m.type]>> \in Registrations
        BY <1>4, <4>1, <4>2 DEF Contents, Registry
      <4>4. Computed(Response(m.id, kind, handlerMap[m.type], m.id), r)
        BY <3>0, <3>1, <4>1, <4>2, <4>3 DEF Computed
      <4> QED BY <3>0, <3>1, <4>1, <4>2, <4>4 DEF Respond
    <3> QED BY <1>8, <3>3, <3>4, <3>5
  <2>2. /\ Len(toPage') = Len(toPage) + 1 /\ DOMAIN toPage' = 1 .. Len(toPage) + 1
        /\ \A i \in 1 .. Len(toPage) : toPage'[i] = toPage[i]
        /\ toPage'[Len(toPage) + 1] = a
    BY <2>1, QueueFacts, AppendProperties
  <2>3. Lost' = Lost
    BY <2>1 DEF Lost
  <2>4. LastSeen' = LastSeen
    <3>1. Len(toModule') = Len(toModule) - 1 /\ nextMessageId' = nextMessageId
      BY <1>1, <1>2
    <3>2. Len(toPage') = Len(toPage) + 1
      BY <2>2
    <3>3. nextMessageId \in Int /\ Len(toModule) \in Int /\ Len(toPage) \in Int /\ Lost \in Int
      BY QueueFacts
    <3> QED BY <2>3, <3>1, <3>2, <3>3 DEF LastSeen, LastHandled
  <2>5. Registry' /\ CrashCause'
    BY <1>1, <2>1 DEF Contents, Registry, CrashCause
  <2>6. Outcome'
    BY <1>1, <2>4 DEF Contents, Outcome, Concluded, Called
  <2>7. Answering'
    <3> SUFFICES ASSUME NEW i \in 1 .. Len(toPage) + 1
                 PROVE  LET b == toPage'[i] q == posted[b.of]
                        IN  Refused(b, q) \/ Unknown(b, q) \/ Computed(b, q)
      BY <1>1, <2>2 DEF Answering, Refused, Unknown, Computed
    <3>1. CASE i \in 1 .. Len(toPage)
      BY <2>2, <3>1, QueueFacts DEF Contents, Answering
    <3>2. CASE i = Len(toPage) + 1
      BY <2>1, <2>2, <3>2
    <3> QED BY <3>1, <3>2, QueueFacts
  <2> QED BY <1>5, <1>6, <2>5, <2>6, <2>7 DEF Contents
<1> QED BY <1>7, <1>8 DEF HandleMessage

\* The page finds the callbacks of the request whose answer it takes, and calls the
\* right one; an answer without an id makes it throw.
LEMMA DeliverContents ==
  ASSUME BridgeInv, BridgeInv', Contents, handleMessage
  PROVE  Contents'
<1> DEFINE h == Head(toPage)
           r == posted[h.of]
<1>1. /\ toPage # <<>> /\ toPage' = Tail(toPage)
      /\ UNCHANGED <<toRegister, handlerMap, instance, messageMap, nextMessageId, toModule, posted>>
  BY DEF handleMessage, moduleVars
<1>2. /\ Len(toPage') = Len(toPage) - 1 /\ Len(toPage) > 0
      /\ DOMAIN toPage' = 1 .. Len(toPage) - 1
      /\ \A i \in 1 .. Len(toPage') : toPage'[i] = toPage[i + 1]
      /\ h = toPage[1] /\ h \in PageMessages
  BY <1>1, QueueFacts, HeadTailProperties
<1>3. 1 \in DOMAIN toPage /\ LastSeen >= 0
  BY <1>2, QueueFacts DEF Contents, Outcome
<1>4. /\ h.of = LastSeen + 1 /\ h.of \in 1 .. nextMessageId - 1
      /\ h.of \in Ids /\ h.by \in Handlers \cup {None}
  BY <1>2, <1>3, IdFacts DEF BridgeInv, Pipeline, PageQueue, PageMessages
<1>5. Refused(h, r) \/ Unknown(h, r) \/ Computed(h, r)
  BY <1>2, <1>3 DEF Contents, Answering
<1>6. Lost' = Lost
  BY <1>1 DEF Lost
<1>7. LastHandled' = LastHandled /\ LastSeen' = LastSeen + 1
  BY <1>1, <1>2, <1>6, QueueFacts DEF LastSeen, LastHandled
<1>8. Registry' /\ Mapped' /\ Carried' /\ CrashCause'
  BY <1>1, <1>7 DEF Contents, Registry, Mapped, Carried, CrashCause
<1>9. Answering'
  <2> SUFFICES ASSUME NEW i \in 1 .. Len(toPage) - 1
               PROVE  LET b == toPage'[i] q == posted[b.of]
                      IN  Refused(b, q) \/ Unknown(b, q) \/ Computed(b, q)
    BY <1>1, <1>2 DEF Answering, Refused, Unknown, Computed
  <2>1. i + 1 \in DOMAIN toPage /\ toPage'[i] = toPage[i + 1]
    BY <1>2, QueueFacts
  <2> QED BY <2>1 DEF Contents, Answering
<1>10. messageMap[h.of] = r.callbacks /\ r.callbacks \in SUBSET Callbacks
  <2>1. messageMap[h.of] = r.callbacks
    BY <1>4, QueueFacts DEF Contents, Mapped
  <2>2. r \in AllRequests
    BY <1>4, QueueFacts, BridgeAssumption
  <2> QED BY <2>1, <2>2 DEF AllRequests
<1>0. PICK k \in Ids : k = h.of
  BY <1>4
<1>11. \A i \in DOMAIN calls : calls[i].id # h.of
  <2> SUFFICES ASSUME NEW i \in DOMAIN calls PROVE calls[i].id # h.of
    OBVIOUS
  <2>1. calls[i].id <= LastSeen /\ calls[i].id \in 1 .. nextMessageId - 1
    BY <1>3, IdFacts DEF BridgeInv, Pipeline, CallsSeen
  <2> QED BY <1>4, <2>1, QueueFacts
<1>12. 1 .. LastSeen' = (1 .. LastSeen) \cup {k} /\ k \notin 1 .. LastSeen
  BY <1>0, <1>3, <1>4, <1>7, QueueFacts
<1>13. CASE UnknownId(h)
  <2>1. /\ calls' = calls /\ orphans' = orphans \cup {h.of}
        /\ h.id \notin {id \in Ids : messageMap[id] # None}
    BY <1>13 DEF UnknownId
  <2>2. Refused(h, r)
    <3>1. r.callbacks # None
      BY <1>10, BridgeAssumption
    <3> QED BY <1>4, <1>5, <1>10, <2>1, <3>1 DEF Unknown, Computed
  <2>3. Delivered'
    BY <1>1, <2>1 DEF Contents, Delivered, Unknown, Computed
  <2>4. Concluded(k)'
    BY <1>0, <1>1, <1>11, <2>1, <2>2 DEF Refused, Concluded, Called
  <2>5. ASSUME NEW id \in 1 .. LastSeen PROVE Concluded(id)'
    <3>1. id # k /\ Concluded(id)
      BY <1>0, <1>12 DEF Contents, Outcome
    <3> QED BY <1>0, <1>1, <2>1, <3>1 DEF Concluded, Called
  <2>6. orphans' \subseteq 1 .. LastSeen' /\ LastSeen' >= 0
    <3>1. orphans \subseteq 1 .. LastSeen /\ LastSeen \in Int
      BY QueueFacts DEF Contents, Outcome
    <3>2. LastSeen' >= 0
      BY <1>3, <1>7, <3>1
    <3> QED BY <1>0, <1>12, <2>1, <3>1, <3>2
  <2>7. Outcome'
    BY <1>12, <2>4, <2>5, <2>6 DEF Outcome
  <2> QED BY <1>8, <1>9, <2>3, <2>7 DEF Contents
<1>14. CASE DeliverResponse(h)
  <2> DEFINE fn == Callback(h, messageMap[h.id])
             c == [id |-> h.id, fn |-> fn, kind |-> h.kind, by |-> h.by, of |-> h.of]
  <2>1. h.id \in Ids /\ orphans' = orphans
        /\ calls' = IF fn = None THEN calls ELSE Append(calls, c)
    BY <1>14 DEF DeliverResponse
  <2>2. h.id # None
    BY <2>1, BridgeAssumption DEF Ids
  <2>3. /\ Unknown(h, r) \/ Computed(h, r)
        /\ h.id = h.of /\ Valid(r) /\ fn = Callback(h, r.callbacks)
    BY <1>5, <1>10, <2>2 DEF Refused, Unknown, Computed
  <2>4. h.of \notin orphans
    BY <1>0, <1>12 DEF Contents, Outcome
  <2>5. orphans' \subseteq 1 .. LastSeen' /\ LastSeen' >= 0
    BY <1>0, <1>3, <1>7, <1>12, <2>1, QueueFacts DEF Contents, Outcome
  <2>6. CASE fn = None
    <3>1. calls' = calls
      BY <2>1, <2>6
    <3>2. "onError" \notin r.callbacks
      BY <2>3, <2>6, BridgeAssumption DEF Callback, Callbacks
    <3>3. Concluded(k)'
      BY <1>0, <1>1, <2>1, <2>3, <2>4, <3>2 DEF Concluded
    <3>4. ASSUME NEW id \in 1 .. LastSeen PROVE Concluded(id)'
      <4>1. Concluded(id)
        BY DEF Contents, Outcome
      <4> QED BY <1>1, <2>1, <3>1, <4>1 DEF Concluded, Called
    <3>5. Outcome'
      BY <1>12, <2>5, <3>3, <3>4 DEF Outcome
    <3>6. Delivered'
      BY <1>1, <3>1 DEF Contents, Delivered, Unknown, Computed
    <3> QED BY <1>8, <1>9, <3>5, <3>6 DEF Contents
  <2>7. CASE fn # None
    <3>0. fn \in Callbacks
      BY <2>7 DEF Callback, Callbacks
    <3>1. c \in Invocations
      BY <1>2, <2>1, <3>0 DEF Invocations, PageMessages
    <3>2. calls' = Append(calls, c)
      BY <2>1, <2>7
    <3>3. /\ Len(calls') = Len(calls) + 1 /\ DOMAIN calls' = 1 .. Len(calls) + 1
          /\ \A i \in 1 .. Len(calls) : calls'[i] = calls[i]
          /\ calls'[Len(calls) + 1] = c
      BY <3>1, <3>2, QueueFacts, AppendProperties
    <3>4. /\ c.id = h.of /\ c.of = h.of /\ c.by = h.by /\ c.kind = h.kind /\ c.fn = fn
      BY <2>3
    <3> HIDE DEF c
    <3>5. (Unknown(c, r) \/ Computed(c, r)) /\ c.fn = Callback(c, r.callbacks)
      BY <2>3, <3>4 DEF Unknown, Computed, Callback
    <3>6. Delivered'
      <4> SUFFICES ASSUME NEW i \in 1 .. Len(calls) + 1
                   PROVE  LET d == calls'[i] q == posted[d.id]
                          IN  /\ Unknown(d, q) \/ Computed(d, q)
                              /\ d.fn = Callback(d, q.callbacks)
        BY <1>1, <3>3 DEF Delivered, Unknown, Computed
      <4>1. CASE i \in 1 .. Len(calls)
        BY <3>3, <4>1, QueueFacts DEF Contents, Delivered
      <4>2. CASE i = Len(calls) + 1
        BY <3>3, <3>4, <3>5, <4>2
      <4> QED BY <4>1, <4>2, QueueFacts
    <3>7. Called(k)'
      <4>1. Len(calls) + 1 \in DOMAIN calls' /\ calls'[Len(calls) + 1].id = k
        BY <1>0, <3>3, <3>4, QueueFacts
      <4> QED BY <4>1 DEF Called
    <3>8. ASSUME NEW id \in 1 .. LastSeen PROVE Called(id)' <=> Called(id)
      <4>1. id # c.id
        BY <1>0, <1>12, <3>4
      <4>2. DOMAIN calls' = DOMAIN calls \cup {Len(calls) + 1}
        BY <3>3, QueueFacts
      <4>3. \A i \in DOMAIN calls : calls'[i] = calls[i]
        BY <3>3, QueueFacts
      <4>4. calls'[Len(calls) + 1] = c
        BY <3>3
      <4> QED BY <4>1, <4>2, <4>3, <4>4 DEF Called
    <3>9. Concluded(k)'
      BY <1>0, <1>1, <2>1, <2>3, <2>4, <3>7 DEF Concluded
    <3>10. ASSUME NEW id \in 1 .. LastSeen PROVE Concluded(id)'
      <4>1. Concluded(id)
        BY DEF Contents, Outcome
      <4> QED BY <1>1, <2>1, <3>8, <4>1 DEF Concluded
    <3>11. Outcome'
      BY <1>12, <2>5, <3>9, <3>10 DEF Outcome
    <3> QED BY <1>8, <1>9, <3>6, <3>11 DEF Contents
  <2> QED BY <2>6, <2>7
<1> QED BY <1>13, <1>14 DEF handleMessage

\* Every step keeps the messages faithful to their requests.
LEMMA ContentsStep == BridgeInv /\ BridgeInv' /\ Contents /\ [Next]_vars => Contents'
<1> SUFFICES ASSUME BridgeInv, BridgeInv', Contents, [Next]_vars PROVE Contents'
  OBVIOUS
<1>1. CASE UNCHANGED vars
  BY <1>1 DEF vars, Contents, Registry, Mapped, Carried, Answering, Delivered, Outcome,
              CrashCause, Refused, Unknown, Computed, Concluded, Called, LastSeen,
              LastHandled, Lost
<1>2. CASE Next
  BY <1>2, LoadContents, SubmitContents, HandleContents, DeliverContents DEF Next
<1> QED BY <1>1, <1>2

\* Every message and every callback is about the request it claims to be about.
THEOREM ContentsInvariant == Spec => []Contents
BY ContentsInit, ContentsStep, BridgeInvariant, PTL DEF Spec

\* A callback is one its request passed and gets the answer a handler registered
\* for the type of that request computed from it, although handleMessage trusts the
\* id in the answer and messageMap keeps old entries.
THEOREM AnswersCorrelated == Spec => []Correlated
<1>1. BridgeInv /\ Contents => Correlated
  <2> SUFFICES ASSUME BridgeInv, Contents, NEW i \in DOMAIN calls
               PROVE  LET c == calls[i]
                          r == posted[c.id]
                      IN  /\ c.of = c.id
                          /\ c.fn \in r.callbacks
                          /\ c.by # None => <<r.type, c.by>> \in Registrations
                          /\ c.fn = "onSuccess" => c.kind = "data" /\ c.by # None
                          /\ c.fn = "onError" => c.kind = "error" \/ "onSuccess" \notin r.callbacks
    BY DEF Correlated
  <2> DEFINE c == calls[i]
             r == posted[c.id]
  <2>1. /\ Unknown(c, r) \/ Computed(c, r)
        /\ c.fn = Callback(c, r.callbacks)
    BY DEF Contents, Delivered
  <2>2. c.fn \in Callbacks /\ c.kind \in {"data", "error"}
    <3>1. c \in Invocations
      BY QueueFacts
    <3> QED BY <3>1 DEF Invocations
  <2>3. c.fn # None
    BY <2>2, BridgeAssumption
  <2> HIDE DEF c, r
  <2>4. c.of = c.id /\ (c.by # None => <<r.type, c.by>> \in Registrations)
    BY <2>1 DEF Unknown, Computed
  <2>5. c.fn \in r.callbacks
    BY <2>1, <2>3 DEF Callback
  <2>6. c.fn = "onSuccess" => c.kind = "data" /\ c.by # None
    BY <2>1, <2>3 DEF Callback, Unknown, Computed
  <2>7. c.fn = "onError" => c.kind = "error" \/ "onSuccess" \notin r.callbacks
    BY <2>1, <2>2, <2>3 DEF Callback
  <2> QED BY <2>4, <2>5, <2>6, <2>7 DEF c, r
<1> QED BY <1>1, BridgeInvariant, ContentsInvariant, PTL

\* Nobody is told that a type is unknown which some static initialiser registers,
\* in whatever order the initialisers run.
THEOREM UnknownIsUnregistered == Spec => []UnknownMeansUnregistered
<1>1. Contents => UnknownMeansUnregistered
  BY DEF Contents, Delivered, Unknown, Computed, UnknownMeansUnregistered
<1> QED BY <1>1, ContentsInvariant, PTL

\* A request the module has not taken yet is in its queue.
LEMMA StillQueued ==
  ASSUME BridgeInv, NEW id \in 1 .. nextMessageId - 1, id > LastHandled + Lost
  PROVE  \E i \in DOMAIN toModule : toModule[i].id = id
<1> DEFINE i == id - (nextMessageId - 1 - Len(toModule))
<1>1. LastHandled + Lost = nextMessageId - 1 - Len(toModule)
  BY QueueFacts DEF LastHandled
<1>2. i \in DOMAIN toModule
  BY <1>1, QueueFacts
<1>3. toModule[i].id = nextMessageId - 1 - Len(toModule) + i
  BY <1>2 DEF BridgeInv, Pipeline, ModuleQueue
<1>4. toModule[i].id = id
  BY <1>3, QueueFacts
<1> QED BY <1>2, <1>4

\* Every request that has left the queues has reached its caller, was invalid and made
\* the page throw, or is the one request that crashed the module.
THEOREM AnswersSurface == Spec => []EveryAnswerSurfaces
<1>1. BridgeInv /\ Contents => EveryAnswerSurfaces
  <2> SUFFICES ASSUME BridgeInv, Contents, NEW id \in 1 .. nextMessageId - 1, ~InFlight(id)
               PROVE  \/ Concluded(id)
                      \/ CrashedOn(id)
    BY DEF EveryAnswerSurfaces, Concluded
  <2>1. LastSeen >= 0
    BY DEF Contents, Outcome
  <2>2. CASE id \in 1 .. LastSeen
    BY <2>2 DEF Contents, Outcome
  <2>3. CASE id \in LastSeen + 1 .. LastHandled
    <3>1. id - LastSeen \in DOMAIN toPage
      BY <2>3, QueueFacts DEF LastSeen
    <3>2. toPage[id - LastSeen].of = LastSeen + (id - LastSeen)
      BY <3>1 DEF BridgeInv, Pipeline, PageQueue
    <3>3. toPage[id - LastSeen].of = id
      BY <3>2, QueueFacts
    <3> QED BY <3>1, <3>3 DEF InFlight
  <2>4. CASE id = LastHandled + 1 /\ instance = "crashed"
    <3>1. HasHandler(posted[id])
      BY <2>4 DEF Contents, CrashCause
    <3>2. LastSeen < id /\ Lost = 1
      BY <2>4, QueueFacts DEF LastSeen, Lost
    <3>3. ~Called(id)
      <4>1. \A i \in DOMAIN calls : calls[i].id <= LastSeen /\ calls[i].id \in Int
        BY <2>1, IdFacts DEF BridgeInv, Pipeline, CallsSeen
      <4> QED BY <3>2, <4>1, QueueFacts DEF Called
    <3>4. id \notin orphans
      BY <3>2, QueueFacts DEF Contents, Outcome
    <3>5. ASSUME NEW later \in id + 1 .. nextMessageId - 1
          PROVE  \E i \in DOMAIN toModule : toModule[i].id = later
      <4>1. later \in 1 .. nextMessageId - 1 /\ later > LastHandled + Lost
        BY <2>4, <3>2, QueueFacts
      <4> QED BY <4>1, StillQueued
    <3> QED BY <2>4, <3>1, <3>3, <3>4, <3>5 DEF CrashedOn, HasHandler
  <2>5. CASE id > LastHandled + Lost
    BY <2>5, StillQueued DEF InFlight
  <2>6. Lost = 1 => instance = "crashed"
    BY DEF Lost
  <2>7. Lost \in {0, 1} /\ LastHandled \in Int /\ LastSeen \in Int /\ id \in Nat /\ id >= 1
    BY QueueFacts
  <2>8. \/ id \in 1 .. LastSeen
        \/ id \in LastSeen + 1 .. LastHandled
        \/ id = LastHandled + 1 /\ Lost = 1
        \/ id > LastHandled + Lost
    BY <2>7
  <2> QED BY <2>2, <2>3, <2>4, <2>5, <2>6, <2>8
<1> QED BY <1>1, BridgeInvariant, ContentsInvariant, PTL

-----------------------------------------------------------------------------
(* The refinement of AsyncCall *)

\* A request is a call.
LEMMA SubmitRefines ==
  ASSUME BridgeInv, NEW r \in Requests, onFormSubmit(r)
  PROVE  Calls!Call(r.callbacks) /\ r.callbacks \in SUBSET Callbacks
<1>1. posted' = Append(posted, r) /\ calls' = calls
  BY DEF onFormSubmit, postMessage
<1>2. /\ DOMAIN posted' = 1 .. Len(posted) + 1 /\ posted'[Len(posted) + 1] = r
      /\ \A i \in 1 .. Len(posted) : posted'[i] = posted[i]
      /\ DOMAIN posted = 1 .. Len(posted) /\ Len(posted) \in Nat
  BY <1>1, QueueFacts
<1>3. CallsMade' = [i \in 1 .. Len(posted) + 1 |-> posted'[i].callbacks]
  BY <1>2 DEF CallsMade
<1>4. Len(CallsMade) = Len(posted) /\ CallsMade = [i \in 1 .. Len(posted) |-> posted[i].callbacks]
  BY <1>2 DEF CallsMade
<1>5. Append(CallsMade, r.callbacks)
        = [i \in 1 .. Len(posted) + 1 |->
             IF i \in 1 .. Len(posted) THEN CallsMade[i] ELSE r.callbacks]
  BY <1>2, <1>4 DEF Append
<1>6. \A i \in 1 .. Len(posted) + 1 :
        posted'[i].callbacks = IF i \in 1 .. Len(posted) THEN CallsMade[i] ELSE r.callbacks
  BY <1>2, <1>4
<1>7. CallsMade' = Append(CallsMade, r.callbacks)
  BY <1>3, <1>5, <1>6
<1>8. CallsCompleted' = CallsCompleted
  BY <1>1 DEF CallsCompleted
<1>9. r.callbacks \in SUBSET Callbacks
  BY BridgeAssumption DEF AllRequests
<1> QED BY <1>7, <1>8, <1>9 DEF Calls!Call

\* Every callback invoked is a completion of the next call to complete, by a callback
\* of its own; an answer for which none is invoked changes nothing the caller sees.
LEMMA DeliverRefines ==
  ASSUME BridgeInv, BridgeInv', Contents, Contents', handleMessage, calls' # calls
  PROVE  \E id \in DOMAIN CallsMade, fn \in Callbacks : Calls!Complete(id, fn)
<1>0. UNCHANGED <<posted, nextMessageId>>
  BY DEF handleMessage
<1>1. PICK c \in Invocations : calls' = Append(calls, c)
  <2> DEFINE h == Head(toPage)
             f == Callback(h, messageMap[h.id])
             d == [id |-> h.id, fn |-> f, kind |-> h.kind, by |-> h.by, of |-> h.of]
  <2>1. h \in PageMessages
    BY QueueFacts, HeadTailProperties DEF handleMessage
  <2>2. h.id \in Ids /\ calls' = Append(calls, d) /\ f # None
    BY DEF handleMessage, DeliverResponse, UnknownId
  <2>3. f \in Callbacks
    BY <2>2 DEF Callback, Callbacks
  <2>4. d \in Invocations
    BY <2>1, <2>2, <2>3 DEF Invocations, PageMessages
  <2> QED BY <2>2, <2>4
<1>2. /\ DOMAIN calls' = 1 .. Len(calls) + 1 /\ calls'[Len(calls) + 1] = c
      /\ \A i \in 1 .. Len(calls) : calls'[i] = calls[i]
      /\ DOMAIN calls = 1 .. Len(calls) /\ Len(calls) \in Nat
  <2>1. calls \in Seq(Invocations) /\ DOMAIN calls = 1 .. Len(calls) /\ Len(calls) \in Nat
    BY QueueFacts
  <2>2. calls' \in Seq(Invocations) /\ Len(calls') = Len(calls) + 1
    BY <1>1, <2>1, AppendProperties
  <2>3. calls'[Len(calls) + 1] = c /\ \A i \in 1 .. Len(calls) : calls'[i] = calls[i]
    BY <1>1, <2>1, AppendProperties
  <2>4. DOMAIN calls' = 1 .. Len(calls')
    BY <2>2
  <2> QED BY <2>1, <2>2, <2>3, <2>4
<1>3. Len(calls) + 1 \in DOMAIN calls'
  BY <1>2
<1>4. c \in Invocations
  OBVIOUS
<1>5. c.id \in Nat /\ c.fn \in Callbacks /\ c.fn # None
  BY <1>4, BridgeAssumption DEF Invocations, Ids
<1>6. \A i \in DOMAIN calls : calls[i].id < c.id
  <2> SUFFICES ASSUME NEW i \in DOMAIN calls PROVE calls[i].id < c.id
    OBVIOUS
  <2>1. i \in DOMAIN calls' /\ i < Len(calls) + 1
    BY <1>2
  <2>2. calls'[i].id < calls'[Len(calls) + 1].id
    BY <1>3, <2>1 DEF BridgeInv, Pipeline, InOrder
  <2> QED BY <1>2, <2>2
<1>7. c.id \in DOMAIN posted
  <2>1. LastSeen' \in Int /\ LastSeen' <= nextMessageId - 1
    <3>1. Len(toModule') \in Nat /\ Len(toPage') \in Nat /\ nextMessageId' \in Nat
      BY BridgeAssumption DEF BridgeInv, TypeOK
    <3>2. Lost' \in {0, 1}
      BY DEF Lost
    <3> QED BY <1>0, <3>1, <3>2 DEF LastSeen, LastHandled
  <2>2. c.id <= LastSeen'
    BY <1>2, <1>3 DEF BridgeInv, Pipeline, CallsSeen
  <2>3. c.id >= 1
    BY <1>4, BridgeAssumption DEF Invocations, Ids
  <2> QED BY <1>5, <2>1, <2>2, <2>3, QueueFacts
<1>8. c.fn \in posted[c.id].callbacks
  <2>1. c.fn = Callback(c, posted[c.id].callbacks)
    BY <1>0, <1>2, <1>3 DEF Contents, Delivered
  <2> QED BY <1>5, <2>1 DEF Callback
<1> DEFINE d == [id |-> c.id, fn |-> c.fn]
<1>9. Len(CallsCompleted) = Len(calls) /\ DOMAIN CallsCompleted = 1 .. Len(calls)
  BY <1>2 DEF CallsCompleted
<1>10. CallsCompleted' = [i \in 1 .. Len(calls) + 1 |-> [id |-> calls'[i].id, fn |-> calls'[i].fn]]
  BY <1>2 DEF CallsCompleted
<1>11. Append(CallsCompleted, d)
         = [i \in 1 .. Len(calls) + 1 |->
              IF i \in 1 .. Len(calls) THEN CallsCompleted[i] ELSE d]
  BY <1>2, <1>9 DEF Append
<1>12. \A i \in 1 .. Len(calls) + 1 :
         [id |-> calls'[i].id, fn |-> calls'[i].fn]
           = IF i \in 1 .. Len(calls) THEN CallsCompleted[i] ELSE d
  <2> SUFFICES ASSUME NEW i \in 1 .. Len(calls) + 1
               PROVE  [id |-> calls'[i].id, fn |-> calls'[i].fn]
                        = IF i \in 1 .. Len(calls) THEN CallsCompleted[i] ELSE d
    OBVIOUS
  <2>1. CASE i \in 1 .. Len(calls)
    BY <1>2, <2>1 DEF CallsCompleted
  <2>2. CASE i = Len(calls) + 1
    BY <1>2, <2>2
  <2> QED BY <1>2, <2>1, <2>2
<1>13. CallsCompleted' = Append(CallsCompleted, d)
  BY <1>10, <1>11, <1>12
<1>14. \A i \in DOMAIN CallsCompleted : CallsCompleted[i].id < c.id
  BY <1>2, <1>6, <1>9 DEF CallsCompleted
<1>15. CallsMade' = CallsMade /\ DOMAIN CallsMade = DOMAIN posted
       /\ CallsMade[c.id] = posted[c.id].callbacks
  BY <1>0, <1>7 DEF CallsMade
<1>16. Calls!Complete(c.id, c.fn)
  BY <1>8, <1>13, <1>14, <1>15 DEF Calls!Complete
<1> QED BY <1>5, <1>7, <1>15, <1>16

\* The page, the module and the two queues implement AsyncCall: ids are given out in
\* order, every callback invoked completes a call that had not completed, by a callback
\* it passed, and calls complete in the order they were made.
THEOREM BridgeImplements == Spec => ImplementsAsyncCall
<1>1. Init => Calls!Init
  BY DEF Init, Calls!Init, CallsMade, CallsCompleted
<1>2. BridgeInv /\ BridgeInv' /\ Contents /\ Contents' /\ [Next]_vars
        => [Calls!Next]_<<CallsMade, CallsCompleted>>
  <2> SUFFICES ASSUME BridgeInv, BridgeInv', Contents, Contents', [Next]_vars,
                      ~UNCHANGED <<posted, calls>>
               PROVE  Calls!Next
    BY DEF CallsMade, CallsCompleted
  <2>1. ASSUME NEW r \in Requests, onFormSubmit(r)
        PROVE  Calls!Next
    BY <2>1, SubmitRefines DEF Calls!Next, Calls!Outcomes, Callbacks
  <2>2. CASE handleMessage
    <3>1. calls' # calls
      BY <2>2 DEF handleMessage
    <3> QED BY <2>2, <3>1, DeliverRefines DEF Calls!Next, Calls!Outcomes, Callbacks
  <2>3. ASSUME \/ \E reg \in Registrations : RegisterMessageHandler(reg[1], reg[2])
               \/ CreateInstance
               \/ HandleMessage
               \/ moduleDidLoad
               \/ UNCHANGED vars
        PROVE  UNCHANGED <<posted, calls>>
    BY <2>3 DEF RegisterMessageHandler, CreateInstance, HandleMessage, moduleDidLoad, history, vars
  <2> QED BY <2>1, <2>2, <2>3 DEF Next
<1> QED BY <1>1, <1>2, BridgeInvariant, ContentsInvariant, PTL
        DEF Spec, ImplementsAsyncCall, Calls!Spec
=============================================================================
