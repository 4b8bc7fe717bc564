---------------------------- MODULE MCNaClBridge ----------------------------
(* Instances of NaClBridge for TLC. *)
EXTENDS NaClBridge

CONSTANTS testMessage, otherMessage, unregistered, TestMessage, OtherHandler

MCTypes == {testMessage, otherMessage, unregistered}
MCHandlers == {TestMessage, OtherHandler}

\* testMessage is registered twice: the order of the initialisers decides.
MCRegistrations == {<<testMessage, TestMessage>>, <<testMessage, OtherHandler>>,
                    <<otherMessage, OtherHandler>>}

Request(type, data, cbs) == [type |-> type, data |-> data, callbacks |-> cbs]

MCRequests ==
  {Request(testMessage, "readable", cbs) : cbs \in SUBSET Callbacks}
    \cup {Request(otherMessage, "readable", Callbacks),
          Request(otherMessage, "malformed", Callbacks),
          Request(unregistered, "malformed", Callbacks),
          Request(NotAString, "readable", Callbacks),
          Request(testMessage, "notDictionary", {"onSuccess"})}
=============================================================================
