---------------------------- MODULE MqttSession ----------------------------
(***************************************************************************)
(* What the MQTT application (modules/mqtt_app.c) promises the host: a     *)
(* handle names a session with settings of its own, the library opens a    *)
(* session with the last ones the host has given, and an event goes to the *)
(* callback the host has set up for that session.  A reset ends them all.  *)
(***************************************************************************)
CONSTANTS
  Handles,        \* values of a handle
  NoSession,
  CallbackSets,   \* [connectedCb, disconnectedCb, publishedCb, dataCb]
  Texts,          \* hosts, topics and messages
  NoText          \* a text never given

VARIABLES
  session,   \* the settings behind a handle, or NoSession
  link,      \* the library's connection of a session
  opened,    \* the last connection that was opened, and with what
  event      \* the last event, and the session it is about

absVars == <<session, link, opened, event>>

NewSession(callbacks) ==
  [callbacks |-> callbacks, host |-> NoText, topic |-> NoText, message |-> NoText]

AbsInit ==
  /\ session = [h \in Handles |-> NoSession]
  /\ link = [h \in Handles |-> "off"]
  /\ opened = [handle |-> NoSession] /\ event = [handle |-> NoSession]

Setup ==
  /\ \E h \in Handles, callbacks \in CallbackSets :
       /\ session[h] = NoSession
       /\ session' = [session EXCEPT ![h] = NewSession(callbacks)]
  /\ UNCHANGED <<link, opened, event>>

WithWill(s, topic, message) ==
  [callbacks |-> s.callbacks, host |-> s.host, topic |-> topic, message |-> message]

Lwt(h, topic, message) ==
  /\ session[h] # NoSession
  /\ session' = [session EXCEPT ![h] = WithWill(session[h], topic, message)]
  /\ UNCHANGED <<link, opened, event>>

Connect(h, host) ==
  /\ session[h] # NoSession
  /\ session' = [session EXCEPT ![h].host = host]
  /\ link' = [link EXCEPT ![h] = "dialling"]
  /\ UNCHANGED <<opened, event>>

Disconnect(h) ==
  /\ session[h] # NoSession
  /\ link' = [link EXCEPT ![h] = IF @ = "on" THEN "leaving" ELSE "off"]
  /\ UNCHANGED <<session, opened, event>>

\* The library reaches the broker.
Open(h) ==
  /\ session[h] # NoSession
  /\ link[h] = "dialling"
  /\ link' = [link EXCEPT ![h] = "on"]
  /\ opened' = [handle |-> h, host |-> session[h].host, topic |-> session[h].topic,
                message |-> session[h].message]
  /\ event' = [handle |-> h, callback |-> session[h].callbacks.connectedCb]
  /\ UNCHANGED session

\* The connection ends; one that was lost is dialled again.
End(h) ==
  /\ session[h] # NoSession
  /\ link[h] \in {"on", "leaving"}
  /\ link' = [link EXCEPT ![h] = IF @ = "on" THEN "dialling" ELSE "off"]
  /\ event' = [handle |-> h, callback |-> session[h].callbacks.disconnectedCb]
  /\ UNCHANGED <<session, opened>>

\* A publication got through, or one arrived.
Message(h, kind) ==
  /\ session[h] # NoSession
  /\ link[h] = "on"
  /\ event' = [handle |-> h, callback |-> session[h].callbacks[kind]]
  /\ UNCHANGED <<session, link, opened>>

Reset ==
  /\ session' = [h \in Handles |-> NoSession]
  /\ link' = [h \in Handles |-> "off"]
  /\ UNCHANGED <<opened, event>>

AbsNext ==
  \/ Setup
  \/ \E h \in Handles, topic, message \in Texts : Lwt(h, topic, message)
  \/ \E h \in Handles, host \in Texts : Connect(h, host)
  \/ \E h \in Handles : Disconnect(h) \/ Open(h) \/ End(h)
  \/ \E h \in Handles, kind \in {"publishedCb", "dataCb"} : Message(h, kind)
  \/ Reset

AbsSpec == AbsInit /\ [][AbsNext]_absVars
=============================================================================
