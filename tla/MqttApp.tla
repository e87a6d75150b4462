------------------------------ MODULE MqttApp ------------------------------
(***************************************************************************)
(* The MQTT application (modules/mqtt_app.c) and its memory.  A client is  *)
(* a block of the heap whose fields point to other blocks: the callbacks   *)
(* (user_data), what MQTT_InitClient has allocated for the library (state),*)
(* the host and the two texts of the last will.  Handlers allocate, copy   *)
(* and free; the library, a task of its own, reads the fields whenever it  *)
(* connects and calls back.                                                *)
(*                                                                         *)
(* os_free does not erase a block; os_zalloc hands it out again, cleared.  *)
(* Handlers and callbacks run to completion, so each is one action.  A     *)
(* command with a wrong number of arguments is answered 0 and changes      *)
(* nothing.  The host uses handles of the present boot.                    *)
(***************************************************************************)
EXTENDS Naturals, FiniteSets

CONSTANTS
  Blocks,         \* addresses of the heap's blocks
  Pick(_),        \* the block that os_zalloc takes out of the free ones
  NoClient,
  CallbackSets,   \* what MQTTAPP_Setup is given
  Texts,          \* hosts, topics and messages
  NoText,         \* what is in a block that holds none of these
  QueueSize,      \* messages the library's queue has room for
  MaxCommands,    \* bound: commands
  MaxResets       \* bound: resets that no lack of memory caused

NULL == 0
Fields == {"user_data", "state", "host", "will_topic", "will_message"}

ASSUME BlocksAssumption ==
  /\ NULL \notin Blocks /\ NoClient \notin Blocks /\ NoText \notin Texts
  /\ \A free \in SUBSET Blocks : free # {} => Pick(free) \in free
ASSUME NoClientAssumption ==
  /\ NoClient \notin [Fields -> Blocks \cup {NULL}]
  /\ \A c \in CallbackSets, h, t, m \in Texts \cup {NoText} :
       NoClient # [callbacks |-> c, host |-> h, topic |-> t, message |-> m]
ASSUME MqttBoundsAssumption ==
  CallbackSets # {} /\ {QueueSize, MaxCommands, MaxResets} \subseteq Nat

VARIABLES
  live,      \* blocks handed out and not freed
  client,    \* the fields of the client at an address, or NoClient
  text,      \* the text in a block
  calls,     \* the callbacks in a block
  link,      \* the library: its connection of a client
  queue,     \* the library: messages waiting
  opened,    \* the broker: the last connection, and with what
  event,     \* the host: the last event, and the client it is about
  commands, resets

heap == <<live, client, text, calls>>
library == <<link, queue>>
bounds == <<commands, resets>>
vars == <<heap, library, opened, event, bounds>>

NoCalls == CHOOSE c \in CallbackSets : TRUE

Init ==
  /\ live = {}
  /\ client = [b \in Blocks |-> NoClient]
  /\ text = [b \in Blocks |-> NoText]
  /\ calls = [b \in Blocks |-> NoCalls]
  /\ link = [b \in Blocks |-> "off"]
  /\ queue = [b \in Blocks |-> 0]
  /\ opened = [handle |-> NoClient] /\ event = [handle |-> NoClient]
  /\ commands = 0 /\ resets = 0

Clients == {c \in Blocks : client[c] # NoClient}
Text(p) == IF p = NULL THEN NoText ELSE text[p]

-----------------------------------------------------------------------------
(* Commands. *)

Command == commands < MaxCommands /\ commands' = commands + 1 /\ UNCHANGED resets

\* A null pointer that a handler writes through is an exception; it restarts
\* the chip.
GoDown ==
  /\ live' = {}
  /\ client' = [b \in Blocks |-> NoClient]
  /\ link' = [b \in Blocks |-> "off"]
  /\ queue' = [b \in Blocks |-> 0]
  /\ UNCHANGED <<text, calls, opened, event>>

\* The blocks that MQTTAPP_Setup allocates one after the other: the client, its
\* id, user name and password, the library's part, the callbacks.  The three
\* texts are freed again, the library has copied them.
Rest(free) == IF free = {} THEN {} ELSE free \ {Pick(free)}

Free0 == Blocks \ live
Free1 == Rest(Free0)
Free2 == Rest(Free1)
Free3 == Rest(Free2)
Free4 == Rest(Free3)
Free5 == Rest(Free4)

\* Blocks that were allocated and hold no setting, whether freed again or not.
Scratch(blocks) == text' = [b \in Blocks |-> IF b \in blocks THEN NoText ELSE text[b]]

NewFields(state, callback) ==
  [f \in Fields |-> CASE f = "user_data" -> callback
                      [] f = "state" -> state
                      [] OTHER -> NULL]

SetupDone(callbacks) ==
  /\ Free5 # {}
  /\ live' = live \cup {Pick(Free0), Pick(Free4), Pick(Free5)}
  /\ client' = [client EXCEPT ![Pick(Free0)] = NewFields(Pick(Free4), Pick(Free5))]
  /\ calls' = [calls EXCEPT ![Pick(Free5)] = callbacks]
  /\ Scratch({Pick(Free0), Pick(Free1), Pick(Free2), Pick(Free3), Pick(Free4),
              Pick(Free5)})
  /\ UNCHANGED <<library, opened, event>>

\* Without memory for the client the answer is 0; what else is allocated is
\* used untested.
MQTTAPP_Setup(callbacks) ==
  /\ Command
  /\ \/ SetupDone(callbacks)
     \/ Free0 = {} /\ UNCHANGED <<heap, library, opened, event>>
     \/ Free0 # {} /\ Free5 = {} /\ GoDown

\* Fault: os_free without the test whether the field was set.
FreeWithoutTest(c, fields) == Free0 \cup {client[c][f] : f \in fields}

\* A field is freed, if it was set, before the new text is allocated.
FreeWithout(c, fields) == Free0 \cup ({client[c][f] : f \in fields} \ {NULL})

LwtDone(c, topic, message) ==
  LET topicBlock == Pick(FreeWithout(c, {"will_topic"}))
      messageBlock == Pick(FreeWithout(c, {"will_topic", "will_message"}) \ {topicBlock})
  IN /\ live' = (live \ {client[c].will_topic, client[c].will_message})
                  \cup {topicBlock, messageBlock}
     /\ client' = [client EXCEPT ![c].will_topic = topicBlock,
                                 ![c].will_message = messageBlock]
     /\ text' = [text EXCEPT ![topicBlock] = topic, ![messageBlock] = message]
     /\ UNCHANGED <<calls, library, opened, event>>

LwtFits(c) ==
  /\ FreeWithout(c, {"will_topic"}) # {}
  /\ FreeWithout(c, {"will_topic", "will_message"})
        \ {Pick(FreeWithout(c, {"will_topic"}))} # {}

MQTTAPP_Lwt(c, topic, message) ==
  /\ Command
  /\ c \in Clients
  /\ \/ LwtFits(c) /\ LwtDone(c, topic, message)
     \/ ~LwtFits(c) /\ GoDown

\* Fault: the host of the last connection is forgotten, not freed.
ConnectDoneLeaks(c, host) ==
  LET block == Pick(Free0)
  IN /\ live' = live \cup {block}
     /\ client' = [client EXCEPT ![c].host = block]
     /\ text' = [text EXCEPT ![block] = host]
     /\ link' = [link EXCEPT ![c] = "dialling"]
     /\ UNCHANGED <<calls, queue, opened, event>>

\* MQTT_Connect follows: the library dials, whatever it was doing.
ConnectDone(c, host) ==
  LET block == Pick(FreeWithout(c, {"host"}))
  IN /\ live' = (live \ {client[c].host}) \cup {block}
     /\ client' = [client EXCEPT ![c].host = block]
     /\ text' = [text EXCEPT ![block] = host]
     /\ link' = [link EXCEPT ![c] = "dialling"]
     /\ UNCHANGED <<calls, queue, opened, event>>

MQTTAPP_Connect(c, host) ==
  /\ Command
  /\ c \in Clients
  /\ \/ FreeWithout(c, {"host"}) # {} /\ ConnectDone(c, host)
     \/ FreeWithout(c, {"host"}) = {} /\ GoDown

\* Fault: the host is freed, its pointer stays.
MQTTAPP_DisconnectFrees(c) ==
  /\ Command
  /\ c \in Clients
  /\ live' = live \ {client[c].host}
  /\ link' = [link EXCEPT ![c] = IF @ = "on" THEN "leaving" ELSE "off"]
  /\ UNCHANGED <<client, text, calls, queue, opened, event>>

MQTTAPP_Disconnect(c) ==
  /\ Command
  /\ c \in Clients
  /\ link' = [link EXCEPT ![c] = IF @ = "on" THEN "leaving" ELSE "off"]
  /\ UNCHANGED <<heap, queue, opened, event>>

\* Topic and data are copied by the library and freed, and nobody looks at
\* what MQTT_Publish returns: a message may be lost to a full queue.
MQTTAPP_Publish(c) ==
  /\ Command
  /\ c \in Clients
  /\ \/ /\ Free1 # {}
        /\ Scratch({Pick(Free0), Pick(Free1)})
        /\ queue' = [queue EXCEPT ![c] = IF @ < QueueSize THEN @ + 1 ELSE @]
        /\ UNCHANGED <<live, client, calls, link, opened, event>>
     \/ Free1 = {} /\ GoDown

MQTTAPP_Subscribe(c) ==
  /\ Command
  /\ c \in Clients
  /\ \/ /\ Free0 # {}
        /\ Scratch({Pick(Free0)})
        /\ queue' = [queue EXCEPT ![c] = IF @ < QueueSize THEN @ + 1 ELSE @]
        /\ UNCHANGED <<live, client, calls, link, opened, event>>
     \/ Free0 = {} /\ GoDown

-----------------------------------------------------------------------------
(* The library and the callbacks. *)

Notify(c, kind) ==
  event' = [handle |-> c, callback |-> calls[client[c].user_data][kind]]

\* The library has reached the broker at client->host and sent the will.
mqttConnectedCb(c) ==
  /\ c \in Clients
  /\ link[c] = "dialling"
  /\ link' = [link EXCEPT ![c] = "on"]
  /\ opened' = [handle |-> c, host |-> Text(client[c].host),
                topic |-> Text(client[c].will_topic),
                message |-> Text(client[c].will_message)]
  /\ Notify(c, "connectedCb")
  /\ UNCHANGED <<heap, queue, bounds>>

\* A connection that was lost is dialled again, one that the host has closed
\* is not.
mqttDisconnectedCb(c) ==
  /\ c \in Clients
  /\ link[c] \in {"on", "leaving"}
  /\ link' = [link EXCEPT ![c] = IF @ = "on" THEN "dialling" ELSE "off"]
  /\ Notify(c, "disconnectedCb")
  /\ UNCHANGED <<heap, queue, opened, bounds>>

\* A message has left the queue; publishedCb is for publications only.
mqttPublishedCb(c) ==
  /\ c \in Clients
  /\ link[c] = "on"
  /\ queue[c] > 0
  /\ queue' = [queue EXCEPT ![c] = @ - 1]
  /\ Notify(c, "publishedCb") \/ UNCHANGED event
  /\ UNCHANGED <<heap, link, opened, bounds>>

mqttDataCb(c) ==
  /\ c \in Clients
  /\ link[c] = "on"
  /\ Notify(c, "dataCb")
  /\ UNCHANGED <<heap, library, opened, bounds>>

Restart ==
  /\ resets < MaxResets
  /\ resets' = resets + 1
  /\ GoDown
  /\ UNCHANGED commands

-----------------------------------------------------------------------------
Host ==
  \/ \E callbacks \in CallbackSets : MQTTAPP_Setup(callbacks)
  \/ \E c \in Blocks, t, m \in Texts : MQTTAPP_Lwt(c, t, m)
  \/ \E c \in Blocks, t \in Texts : MQTTAPP_Connect(c, t)
  \/ \E c \in Blocks : \/ MQTTAPP_Disconnect(c) \/ MQTTAPP_Publish(c)
                       \/ MQTTAPP_Subscribe(c)

Library ==
  \E c \in Blocks : \/ mqttConnectedCb(c) \/ mqttDisconnectedCb(c)
                    \/ mqttPublishedCb(c) \/ mqttDataCb(c)

Next == Host \/ Library \/ Restart

Spec == Init /\ [][Next]_vars

-----------------------------------------------------------------------------
(* Properties. *)

TypeOK ==
  /\ live \subseteq Blocks
  /\ client \in [Blocks -> [Fields -> Blocks \cup {NULL}] \cup {NoClient}]
  /\ text \in [Blocks -> Texts \cup {NoText}]
  /\ calls \in [Blocks -> CallbackSets]
  /\ link \in [Blocks -> {"off", "dialling", "on", "leaving"}]
  /\ queue \in [Blocks -> 0..QueueSize]
  /\ commands \in 0..MaxCommands /\ resets \in 0..MaxResets

\* Every block has one owner, whatever commands came before: a client or one
\* field of one client.  No field points to a freed block or to one that
\* another field uses, and no block is lost.
Pointers(c) == {client[c][f] : f \in Fields} \ {NULL}
Owned(c) == {c} \cup Pointers(c)

Ownership ==
  /\ \A c \in Clients : client[c].user_data # NULL
  /\ live = UNION {Owned(c) : c \in Clients}
  /\ \A c, d \in Clients : c # d => Owned(c) \cap Owned(d) = {}
  /\ \A c \in Clients : \A f, g \in Fields :
       client[c][f] # NULL => /\ client[c][f] # c
                              /\ f # g => client[c][f] # client[c][g]

\* The application keeps what MqttSession promises: the library connects with
\* the host and the will last given for that client, and an event carries its
\* callbacks, read through the pointers as they are at that time.
Sessions ==
  [c \in Blocks |->
     IF client[c] = NoClient THEN NoClient
     ELSE [callbacks |-> calls[client[c].user_data], host |-> Text(client[c].host),
           topic |-> Text(client[c].will_topic),
           message |-> Text(client[c].will_message)]]

Session == INSTANCE MqttSession
             WITH Handles <- Blocks, NoSession <- NoClient, session <- Sessions

ImplementsSession == Session!AbsSpec
=============================================================================
