--------------------------- MODULE MqttAppProofs ---------------------------
(***************************************************************************)
(* Proofs about the MQTT application for every heap, every allocator and   *)
(* every number of commands.                                               *)
(***************************************************************************)
EXTENDS MqttApp, TLAPS

\* What a chain of allocations takes out of the free blocks stays free.
LEMMA RestIsFree ==
  ASSUME NEW free \in SUBSET Blocks
  PROVE  /\ Rest(free) \in SUBSET Blocks
         /\ Rest(free) \subseteq free
         /\ Rest(free) # {} => free # {}
         /\ free # {} => Pick(free) \in free /\ Pick(free) \notin Rest(free)
  BY BlocksAssumption DEF Rest

\* When the chain of MQTTAPP_Setup is long enough, all it picks is free.
LEMMA FreeChain ==
  ASSUME Free5 # {}
  PROVE  /\ {Pick(Free0), Pick(Free1), Pick(Free2), Pick(Free3), Pick(Free4),
             Pick(Free5)} \subseteq Free0
         /\ Pick(Free4) \in Free1 /\ Pick(Free0) \notin Free1
         /\ Pick(Free5) \in Free1 /\ Pick(Free5) # Pick(Free4)
<1>0. Free0 \in SUBSET Blocks
  BY DEF Free0
<1>1. Free1 \in SUBSET Blocks /\ Free1 \subseteq Free0 /\ (Free1 # {} => Free0 # {})
      /\ (Free0 # {} => Pick(Free0) \in Free0 /\ Pick(Free0) \notin Free1)
  BY <1>0, RestIsFree DEF Free1
<1>2. Free2 \in SUBSET Blocks /\ Free2 \subseteq Free1 /\ (Free2 # {} => Free1 # {})
      /\ (Free1 # {} => Pick(Free1) \in Free1)
  BY <1>1, RestIsFree DEF Free2
<1>3. Free3 \in SUBSET Blocks /\ Free3 \subseteq Free2 /\ (Free3 # {} => Free2 # {})
      /\ (Free2 # {} => Pick(Free2) \in Free2)
  BY <1>2, RestIsFree DEF Free3
<1>4. Free4 \in SUBSET Blocks /\ Free4 \subseteq Free3 /\ (Free4 # {} => Free3 # {})
      /\ (Free3 # {} => Pick(Free3) \in Free3)
  BY <1>3, RestIsFree DEF Free4
<1>5. /\ Free5 \in SUBSET Blocks /\ Free5 \subseteq Free4 /\ (Free5 # {} => Free4 # {})
      /\ Free4 # {} => Pick(Free4) \in Free4 /\ Pick(Free4) \notin Free5
  BY <1>4, RestIsFree DEF Free5
<1>6. Pick(Free5) \in Free5
  BY <1>5, RestIsFree
<1>7. QED
  BY <1>1, <1>2, <1>3, <1>4, <1>5, <1>6

\* The blocks of the client, of the library's part and of the callbacks are
\* free and differ.
LEMMA SetupBlocks ==
  ASSUME Free5 # {}
  PROVE  /\ {Pick(Free0), Pick(Free4), Pick(Free5)} \subseteq Free0
         /\ Pick(Free0) # Pick(Free4)
         /\ Pick(Free0) # Pick(Free5)
         /\ Pick(Free4) # Pick(Free5)
  BY FreeChain

-----------------------------------------------------------------------------
(* Ownership as a relation between a set of live blocks and clients, so that *)
(* it can be followed through the middle of a handler.                       *)

ClientsOf(cl) == {c \in Blocks : cl[c] # NoClient}
OwnedBy(cl, c) == {c} \cup ({cl[c][f] : f \in Fields} \ {NULL})

Owns(lv, cl) ==
  /\ cl \in [Blocks -> [Fields -> Blocks \cup {NULL}] \cup {NoClient}]
  /\ \A c \in ClientsOf(cl) : cl[c]["user_data"] # NULL
  /\ lv = UNION {OwnedBy(cl, c) : c \in ClientsOf(cl)}
  /\ \A c, d \in ClientsOf(cl) : c # d => OwnedBy(cl, c) \cap OwnedBy(cl, d) = {}
  /\ \A c \in ClientsOf(cl) : \A f, g \in Fields :
       cl[c][f] # NULL => /\ cl[c][f] # c
                          /\ f # g => cl[c][f] # cl[c][g]

LEMMA OwnershipIsOwns ==
  ASSUME client \in [Blocks -> [Fields -> Blocks \cup {NULL}] \cup {NoClient}]
  PROVE  Ownership <=> Owns(live, client)
  BY DEF Ownership, Owns, Clients, ClientsOf, Owned, OwnedBy, Pointers

\* A field given a block that is free once the field's own is: the step that
\* MQTTAPP_Connect makes once and MQTTAPP_Lwt twice.
LEMMA ReplaceField ==
  ASSUME NEW lv, NEW cl, Owns(lv, cl),
         NEW c \in ClientsOf(cl), NEW f \in Fields,
         NEW b \in Blocks, b \notin lv \ {cl[c][f]}
  PROVE  Owns((lv \ {cl[c][f]}) \cup {b}, [cl EXCEPT ![c][f] = b])
<1> DEFINE new == [cl EXCEPT ![c][f] = b]
<1>1. /\ cl[c] \in [Fields -> Blocks \cup {NULL}] /\ c \in Blocks
      /\ cl \in [Blocks -> [Fields -> Blocks \cup {NULL}] \cup {NoClient}]
  BY DEF Owns, ClientsOf
<1>2. b # NULL /\ NULL \notin Blocks
  BY BlocksAssumption
<1>3. /\ new \in [Blocks -> [Fields -> Blocks \cup {NULL}] \cup {NoClient}]
      /\ new[c] \in [Fields -> Blocks \cup {NULL}]
      /\ new[c][f] = b
      /\ \A g \in Fields \ {f} : new[c][g] = cl[c][g]
      /\ \A d \in Blocks \ {c} : new[d] = cl[d]
  BY <1>1
<1>4. ClientsOf(new) = ClientsOf(cl)
  BY <1>1, <1>3, NoClientAssumption DEF ClientsOf
<1>5. \A d \in ClientsOf(cl) \ {c} : OwnedBy(new, d) = OwnedBy(cl, d)
  BY <1>3 DEF OwnedBy, ClientsOf
<1>6. OwnedBy(cl, c) \subseteq lv
  BY DEF Owns
<1>7. b # c /\ \A g \in Fields \ {f} : b # cl[c][g]
  <2>1. c \in lv /\ c # cl[c][f]
    BY <1>1, <1>2, <1>6 DEF Owns, OwnedBy
  <2>2. ASSUME NEW g \in Fields \ {f}, cl[c][g] # NULL
        PROVE  cl[c][g] \in lv \ {cl[c][f]}
    BY <1>1, <1>6, <2>2 DEF Owns, OwnedBy
  <2>3. QED
    BY <1>2, <2>1, <2>2
<1>8. OwnedBy(new, c) = (OwnedBy(cl, c) \ {cl[c][f]}) \cup {b}
  <2>1. c # cl[c][f] /\ \A g \in Fields \ {f} : cl[c][g] # NULL => cl[c][g] # cl[c][f]
    BY <1>1, <1>2 DEF Owns
  <2>2. OwnedBy(new, c) = {c} \cup ({cl[c][g] : g \in Fields \ {f}} \ {NULL}) \cup {b}
    BY <1>2, <1>3 DEF OwnedBy
  <2>3. OwnedBy(cl, c) \ {cl[c][f]}
          = {c} \cup ({cl[c][g] : g \in Fields \ {f}} \ {NULL})
    BY <2>1 DEF OwnedBy
  <2>4. QED
    BY <2>2, <2>3
<1>9. \A d \in ClientsOf(cl) \ {c} :
        /\ b \notin OwnedBy(cl, d)
        /\ cl[c][f] \notin OwnedBy(cl, d)
  <2> SUFFICES ASSUME NEW d \in ClientsOf(cl) \ {c}
               PROVE  b \notin OwnedBy(cl, d) /\ cl[c][f] \notin OwnedBy(cl, d)
    OBVIOUS
  <2>1. OwnedBy(cl, d) \subseteq lv /\ OwnedBy(cl, d) \cap OwnedBy(cl, c) = {}
    BY DEF Owns
  <2>2. cl[c][f] \in OwnedBy(cl, c) \cup {NULL}
    BY DEF OwnedBy
  <2>3. NULL \notin OwnedBy(cl, d)
    BY <1>2 DEF OwnedBy, ClientsOf
  <2>4. QED
    BY <2>1, <2>2, <2>3
<1>10. UNION {OwnedBy(new, d) : d \in ClientsOf(new)} = (lv \ {cl[c][f]}) \cup {b}
  <2>1. lv = UNION {OwnedBy(cl, d) : d \in ClientsOf(cl)}
    BY DEF Owns
  <2>2. lv = OwnedBy(cl, c) \cup UNION {OwnedBy(cl, d) : d \in ClientsOf(cl) \ {c}}
    BY <2>1
  <2>3. UNION {OwnedBy(new, d) : d \in ClientsOf(new)}
          = OwnedBy(new, c) \cup UNION {OwnedBy(cl, d) : d \in ClientsOf(cl) \ {c}}
    BY <1>4, <1>5
  <2>4. cl[c][f] \notin UNION {OwnedBy(cl, d) : d \in ClientsOf(cl) \ {c}}
    BY <1>9
  <2>5. QED
    BY <1>8, <2>2, <2>3, <2>4
<1>11. \A d, e \in ClientsOf(new) : d # e => OwnedBy(new, d) \cap OwnedBy(new, e) = {}
  <2>1. \A d \in ClientsOf(cl) \ {c} : OwnedBy(new, d) \cap OwnedBy(new, c) = {}
    <3> SUFFICES ASSUME NEW d \in ClientsOf(cl) \ {c}
                 PROVE  OwnedBy(new, d) \cap OwnedBy(new, c) = {}
      OBVIOUS
    <3>1. OwnedBy(new, d) = OwnedBy(cl, d)
      BY <1>5
    <3>2. OwnedBy(cl, d) \cap OwnedBy(cl, c) = {}
      BY DEF Owns
    <3>3. b \notin OwnedBy(cl, d)
      BY <1>9
    <3>4. QED
      BY <1>8, <3>1, <3>2, <3>3
  <2>2. \A d, e \in ClientsOf(cl) \ {c} :
          d # e => OwnedBy(new, d) \cap OwnedBy(new, e) = {}
    BY <1>5 DEF Owns
  <2>3. QED
    BY <1>4, <2>1, <2>2
<1>12. \A d \in ClientsOf(new) : \A g, h \in Fields :
         new[d][g] # NULL => new[d][g] # d /\ (g # h => new[d][g] # new[d][h])
  <2>1. ASSUME NEW d \in ClientsOf(cl) \ {c}, NEW g \in Fields, NEW h \in Fields,
               new[d][g] # NULL
        PROVE  new[d][g] # d /\ (g # h => new[d][g] # new[d][h])
    BY <1>3, <2>1 DEF Owns, ClientsOf
  <2>2. ASSUME NEW g \in Fields, NEW h \in Fields, new[c][g] # NULL
        PROVE  new[c][g] # c /\ (g # h => new[c][g] # new[c][h])
    <3>1. CASE g = f
      BY <1>3, <1>7, <3>1
    <3>2. CASE g # f
      BY <1>3, <1>7, <2>2, <3>2 DEF Owns
    <3>3. QED
      BY <3>1, <3>2
  <2>3. QED
    BY <1>4, <2>1, <2>2
<1>13. \A d \in ClientsOf(new) : new[d]["user_data"] # NULL
  BY <1>2, <1>3, <1>4 DEF Owns, ClientsOf
<1>14. QED
  BY <1>3, <1>10, <1>11, <1>12, <1>13 DEF Owns

-----------------------------------------------------------------------------
(* The inductive invariant.                                                 *)

IInv == TypeOK /\ Ownership

LEMMA InitIInv == Init => IInv
<1> SUFFICES ASSUME Init PROVE IInv
  OBVIOUS
<1>1. NoCalls \in CallbackSets
  BY MqttBoundsAssumption DEF NoCalls
<1>2. TypeOK
  BY <1>1, MqttBoundsAssumption DEF Init, TypeOK
<1>3. Clients = {} /\ live = {}
  BY DEF Init, Clients
<1>4. Ownership
  BY <1>3 DEF Ownership
<1>5. QED
  BY <1>2, <1>4 DEF IInv

\* A step that moves neither blocks nor pointers.
LEMMA HeapKept ==
  ASSUME IInv, UNCHANGED <<live, client>>
  PROVE  Ownership'
<1>1. Clients' = Clients
  BY DEF Clients
<1>2. \A c : Owned(c)' = Owned(c)
  BY DEF Owned, Pointers
<1>3. QED
  BY <1>1, <1>2 DEF IInv, Ownership

\* After an exception or a reset there are no clients.
LEMMA DownIsEmpty ==
  ASSUME IInv, GoDown
  PROVE  /\ Ownership'
         /\ live' \subseteq Blocks
         /\ client' \in [Blocks -> [Fields -> Blocks \cup {NULL}] \cup {NoClient}]
         /\ text' \in [Blocks -> Texts \cup {NoText}]
         /\ calls' \in [Blocks -> CallbackSets]
         /\ link' \in [Blocks -> {"off", "dialling", "on", "leaving"}]
         /\ queue' \in [Blocks -> 0..QueueSize]
<1>1. Clients' = {} /\ live' = {}
  BY DEF GoDown, Clients
<1>2. Ownership'
  BY <1>1 DEF Ownership
<1>3. QED
  BY <1>2, MqttBoundsAssumption DEF IInv, TypeOK, GoDown

\* A block that a handler takes out of the free ones and the fields it frees.
LEMMA FreeBlock ==
  ASSUME IInv, NEW c \in Clients, NEW fields \in SUBSET Fields,
         FreeWithout(c, fields) # {}
  PROVE  /\ Pick(FreeWithout(c, fields)) \in Blocks
         /\ Pick(FreeWithout(c, fields))
              \notin live \ {client[c][f] : f \in fields}
<1>1. client[c] \in [Fields -> Blocks \cup {NULL}]
  BY DEF IInv, TypeOK, Clients
<1>2. FreeWithout(c, fields) \in SUBSET Blocks
  BY <1>1 DEF FreeWithout, Free0
<1>3. Pick(FreeWithout(c, fields)) \in FreeWithout(c, fields)
  BY <1>2, BlocksAssumption
<1>4. QED
  BY <1>2, <1>3 DEF FreeWithout, Free0

\* MQTTAPP_Setup hands out three blocks to a client that was not there.
LEMMA SetupOwns ==
  ASSUME IInv, NEW callbacks \in CallbackSets, SetupDone(callbacks)
  PROVE  Owns(live', client')
<1> DEFINE new == Pick(Free0)
           state == Pick(Free4)
           cbs == Pick(Free5)
<1>1. /\ Owns(live, client) /\ live \subseteq Blocks
      /\ client \in [Blocks -> [Fields -> Blocks \cup {NULL}] \cup {NoClient}]
  BY OwnershipIsOwns DEF IInv, TypeOK
<1>2. /\ {new, state, cbs} \subseteq Blocks \ live
      /\ new # state /\ new # cbs /\ state # cbs
  BY <1>1, SetupBlocks DEF SetupDone, Free0
<1> HIDE DEF new, state, cbs
<1>3. /\ live' = live \cup {new, state, cbs}
      /\ client' = [client EXCEPT ![new] = NewFields(state, cbs)]
  BY DEF SetupDone, new, state, cbs
<1>4. /\ NewFields(state, cbs) \in [Fields -> Blocks \cup {NULL}]
      /\ NewFields(state, cbs)["user_data"] = cbs
      /\ NewFields(state, cbs)["state"] = state
      /\ \A f \in Fields \ {"user_data", "state"} : NewFields(state, cbs)[f] = NULL
  BY <1>2 DEF NewFields, Fields
<1>5. /\ new \in Blocks /\ NULL \notin Blocks
      /\ NewFields(state, cbs) # NoClient
  BY <1>2, <1>4, BlocksAssumption, NoClientAssumption
<1>6. /\ client' \in [Blocks -> [Fields -> Blocks \cup {NULL}] \cup {NoClient}]
      /\ client'[new] = NewFields(state, cbs)
      /\ \A d \in Blocks \ {new} : client'[d] = client[d]
  BY <1>1, <1>3, <1>4, <1>5
<1>7. new \notin ClientsOf(client)
  BY <1>1, <1>2 DEF Owns, OwnedBy
<1>8. ClientsOf(client') = ClientsOf(client) \cup {new}
  BY <1>5, <1>6 DEF ClientsOf
<1>9. \A d \in ClientsOf(client) : OwnedBy(client', d) = OwnedBy(client, d)
  BY <1>6, <1>7 DEF OwnedBy, ClientsOf
<1>10. OwnedBy(client', new) = {new, state, cbs}
  <2>1. {client'[new][f] : f \in Fields} \subseteq {state, cbs, NULL}
    BY <1>4, <1>6 DEF Fields
  <2>2. {state, cbs} \subseteq {client'[new][f] : f \in Fields}
    BY <1>4, <1>6 DEF Fields
  <2>3. NULL \notin {state, cbs}
    BY <1>2, <1>5
  <2>4. QED
    BY <2>1, <2>2, <2>3 DEF OwnedBy
<1>11. live' = UNION {OwnedBy(client', d) : d \in ClientsOf(client')}
  <2>1. live = UNION {OwnedBy(client, d) : d \in ClientsOf(client)}
    BY <1>1 DEF Owns
  <2>2. UNION {OwnedBy(client', d) : d \in ClientsOf(client')}
          = OwnedBy(client', new) \cup UNION {OwnedBy(client, d) : d \in ClientsOf(client)}
    BY <1>8, <1>9
  <2>3. QED
    BY <1>3, <1>10, <2>1, <2>2
<1>12. \A d, e \in ClientsOf(client') :
         d # e => OwnedBy(client', d) \cap OwnedBy(client', e) = {}
  <2>1. \A d \in ClientsOf(client) : OwnedBy(client', d) \cap OwnedBy(client', new) = {}
    <3> SUFFICES ASSUME NEW d \in ClientsOf(client)
                 PROVE  OwnedBy(client', d) \cap OwnedBy(client', new) = {}
      OBVIOUS
    <3>1. OwnedBy(client, d) \subseteq live
      BY <1>1 DEF Owns
    <3>2. QED
      BY <1>2, <1>9, <1>10, <3>1
  <2>2. \A d, e \in ClientsOf(client) :
          d # e => OwnedBy(client', d) \cap OwnedBy(client', e) = {}
    BY <1>1, <1>9 DEF Owns
  <2>3. QED
    BY <1>8, <2>1, <2>2
<1>13. \A d \in ClientsOf(client') : \A f, g \in Fields :
         client'[d][f] # NULL => /\ client'[d][f] # d
                                 /\ f # g => client'[d][f] # client'[d][g]
  <2>1. \A d \in ClientsOf(client) : \A f, g \in Fields :
          client'[d][f] # NULL => /\ client'[d][f] # d
                                  /\ f # g => client'[d][f] # client'[d][g]
    BY <1>1, <1>6, <1>7 DEF Owns, ClientsOf
  <2>2. \A f, g \in Fields :
          client'[new][f] # NULL => /\ client'[new][f] # new
                                    /\ f # g => client'[new][f] # client'[new][g]
    BY <1>2, <1>4, <1>5, <1>6 DEF Fields
  <2>3. QED
    BY <1>8, <2>1, <2>2
<1>14. \A d \in ClientsOf(client') : client'[d]["user_data"] # NULL
  BY <1>1, <1>2, <1>4, <1>5, <1>6, <1>8 DEF Owns, ClientsOf
<1>15. QED
  BY <1>6, <1>11, <1>12, <1>13, <1>14 DEF Owns

\* MQTTAPP_Connect replaces the host.
LEMMA ConnectOwns ==
  ASSUME IInv, NEW c \in Clients, NEW host \in Texts,
         FreeWithout(c, {"host"}) # {}, ConnectDone(c, host)
  PROVE  Owns(live', client')
<1> DEFINE b == Pick(FreeWithout(c, {"host"}))
<1>1. Owns(live, client) /\ c \in ClientsOf(client)
  BY OwnershipIsOwns DEF IInv, TypeOK, Clients, ClientsOf
<1>2. b \in Blocks /\ b \notin live \ {client[c]["host"]}
  BY FreeBlock DEF Fields
<1> HIDE DEF b
<1>3. Owns((live \ {client[c]["host"]}) \cup {b}, [client EXCEPT ![c]["host"] = b])
  BY <1>1, <1>2, ReplaceField DEF Fields
<1>4. /\ live' = (live \ {client[c]["host"]}) \cup {b}
      /\ client' = [client EXCEPT ![c]["host"] = b]
  BY DEF ConnectDone, b
<1>5. QED
  BY <1>3, <1>4

\* MQTTAPP_Lwt replaces the topic and then the message.
LEMMA LwtOwns ==
  ASSUME IInv, NEW c \in Clients, NEW topic \in Texts, NEW message \in Texts,
         LwtFits(c), LwtDone(c, topic, message)
  PROVE  Owns(live', client')
<1> DEFINE tb == Pick(FreeWithout(c, {"will_topic"}))
           mb == Pick(FreeWithout(c, {"will_topic", "will_message"}) \ {tb})
           oldTopic == client[c]["will_topic"]
           oldMessage == client[c]["will_message"]
           lv == (live \ {oldTopic}) \cup {tb}
           cl == [client EXCEPT ![c]["will_topic"] = tb]
<1>1. Owns(live, client) /\ c \in ClientsOf(client)
  BY OwnershipIsOwns DEF IInv, TypeOK, Clients, ClientsOf
<1>2. tb \in Blocks /\ tb \notin live \ {oldTopic}
  BY FreeBlock DEF Fields, LwtFits
<1>3. Owns(lv, cl)
  BY <1>1, <1>2, ReplaceField DEF Fields
<1>4. /\ client[c] \in [Fields -> Blocks \cup {NULL}] /\ c \in Blocks
      /\ client \in [Blocks -> [Fields -> Blocks \cup {NULL}] \cup {NoClient}]
  BY <1>1 DEF Owns, ClientsOf
<1>5. /\ cl[c]["will_message"] = oldMessage /\ c \in ClientsOf(cl)
  <2>1. cl[c] \in [Fields -> Blocks \cup {NULL}]
    BY <1>2, <1>4
  <2>2. QED
    BY <1>4, <2>1, NoClientAssumption DEF Fields, ClientsOf
<1>6. mb \in Blocks /\ mb \in FreeWithout(c, {"will_topic", "will_message"}) \ {tb}
  <2>1. FreeWithout(c, {"will_topic", "will_message"}) \ {tb} \in SUBSET Blocks
    BY <1>4 DEF FreeWithout, Free0, Fields
  <2>2. QED
    BY <2>1, BlocksAssumption DEF LwtFits
<1>7. mb \notin live \ {oldTopic, oldMessage}
  BY <1>6 DEF FreeWithout, Free0
<1>8. tb # mb
  BY <1>6
<1>9. tb # oldMessage
  <2>1. oldMessage # NULL => oldMessage \in live /\ oldMessage # oldTopic
    BY <1>1 DEF Owns, OwnedBy, Fields
  <2>2. QED
    BY <1>2, <2>1, BlocksAssumption
<1> HIDE DEF tb, mb
<1>10. Owns((lv \ {oldMessage}) \cup {mb}, [cl EXCEPT ![c]["will_message"] = mb])
  <2>1. mb \notin lv \ {cl[c]["will_message"]}
    BY <1>5, <1>7, <1>8
  <2> HIDE DEF lv, cl
  <2>2. QED
    BY <1>3, <1>5, <1>6, <2>1, ReplaceField DEF Fields
<1>11. live' = (lv \ {oldMessage}) \cup {mb}
  BY <1>9 DEF LwtDone, tb, mb
<1>12. client' = [cl EXCEPT ![c]["will_message"] = mb]
  BY <1>4 DEF LwtDone, tb, mb, Fields
<1>13. QED
  BY <1>10, <1>11, <1>12

\* From the three lemmas above to TypeOK and Ownership after the step.
LEMMA OwnsIsIInv ==
  ASSUME IInv, Owns(live', client'),
         text' \in [Blocks -> Texts \cup {NoText}],
         calls' \in [Blocks -> CallbackSets],
         link' \in [Blocks -> {"off", "dialling", "on", "leaving"}],
         queue' \in [Blocks -> 0..QueueSize],
         commands' \in 0..MaxCommands, resets' \in 0..MaxResets
  PROVE  IInv'
<1>1. client' \in [Blocks -> [Fields -> Blocks \cup {NULL}] \cup {NoClient}]
  BY DEF Owns
<1>2. live' \subseteq Blocks
  <2>1. \A c \in ClientsOf(client') : client'[c] \in [Fields -> Blocks \cup {NULL}]
    BY <1>1 DEF ClientsOf
  <2>2. \A c \in ClientsOf(client') : OwnedBy(client', c) \subseteq Blocks
    BY <2>1 DEF OwnedBy, ClientsOf
  <2>3. QED
    BY <2>2 DEF Owns
<1>3. Ownership'
  BY <1>1, OwnershipIsOwns DEF Ownership, Owns, Clients, ClientsOf, Owned, OwnedBy,
    Pointers
<1>4. QED
  BY <1>1, <1>2, <1>3 DEF IInv, TypeOK

LEMMA CommandInBounds ==
  ASSUME IInv, Command
  PROVE  commands' \in 0..MaxCommands /\ resets' \in 0..MaxResets
  BY MqttBoundsAssumption DEF IInv, TypeOK, Command

LEMMA DownIInv ==
  ASSUME IInv, GoDown, commands' \in 0..MaxCommands, resets' \in 0..MaxResets
  PROVE  IInv'
  BY DownIsEmpty DEF IInv, TypeOK

LEMMA NextIInv == IInv /\ [Next]_vars => IInv'
<1> SUFFICES ASSUME IInv, [Next]_vars PROVE IInv'
  OBVIOUS
<1> DEFINE TextType == [Blocks -> Texts \cup {NoText}]
<1>0. /\ live \subseteq Blocks
      /\ client \in [Blocks -> [Fields -> Blocks \cup {NULL}] \cup {NoClient}]
      /\ text \in TextType /\ calls \in [Blocks -> CallbackSets]
      /\ link \in [Blocks -> {"off", "dialling", "on", "leaving"}]
      /\ queue \in [Blocks -> 0..QueueSize]
      /\ commands \in 0..MaxCommands /\ resets \in 0..MaxResets
      /\ Clients \subseteq Blocks
  BY DEF IInv, TypeOK, Clients
<1>0a. Owns(live, client)
  BY <1>0, OwnershipIsOwns DEF IInv
<1>1. ASSUME NEW callbacks \in CallbackSets, MQTTAPP_Setup(callbacks) PROVE IInv'
  <2>1. commands' \in 0..MaxCommands /\ resets' \in 0..MaxResets
    BY <1>1, CommandInBounds DEF MQTTAPP_Setup
  <2>2. CASE SetupDone(callbacks)
    <3>1. Pick(Free5) \in Blocks
      BY <1>0, <2>2, SetupBlocks DEF SetupDone, Free0
    <3>2. text' \in TextType
      BY <1>0, <2>2 DEF SetupDone, Scratch
    <3>3. calls' \in [Blocks -> CallbackSets]
      BY <1>0, <2>2, <3>1 DEF SetupDone
    <3>4. link' = link /\ queue' = queue
      BY <2>2 DEF SetupDone, library
    <3>5. QED
      BY <1>0, <2>1, <2>2, <3>2, <3>3, <3>4, SetupOwns, OwnsIsIInv
  <2>3. CASE UNCHANGED <<heap, library, opened, event>>
    BY <1>0, <1>0a, <2>1, <2>3, OwnsIsIInv DEF heap, library
  <2>4. CASE GoDown
    BY <2>1, <2>4, DownIInv
  <2>5. QED
    BY <1>1, <2>2, <2>3, <2>4 DEF MQTTAPP_Setup
<1>2. ASSUME NEW c \in Blocks, NEW topic \in Texts, NEW message \in Texts,
             MQTTAPP_Lwt(c, topic, message)
      PROVE  IInv'
  <2>1. /\ commands' \in 0..MaxCommands /\ resets' \in 0..MaxResets
        /\ c \in Clients
    BY <1>2, CommandInBounds DEF MQTTAPP_Lwt
  <2>2. CASE LwtFits(c) /\ LwtDone(c, topic, message)
    <3>1. text' \in TextType
      BY <1>0, <2>2 DEF LwtDone
    <3>2. calls' = calls /\ link' = link /\ queue' = queue
      BY <2>2 DEF LwtDone, library
    <3>3. QED
      BY <1>0, <2>1, <2>2, <3>1, <3>2, LwtOwns, OwnsIsIInv
  <2>3. CASE GoDown
    BY <2>1, <2>3, DownIInv
  <2>4. QED
    BY <1>2, <2>2, <2>3 DEF MQTTAPP_Lwt
<1>3. ASSUME NEW c \in Blocks, NEW host \in Texts, MQTTAPP_Connect(c, host) PROVE IInv'
  <2>1. /\ commands' \in 0..MaxCommands /\ resets' \in 0..MaxResets
        /\ c \in Clients
    BY <1>3, CommandInBounds DEF MQTTAPP_Connect
  <2>2. CASE FreeWithout(c, {"host"}) # {} /\ ConnectDone(c, host)
    <3>1. text' \in TextType
      BY <1>0, <2>2 DEF ConnectDone
    <3>2. /\ calls' = calls /\ queue' = queue
          /\ link' \in [Blocks -> {"off", "dialling", "on", "leaving"}]
      BY <1>0, <2>2 DEF ConnectDone
    <3>3. QED
      BY <1>0, <2>1, <2>2, <3>1, <3>2, ConnectOwns, OwnsIsIInv
  <2>3. CASE GoDown
    BY <2>1, <2>3, DownIInv
  <2>4. QED
    BY <1>3, <2>2, <2>3 DEF MQTTAPP_Connect
<1>4. ASSUME NEW c \in Blocks, MQTTAPP_Disconnect(c) PROVE IInv'
  <2>1. commands' \in 0..MaxCommands /\ resets' \in 0..MaxResets
    BY <1>4, CommandInBounds DEF MQTTAPP_Disconnect
  <2>2. link' \in [Blocks -> {"off", "dialling", "on", "leaving"}]
    BY <1>0, <1>4 DEF MQTTAPP_Disconnect
  <2>3. QED
    BY <1>0, <1>0a, <1>4, <2>1, <2>2, OwnsIsIInv DEF MQTTAPP_Disconnect, heap
<1>5. ASSUME NEW c \in Blocks, MQTTAPP_Publish(c) \/ MQTTAPP_Subscribe(c) PROVE IInv'
  <2>1. commands' \in 0..MaxCommands /\ resets' \in 0..MaxResets
    BY <1>5, CommandInBounds DEF MQTTAPP_Publish, MQTTAPP_Subscribe
  <2>2. CASE GoDown
    BY <2>1, <2>2, DownIInv
  <2>3. CASE ~GoDown
    <3>1. /\ UNCHANGED <<live, client, calls, link>>
          /\ queue' = [queue EXCEPT ![c] = IF @ < QueueSize THEN @ + 1 ELSE @]
          /\ \E blocks : Scratch(blocks)
      BY <1>5, <2>3 DEF MQTTAPP_Publish, MQTTAPP_Subscribe
    <3>2. text' \in TextType
      BY <1>0, <3>1 DEF Scratch
    <3>3. queue' \in [Blocks -> 0..QueueSize]
      BY <1>0, <3>1, MqttBoundsAssumption
    <3>4. QED
      BY <1>0, <1>0a, <2>1, <3>1, <3>2, <3>3, OwnsIsIInv
  <2>4. QED
    BY <2>2, <2>3
<1>6. ASSUME NEW c \in Blocks, mqttConnectedCb(c) \/ mqttDisconnectedCb(c) PROVE IInv'
  <2>1. UNCHANGED <<live, client, text, calls, queue, commands, resets>>
    BY <1>6 DEF mqttConnectedCb, mqttDisconnectedCb, heap, bounds
  <2>2. link' \in [Blocks -> {"off", "dialling", "on", "leaving"}]
    BY <1>0, <1>6 DEF mqttConnectedCb, mqttDisconnectedCb
  <2>3. QED
    BY <1>0, <1>0a, <2>1, <2>2, OwnsIsIInv
<1>7. ASSUME NEW c \in Blocks, mqttPublishedCb(c) PROVE IInv'
  <2>1. UNCHANGED <<live, client, text, calls, link, commands, resets>>
    BY <1>7 DEF mqttPublishedCb, heap, bounds
  <2>2. queue' \in [Blocks -> 0..QueueSize]
    BY <1>0, <1>7, MqttBoundsAssumption DEF mqttPublishedCb
  <2>3. QED
    BY <1>0, <1>0a, <2>1, <2>2, OwnsIsIInv
<1>8. ASSUME NEW c \in Blocks, mqttDataCb(c) PROVE IInv'
  BY <1>0, <1>0a, <1>8, OwnsIsIInv DEF mqttDataCb, heap, library, bounds
<1>9. CASE Restart
  <2>1. commands' \in 0..MaxCommands /\ resets' \in 0..MaxResets
    BY <1>0, <1>9, MqttBoundsAssumption DEF Restart
  <2>2. QED
    BY <1>9, <2>1, DownIInv DEF Restart
<1>10. CASE UNCHANGED vars
  BY <1>0, <1>0a, <1>10, OwnsIsIInv DEF vars, heap, library, bounds
<1>11. QED
  BY <1>1, <1>2, <1>3, <1>4, <1>5, <1>6, <1>7, <1>8, <1>9, <1>10
    DEF Next, Host, Library

LEMMA IInvInductive == Spec => []IInv
  BY InitIInv, NextIInv, PTL DEF Spec

\* The pointers, texts and counters stay in their domains.
THEOREM TypeCorrect == Spec => []TypeOK
<1>1. IInv => TypeOK
  BY DEF IInv
<1>2. QED
  BY <1>1, IInvInductive, PTL

\* Every live block has one owner, and every pointer leads to a live block
\* that no other field uses, whatever the allocator chooses.
THEOREM BlocksAreOwned == Spec => []Ownership
<1>1. IInv => Ownership
  BY DEF IInv
<1>2. QED
  BY <1>1, IInvInductive, PTL

-----------------------------------------------------------------------------
(* The application implements MqttSession: each step, seen through the     *)
(* pointers, is one of a session's or none.                                *)

LEMMA HeapTypes ==
  ASSUME IInv
  PROVE  /\ live \subseteq Blocks
         /\ client \in [Blocks -> [Fields -> Blocks \cup {NULL}] \cup {NoClient}]
         /\ text \in [Blocks -> Texts \cup {NoText}]
         /\ calls \in [Blocks -> CallbackSets]
         /\ Owns(live, client)
         /\ Clients \subseteq Blocks /\ Clients = ClientsOf(client)
  BY OwnershipIsOwns DEF IInv, TypeOK, Clients, ClientsOf

\* The blocks of a client are live, and none of them is another client's.
LEMMA OwnedAreLive ==
  ASSUME IInv, NEW c \in Clients
  PROVE  /\ c \in live
         /\ client[c] \in [Fields -> Blocks \cup {NULL}]
         /\ client[c]["user_data"] \in live
         /\ \A f \in Fields : client[c][f] # NULL => client[c][f] \in live
         /\ \A f, g \in Fields :
              client[c][f] # NULL /\ f # g => client[c][f] # client[c][g]
         /\ \A d \in Clients \ {c} : \A f, g \in Fields :
              client[c][f] # NULL => client[c][f] # client[d][g]
<1>1. Owns(live, client) /\ c \in ClientsOf(client) /\ Clients = ClientsOf(client)
      /\ client[c] \in [Fields -> Blocks \cup {NULL}]
  BY HeapTypes DEF ClientsOf
<1>2. OwnedBy(client, c) \subseteq live
  BY <1>1 DEF Owns
<1>3. \A f \in Fields : client[c][f] # NULL => client[c][f] \in OwnedBy(client, c)
  BY DEF OwnedBy
<1>4. c \in live /\ \A f \in Fields : client[c][f] # NULL => client[c][f] \in live
  BY <1>2, <1>3 DEF OwnedBy
<1>5. client[c]["user_data"] # NULL /\ "user_data" \in Fields
  BY <1>1 DEF Owns, Fields
<1>6. \A d \in Clients \ {c} : \A f, g \in Fields :
        client[c][f] # NULL => client[c][f] # client[d][g]
  <2> SUFFICES ASSUME NEW d \in Clients \ {c}, NEW f \in Fields, NEW g \in Fields,
                      client[c][f] # NULL
               PROVE  client[c][f] # client[d][g]
    OBVIOUS
  <2>1. OwnedBy(client, c) \cap OwnedBy(client, d) = {}
    BY <1>1 DEF Owns
  <2>2. client[d][g] # NULL => client[d][g] \in OwnedBy(client, d)
    BY DEF OwnedBy
  <2>3. QED
    BY <1>3, <2>1, <2>2
<1>7. \A f, g \in Fields :
        client[c][f] # NULL /\ f # g => client[c][f] # client[c][g]
  BY <1>1 DEF Owns
<1>8. QED
  BY <1>1, <1>4, <1>5, <1>6, <1>7

\* A client has a session.
LEMMA SessionIsThere ==
  ASSUME IInv, NEW c \in Clients
  PROVE  /\ c \in Blocks
         /\ Sessions[c] # NoClient
         /\ Sessions[c] = [callbacks |-> calls[client[c].user_data],
                           host |-> Text(client[c].host),
                           topic |-> Text(client[c].will_topic),
                           message |-> Text(client[c].will_message)]
<1>1. c \in Blocks /\ client[c] # NoClient /\ client[c] \in [Fields -> Blocks \cup {NULL}]
  BY HeapTypes DEF Clients
<1>2. {"user_data", "host", "will_topic", "will_message"} \subseteq Fields
  BY DEF Fields
<1>3. \A f \in Fields : Text(client[c][f]) \in Texts \cup {NoText}
  BY <1>1, HeapTypes DEF Text
<1>4. calls[client[c]["user_data"]] \in CallbackSets
  BY <1>1, HeapTypes, OwnedAreLive
<1>5. QED
  BY <1>1, <1>2, <1>3, <1>4, NoClientAssumption DEF Sessions

\* A client whose fields and whose blocks are left alone keeps its session.
LEMMA SessionKept ==
  ASSUME IInv, NEW d \in Blocks, client'[d] = client[d],
         d \in Clients =>
           \A f \in Fields : client[d][f] # NULL =>
             /\ text'[client[d][f]] = text[client[d][f]]
             /\ calls'[client[d][f]] = calls[client[d][f]]
  PROVE  Sessions'[d] = Sessions[d]
<1>1. CASE client[d] = NoClient
  BY <1>1 DEF Sessions
<1>2. CASE client[d] # NoClient
  <2>1. d \in Clients
    BY <1>2 DEF Clients
  <2>2. /\ client[d]["user_data"] # NULL
        /\ {"user_data", "host", "will_topic", "will_message"} \subseteq Fields
    BY <2>1 DEF IInv, Ownership, Fields
  <2>3. /\ calls'[client'[d].user_data] = calls[client[d].user_data]
        /\ Text(client[d].host)' = Text(client[d].host)
        /\ Text(client[d].will_topic)' = Text(client[d].will_topic)
        /\ Text(client[d].will_message)' = Text(client[d].will_message)
    BY <2>1, <2>2 DEF Text
  <2>4. QED
    BY <1>2, <2>3 DEF Sessions
<1>3. QED
  BY <1>1, <1>2

\* The callbacks and the settings of a session, one by one.
LEMMA SessionFields ==
  ASSUME IInv, NEW c \in Clients
  PROVE  /\ c \in Blocks
         /\ Sessions[c] # NoClient
         /\ Sessions[c].callbacks = calls[client[c].user_data]
         /\ Sessions[c].host = Text(client[c].host)
         /\ Sessions[c].topic = Text(client[c].will_topic)
         /\ Sessions[c].message = Text(client[c].will_message)
<1>1. Sessions[c] = [callbacks |-> calls[client[c].user_data],
                     host |-> Text(client[c].host),
                     topic |-> Text(client[c].will_topic),
                     message |-> Text(client[c].will_message)]
  BY SessionIsThere
<1>2. QED
  BY <1>1, SessionIsThere

\* Free blocks may be written to.
LEMMA ScratchKeepsSessions ==
  ASSUME IInv, UNCHANGED <<client, calls>>,
         NEW blocks, blocks \cap live = {}, Scratch(blocks)
  PROVE  Sessions' = Sessions
<1>1. \A b \in live : text'[b] = text[b]
  BY HeapTypes DEF Scratch
<1>2. ASSUME NEW d \in Blocks PROVE Sessions'[d] = Sessions[d]
  BY <1>1, OwnedAreLive, SessionKept
<1>3. QED
  BY <1>2 DEF Sessions

LEMMA DownIsReset == ASSUME IInv, GoDown PROVE Session!Reset
<1>1. Sessions' = [h \in Blocks |-> NoClient]
  BY DEF GoDown, Sessions
<1>2. QED
  BY <1>1 DEF GoDown, Session!Reset

\* A step that leaves every session but one alone is an EXCEPT.
LEMMA SessionReplaced ==
  ASSUME NEW c \in Blocks, NEW s, Sessions'[c] = s,
         \A d \in Blocks \ {c} : Sessions'[d] = Sessions[d]
  PROVE  Sessions' = [Sessions EXCEPT ![c] = s]
<1>1. Sessions = [d \in Blocks |-> Sessions[d]]
  BY DEF Sessions
<1>2. Sessions' = [d \in Blocks |-> Sessions'[d]]
  BY DEF Sessions
<1>3. [d \in Blocks |-> Sessions'[d]] = [Sessions EXCEPT ![c] = s]
  BY <1>1
<1>4. QED
  BY <1>2, <1>3

LEMMA SetupIsSetup ==
  ASSUME IInv, NEW callbacks \in CallbackSets, SetupDone(callbacks)
  PROVE  Session!Setup
<1> DEFINE new == Pick(Free0)
           state == Pick(Free4)
           cbs == Pick(Free5)
<1>1. /\ {new, state, cbs} \subseteq Blocks \ live
      /\ new # state /\ new # cbs /\ state # cbs
  BY HeapTypes, SetupBlocks DEF SetupDone, Free0
<1>2. Scratch({new, Pick(Free1), Pick(Free2), Pick(Free3), state, cbs})
  BY DEF SetupDone
<1>3. {new, Pick(Free1), Pick(Free2), Pick(Free3), state, cbs} \cap live = {}
  BY HeapTypes, FreeChain DEF SetupDone, Free0
<1> HIDE DEF new, state, cbs
<1>4. /\ client' = [client EXCEPT ![new] = NewFields(state, cbs)]
      /\ calls' = [calls EXCEPT ![cbs] = callbacks]
      /\ UNCHANGED <<link, opened, event>>
  BY DEF SetupDone, library, new, state, cbs
<1>5. /\ NewFields(state, cbs) \in [Fields -> Blocks \cup {NULL}]
      /\ NewFields(state, cbs)["user_data"] = cbs
      /\ NewFields(state, cbs)["host"] = NULL
      /\ NewFields(state, cbs)["will_topic"] = NULL
      /\ NewFields(state, cbs)["will_message"] = NULL
  BY <1>1 DEF NewFields, Fields
<1>6. /\ client'[new] = NewFields(state, cbs)
      /\ \A d \in Blocks \ {new} : client'[d] = client[d]
      /\ calls'[cbs] = callbacks
      /\ \A b \in live : calls'[b] = calls[b] /\ text'[b] = text[b]
  BY <1>1, <1>2, <1>3, <1>4, HeapTypes DEF Scratch
<1>7. new \notin Clients /\ client[new] = NoClient
  BY <1>1, OwnedAreLive DEF Clients
<1>8. Sessions[new] = NoClient
  BY <1>1, <1>7 DEF Sessions
<1>9. Sessions'[new] = Session!NewSession(callbacks)
  <2>1. client'[new] # NoClient
    BY <1>5, <1>6, NoClientAssumption
  <2>2. QED
    BY <1>1, <1>5, <1>6, <2>1 DEF Sessions, Text, Session!NewSession
<1>10. ASSUME NEW d \in Blocks \ {new} PROVE Sessions'[d] = Sessions[d]
  <2>1. d \in Clients => \A f \in Fields : client[d][f] # NULL =>
          /\ text'[client[d][f]] = text[client[d][f]]
          /\ calls'[client[d][f]] = calls[client[d][f]]
    BY <1>6, OwnedAreLive
  <2>2. QED
    BY <1>6, <2>1, SessionKept
<1>11. Sessions' = [Sessions EXCEPT ![new] = Session!NewSession(callbacks)]
  BY <1>1, <1>9, <1>10, SessionReplaced
<1>12. QED
  BY <1>1, <1>4, <1>8, <1>11 DEF Session!Setup

LEMMA ConnectIsConnect ==
  ASSUME IInv, NEW c \in Clients, NEW host \in Texts,
         FreeWithout(c, {"host"}) # {}, ConnectDone(c, host)
  PROVE  Session!Connect(c, host)
<1> DEFINE b == Pick(FreeWithout(c, {"host"}))
<1>1. b \in Blocks /\ b \notin live \ {client[c]["host"]}
  BY FreeBlock DEF Fields
<1> HIDE DEF b
<1>2. /\ client' = [client EXCEPT ![c]["host"] = b]
      /\ text' = [text EXCEPT ![b] = host]
      /\ link' = [link EXCEPT ![c] = "dialling"]
      /\ UNCHANGED <<calls, opened, event>>
  BY DEF ConnectDone, b
<1>3. /\ c \in Blocks /\ client[c] \in [Fields -> Blocks \cup {NULL}]
      /\ client[c] # NoClient
  BY OwnedAreLive DEF Clients
<1>4. /\ client'[c]["host"] = b
      /\ \A f \in Fields \ {"host"} : client'[c][f] = client[c][f]
      /\ \A d \in Blocks \ {c} : client'[d] = client[d]
      /\ client'[c] \in [Fields -> Blocks \cup {NULL}]
  <2>1. /\ client'[c] = [client[c] EXCEPT !["host"] = b]
        /\ \A d \in Blocks \ {c} : client'[d] = client[d]
    BY <1>2, <1>3, HeapTypes
  <2>2. "host" \in Fields
    BY DEF Fields
  <2>3. QED
    BY <1>1, <1>3, <2>1, <2>2
<1>5. text'[b] = host /\ \A p \in Blocks \ {b} : text'[p] = text[p]
  BY <1>1, <1>2, HeapTypes
<1>6. \A f \in Fields \ {"host"} : client[c][f] # NULL =>
        client[c][f] \in Blocks \ {b}
  BY <1>1, <1>3, OwnedAreLive, HeapTypes DEF Fields
<1>7. Sessions[c] = [callbacks |-> calls[client[c]["user_data"]],
                     host |-> Text(client[c]["host"]),
                     topic |-> Text(client[c]["will_topic"]),
                     message |-> Text(client[c]["will_message"])]
  BY <1>3 DEF Sessions
<1>8. Sessions'[c] = [callbacks |-> calls[client[c]["user_data"]],
                      host |-> host,
                      topic |-> Text(client[c]["will_topic"]),
                      message |-> Text(client[c]["will_message"])]
  <2>1. client'[c] # NoClient
    BY <1>4, NoClientAssumption
  <2>2. b # NULL
    BY <1>1, BlocksAssumption
  <2>3. {"user_data", "will_topic", "will_message"} \subseteq Fields \ {"host"}
    BY DEF Fields
  <2>4. /\ Text(client[c]["will_topic"])' = Text(client[c]["will_topic"])
        /\ Text(client[c]["will_message"])' = Text(client[c]["will_message"])
        /\ client'[c]["user_data"] = client[c]["user_data"]
        /\ client'[c]["will_topic"] = client[c]["will_topic"]
        /\ client'[c]["will_message"] = client[c]["will_message"]
    BY <1>4, <1>5, <1>6, <2>3 DEF Text
  <2>5. Text(client[c]["host"])' = host
    BY <1>4, <1>5, <2>2 DEF Text
  <2>6. Sessions'[c] = [callbacks |-> calls'[client'[c]["user_data"]],
                        host |-> Text(client[c]["host"])',
                        topic |-> Text(client[c]["will_topic"])',
                        message |-> Text(client[c]["will_message"])']
    BY <1>3, <2>1 DEF Sessions
  <2>7. QED
    BY <1>2, <2>4, <2>5, <2>6
<1>9. ASSUME NEW d \in Blocks \ {c} PROVE Sessions'[d] = Sessions[d]
  <2>1. d \in Clients => \A f \in Fields : client[d][f] # NULL =>
          client[d][f] \in Blocks \ {b}
    <3> SUFFICES ASSUME d \in Clients, NEW f \in Fields, client[d][f] # NULL
                 PROVE  client[d][f] \in Blocks \ {b}
      OBVIOUS
    <3>1. client[d][f] \in live /\ client[d][f] # client[c]["host"]
      BY OwnedAreLive DEF Fields
    <3>2. QED
      BY <1>1, <3>1, HeapTypes
  <2>2. QED
    BY <1>2, <1>4, <1>5, <2>1, SessionKept
<1>10. Sessions' = [Sessions EXCEPT ![c].host = host]
  <2>1. Sessions'[c] = [Sessions[c] EXCEPT !.host = host]
    BY <1>7, <1>8
  <2>2. Sessions' = [Sessions EXCEPT ![c] = [Sessions[c] EXCEPT !.host = host]]
    BY <1>3, <1>9, <2>1, SessionReplaced
  <2>3. QED
    BY <2>2
<1>11. Sessions[c] # NoClient
  BY <1>3, <1>7, SessionIsThere
<1>12. QED
  BY <1>2, <1>10, <1>11 DEF Session!Connect

LEMMA LwtIsLwt ==
  ASSUME IInv, NEW c \in Clients, NEW topic \in Texts, NEW message \in Texts,
         LwtFits(c), LwtDone(c, topic, message)
  PROVE  Session!Lwt(c, topic, message)
<1> DEFINE tb == Pick(FreeWithout(c, {"will_topic"}))
           mb == Pick(FreeWithout(c, {"will_topic", "will_message"}) \ {tb})
           oldTopic == client[c]["will_topic"]
           oldMessage == client[c]["will_message"]
<1>1. tb \in Blocks /\ tb \notin live \ {oldTopic}
  BY FreeBlock DEF Fields, LwtFits
<1>2. /\ c \in Blocks /\ client[c] \in [Fields -> Blocks \cup {NULL}]
      /\ client[c] # NoClient
  BY OwnedAreLive DEF Clients
<1>3. mb \in FreeWithout(c, {"will_topic", "will_message"}) \ {tb}
  <2>1. FreeWithout(c, {"will_topic", "will_message"}) \ {tb} \in SUBSET Blocks
    BY <1>2 DEF FreeWithout, Free0, Fields
  <2>2. QED
    BY <2>1, BlocksAssumption DEF LwtFits
<1>4. mb \in Blocks /\ mb # tb /\ mb \notin live \ {oldTopic, oldMessage}
  BY <1>2, <1>3 DEF FreeWithout, Free0, Fields
<1> HIDE DEF tb, mb
<1>5. /\ client' = [client EXCEPT ![c]["will_topic"] = tb, ![c]["will_message"] = mb]
      /\ text' = [text EXCEPT ![tb] = topic, ![mb] = message]
      /\ UNCHANGED <<calls, link, opened, event>>
  BY DEF LwtDone, library, tb, mb
<1>6. /\ client'[c]["will_topic"] = tb /\ client'[c]["will_message"] = mb
      /\ \A f \in Fields \ {"will_topic", "will_message"} : client'[c][f] = client[c][f]
      /\ \A d \in Blocks \ {c} : client'[d] = client[d]
      /\ client'[c] # NoClient
  <2>1. /\ client'[c] = [client[c] EXCEPT !["will_topic"] = tb, !["will_message"] = mb]
        /\ \A d \in Blocks \ {c} : client'[d] = client[d]
    BY <1>2, <1>5, HeapTypes
  <2>2. "will_topic" \in Fields /\ "will_message" \in Fields
    BY DEF Fields
  <2>3. client'[c] \in [Fields -> Blocks \cup {NULL}]
    BY <1>1, <1>2, <1>4, <2>1, <2>2
  <2>4. QED
    BY <1>2, <2>1, <2>2, <2>3, NoClientAssumption
<1>7. /\ text'[tb] = topic /\ text'[mb] = message
      /\ \A p \in Blocks \ {tb, mb} : text'[p] = text[p]
  BY <1>1, <1>4, <1>5, HeapTypes
<1>8. \A f \in Fields \ {"will_topic", "will_message"} : client[c][f] # NULL =>
        client[c][f] \in Blocks \ {tb, mb}
  <2> SUFFICES ASSUME NEW f \in Fields \ {"will_topic", "will_message"},
                      client[c][f] # NULL
               PROVE  client[c][f] \in Blocks \ {tb, mb}
    OBVIOUS
  <2>1. /\ client[c][f] \in live
        /\ client[c][f] # oldTopic /\ client[c][f] # oldMessage
    BY OwnedAreLive DEF Fields
  <2>2. QED
    BY <1>1, <1>4, <2>1, HeapTypes
<1>9. Sessions'[c] = Session!WithWill(Sessions[c], topic, message)
  <2>1. tb # NULL /\ mb # NULL
    BY <1>1, <1>4, BlocksAssumption
  <2>2. {"user_data", "host"} \subseteq Fields \ {"will_topic", "will_message"}
    BY DEF Fields
  <2>3. /\ Text(client[c]["host"])' = Text(client[c]["host"])
        /\ client'[c]["user_data"] = client[c]["user_data"]
    BY <1>6, <1>7, <1>8, <2>2 DEF Text
  <2>4. /\ Text(client[c]["will_topic"])' = topic
        /\ Text(client[c]["will_message"])' = message
    BY <1>6, <1>7, <2>1 DEF Text
  <2>5. Sessions'[c] = [callbacks |-> calls'[client'[c]["user_data"]],
                        host |-> Text(client[c]["host"])',
                        topic |-> Text(client[c]["will_topic"])',
                        message |-> Text(client[c]["will_message"])']
    BY <1>2, <1>6 DEF Sessions
  <2>6. Session!WithWill(Sessions[c], topic, message)
          = [callbacks |-> calls[client[c]["user_data"]],
             host |-> Text(client[c]["host"]),
             topic |-> topic, message |-> message]
    BY SessionFields DEF Session!WithWill
  <2>7. QED
    BY <1>5, <2>3, <2>4, <2>5, <2>6
<1>10. ASSUME NEW d \in Blocks \ {c} PROVE Sessions'[d] = Sessions[d]
  <2>1. d \in Clients => \A f \in Fields : client[d][f] # NULL =>
          client[d][f] \in Blocks \ {tb, mb}
    <3> SUFFICES ASSUME d \in Clients, NEW f \in Fields, client[d][f] # NULL
                 PROVE  client[d][f] \in Blocks \ {tb, mb}
      OBVIOUS
    <3>1. /\ client[d][f] \in live
          /\ client[d][f] # oldTopic /\ client[d][f] # oldMessage
      BY OwnedAreLive DEF Fields
    <3>2. QED
      BY <1>1, <1>4, <3>1, HeapTypes
  <2>2. QED
    BY <1>5, <1>6, <1>7, <2>1, SessionKept
<1>11. Sessions' =
         [Sessions EXCEPT ![c] = Session!WithWill(Sessions[c], topic, message)]
  BY <1>2, <1>9, <1>10, SessionReplaced
<1>12. QED
  BY <1>5, <1>11, SessionIsThere DEF Session!Lwt

-----------------------------------------------------------------------------
LEMMA InitIsInit == Init => Session!AbsInit
  BY DEF Init, Session!AbsInit, Sessions

AbsVarsKept == UNCHANGED <<Sessions, link, opened, event>>

LEMMA NextIsNext ==
  ASSUME IInv, [Next]_vars
  PROVE  [Session!AbsNext]_(Session!absVars)
<1> USE DEF Session!absVars
<1>1. ASSUME NEW callbacks \in CallbackSets, MQTTAPP_Setup(callbacks)
      PROVE  Session!Setup \/ Session!Reset \/ AbsVarsKept
  <2>1. CASE SetupDone(callbacks)
    BY <2>1, SetupIsSetup
  <2>2. CASE UNCHANGED <<heap, library, opened, event>>
    BY <2>2 DEF AbsVarsKept, heap, library, Sessions, Text
  <2>3. CASE GoDown
    BY <2>3, DownIsReset
  <2>4. QED
    BY <1>1, <2>1, <2>2, <2>3 DEF MQTTAPP_Setup
<1>2. ASSUME NEW c \in Blocks, NEW topic \in Texts, NEW message \in Texts,
             MQTTAPP_Lwt(c, topic, message)
      PROVE  Session!Lwt(c, topic, message) \/ Session!Reset
  BY <1>2, LwtIsLwt, DownIsReset DEF MQTTAPP_Lwt
<1>3. ASSUME NEW c \in Blocks, NEW host \in Texts, MQTTAPP_Connect(c, host)
      PROVE  Session!Connect(c, host) \/ Session!Reset
  BY <1>3, ConnectIsConnect, DownIsReset DEF MQTTAPP_Connect
<1>4. ASSUME NEW c \in Blocks, MQTTAPP_Disconnect(c)
      PROVE  Session!Disconnect(c)
  <2>1. UNCHANGED Sessions
    BY <1>4 DEF MQTTAPP_Disconnect, heap, Sessions, Text
  <2>2. QED
    BY <1>4, <2>1, SessionFields DEF MQTTAPP_Disconnect, Session!Disconnect
<1>5. ASSUME NEW c \in Blocks, MQTTAPP_Publish(c) \/ MQTTAPP_Subscribe(c)
      PROVE  AbsVarsKept \/ Session!Reset
  <2>1. CASE GoDown
    BY <2>1, DownIsReset
  <2>2. CASE ~GoDown
    <3>1. /\ UNCHANGED <<client, calls, link, opened, event>>
          /\ \/ Free0 # {} /\ Scratch({Pick(Free0)})
             \/ Free1 # {} /\ Scratch({Pick(Free0), Pick(Free1)})
      BY <1>5, <2>2 DEF MQTTAPP_Publish, MQTTAPP_Subscribe
    <3>2. Free0 \in SUBSET Blocks /\ Free0 \cap live = {}
      BY DEF Free0
    <3>3. /\ Free0 # {} => Pick(Free0) \in Free0
          /\ Free1 # {} => Pick(Free1) \in Free0 /\ Free0 # {}
      <4>1. Free1 \in SUBSET Blocks /\ Free1 \subseteq Free0
        BY <3>2, RestIsFree DEF Free1
      <4>2. QED
        BY <3>2, <4>1, RestIsFree
    <3>4. Sessions' = Sessions
      BY <3>1, <3>2, <3>3, ScratchKeepsSessions
    <3>5. QED
      BY <3>1, <3>4 DEF AbsVarsKept
  <2>3. QED
    BY <2>1, <2>2
<1>6. ASSUME NEW c \in Blocks, mqttConnectedCb(c)
      PROVE  Session!Open(c)
  <2>1. UNCHANGED Sessions /\ c \in Clients
    BY <1>6 DEF mqttConnectedCb, heap, Sessions, Text
  <2>2. QED
    BY <1>6, <2>1, SessionFields DEF mqttConnectedCb, Notify, Session!Open
<1>7. ASSUME NEW c \in Blocks, mqttDisconnectedCb(c)
      PROVE  Session!End(c)
  <2>1. UNCHANGED Sessions /\ c \in Clients
    BY <1>7 DEF mqttDisconnectedCb, heap, Sessions, Text
  <2>2. QED
    BY <1>7, <2>1, SessionFields DEF mqttDisconnectedCb, Notify, Session!End
<1>8. ASSUME NEW c \in Blocks, mqttPublishedCb(c)
      PROVE  Session!Message(c, "publishedCb") \/ AbsVarsKept
  <2>1. UNCHANGED Sessions /\ c \in Clients
    BY <1>8 DEF mqttPublishedCb, heap, Sessions, Text
  <2>2. QED
    BY <1>8, <2>1, SessionFields
      DEF mqttPublishedCb, Notify, Session!Message, AbsVarsKept
<1>9. ASSUME NEW c \in Blocks, mqttDataCb(c)
      PROVE  Session!Message(c, "dataCb")
  <2>1. UNCHANGED Sessions /\ c \in Clients
    BY <1>9 DEF mqttDataCb, heap, Sessions, Text
  <2>2. QED
    BY <1>9, <2>1, SessionFields DEF mqttDataCb, Notify, library, Session!Message
<1>10. CASE Restart
  BY <1>10, DownIsReset DEF Restart, Session!AbsNext
<1>11. CASE UNCHANGED vars
  BY <1>11 DEF vars, heap, library, Sessions, Text
<1>12. CASE Host
  BY <1>1, <1>2, <1>3, <1>4, <1>5, <1>12 DEF Host, Session!AbsNext, AbsVarsKept
<1>13. CASE Library
  BY <1>6, <1>7, <1>8, <1>9, <1>13 DEF Library, Session!AbsNext, AbsVarsKept
<1>14. QED
  BY <1>10, <1>11, <1>12, <1>13 DEF Next

\* Every behaviour of the application is one that MqttSession allows: what the
\* library reads through the pointers of a client when it connects or calls
\* back is what the host last gave for that handle.
THEOREM Implements == Spec => ImplementsSession
<1>1. IInv /\ [Next]_vars => [Session!AbsNext]_(Session!absVars)
  BY NextIsNext
<1>2. QED
  BY <1>1, InitIsInit, IInvInductive, PTL DEF Spec, ImplementsSession, Session!AbsSpec
=============================================================================
