---------------------------- MODULE RestClient ----------------------------
(***************************************************************************)
(* The REST client (modules/rest.c).  CMD_REST_SETUP makes a client with a *)
(* request buffer and a connection, CMD_REST_SETHEADER changes its headers,*)
(* CMD_REST_REQUEST composes a request in the buffer and connects, by way  *)
(* of the resolver when the host is not an address.  What happens next is  *)
(* in the callbacks: connected, send the buffer; received, turn the first  *)
(* segment into an event and disconnect; the others do nothing.            *)
(*                                                                         *)
(* Handlers and callbacks run to completion, so each is one action.  A     *)
(* request is a number, the composed buffer the number with the headers it *)
(* was composed of.  The resolver, the connections and the servers are     *)
(* external.  A command with a wrong number of arguments is answered 0 and *)
(* changes nothing; TLS is a connection like any other.                    *)
(***************************************************************************)
EXTENDS RestScan, FiniteSets

CONSTANTS
  Clients,      \* addresses at which a client can be allocated
  NoClient,
  Callbacks,    \* callbacks of the host's commands
  Values,       \* values of a header
  Default,      \* what REST_Setup puts there
  Responses,    \* what a server may answer: [status, head, body], the
                \* head with the status line and the blank line
  Cuts,         \* where TCP may cut an answer in two
  Serial,       \* the host waits until the request before is over
  MaxRequests,  \* bound: requests
  MaxSetups,    \* bound: clients set up, headers set
  MaxFaults     \* bound: faults of the network and resets of the chip

Hosts == {"address", "name"}
HEADER_GENERIC == 0
HEADER_CONTENT_TYPE == 1
HEADER_USER_AGENT == 2
HeaderTypes == HEADER_GENERIC..HEADER_USER_AGENT

ASSUME ClientsAssumption == NoClient \notin Clients /\ Default \in Values
ASSUME NoClientAssumption ==
  NoClient \notin [resp_cb : Callbacks, host : Hosts, ip : BOOLEAN,
                   headers : [HeaderTypes -> Values],
                   data : [id : Nat, headers : [HeaderTypes -> Values]]]
ASSUME ResponsesAssumption ==
  \A r \in Responses : /\ {r.head, r.body} \subseteq Seq(0..255)
                       /\ HttpHead(r.head, r.status)
ASSUME RestBoundsAssumption ==
  Serial \in BOOLEAN /\ Cuts \subseteq Nat \ {0} /\ {MaxRequests, MaxSetups, MaxFaults} \subseteq Nat

VARIABLES
  client,    \* the REST_CLIENT at an address, or NoClient
  lookups,   \* how many lookups of a client the resolver works on
  conn,      \* the client's connection
  inbox,     \* segments on their way to the client
  requests,  \* the host: the requests it made, each as it meant it
  wants,     \* the host: the headers it has set and the callback, per client
  sent,      \* the servers: the requests received, in order
  events,    \* the host: the events received, in order
  dropped,   \* requests that no event can follow
  setups, faults

net == <<lookups, conn, inbox>>
bounds == <<setups, faults>>
vars == <<client, net, requests, wants, sent, events, dropped, bounds>>

Connection == {"none", "connecting", "sent", "answered", "closing"}

Init ==
  /\ client = [c \in Clients |-> NoClient]
  /\ lookups = [c \in Clients |-> 0]
  /\ conn = [c \in Clients |-> "none"]
  /\ inbox = [c \in Clients |-> <<>>]
  /\ requests = <<>>
  /\ wants = [c \in Clients |-> NoClient]
  /\ sent = <<>> /\ events = <<>> /\ dropped = {}
  /\ setups = 0 /\ faults = 0

\* The request in the buffer of c, the one c's connection serves, and those
\* that are nowhere but in the buffer.
Newest(c) == client[c].data.id
IsSent(id) == \E i \in DOMAIN sent : sent[i].id = id
Serving(c) == LET mine == {i \in DOMAIN sent : sent[i].client = c}
              IN sent[CHOOSE i \in mine : \A k \in mine : k <= i].id
Unsent(c) == {id \in {Newest(c)} : id # 0 /\ ~IsSent(id)}
Busy(c) == conn[c] \in {"sent", "answered", "closing"}
Drop(ids) == dropped' = dropped \cup ids

Reported(id) == \E i \in DOMAIN events : events[i].id = id

-----------------------------------------------------------------------------
(* Commands.  The handle that REST_Setup answers is the client's address;  *)
(* the host uses those of the present boot.                                *)

NewHeaders == [h \in HeaderTypes |-> Default]

\* Fault: the callback is not kept.
NewClientNoCallback(callback, host) ==
  [resp_cb |-> NoClient, host |-> host, ip |-> FALSE,
   headers |-> NewHeaders, data |-> [id |-> 0, headers |-> NewHeaders]]

NewClient(callback, host) ==
  [resp_cb |-> callback, host |-> host, ip |-> FALSE,
   headers |-> NewHeaders, data |-> [id |-> 0, headers |-> NewHeaders]]

REST_Setup(c, callback, host) ==
  /\ setups < MaxSetups
  /\ setups' = setups + 1
  /\ client[c] = NoClient
  /\ client' = [client EXCEPT ![c] = NewClient(callback, host)]
  /\ wants' = [wants EXCEPT ![c] = [client |-> c, callback |-> callback,
                                    headers |-> NewHeaders]]
  /\ UNCHANGED <<net, requests, sent, events, dropped, faults>>

\* Everything but the host's memory is lost.
GoDown ==
  /\ client' = [c \in Clients |-> NoClient]
  /\ wants' = client'
  /\ lookups' = [c \in Clients |-> 0]
  /\ conn' = [c \in Clients |-> "none"]
  /\ inbox' = [c \in Clients |-> <<>>]
  /\ Drop({id \in DOMAIN requests : ~Reported(id)})
  /\ UNCHANGED <<requests, sent, events>>

\* No memory for another client: os_memset is given the null pointer before
\* it is tested, an exception that restarts the chip.
REST_SetupNoMemory ==
  /\ setups < MaxSetups
  /\ setups' = setups + 1
  /\ \A c \in Clients : client[c] # NoClient
  /\ GoDown
  /\ UNCHANGED faults

\* Fault: the case for the content type has no break.
HeadersWithFallThrough(c, index, value) ==
  [h \in HeaderTypes |->
     IF h = index \/ (index = HEADER_CONTENT_TYPE /\ h = HEADER_USER_AGENT)
       THEN value ELSE client[c].headers[h]]

\* An index without a case changes nothing.
HeadersWith(c, index, value) ==
  [h \in HeaderTypes |-> IF h = index THEN value ELSE client[c].headers[h]]

REST_SetHeader(c, index, value) ==
  /\ setups < MaxSetups
  /\ setups' = setups + 1
  /\ client[c] # NoClient
  /\ client' = [client EXCEPT ![c].headers = HeadersWith(c, index, value)]
  /\ wants' = IF index \in HeaderTypes
                THEN [wants EXCEPT ![c].headers[index] = value] ELSE wants
  /\ UNCHANGED <<net, requests, sent, events, dropped, faults>>

\* espconn_connect, whose result nobody looks at: a connection in use is not
\* opened once more.
espconn_connect(c) ==
  conn' = [conn EXCEPT ![c] = IF @ = "none" THEN "connecting" ELSE @]

\* Fault: the buffer is left alone while a connection is being opened.
ComposedWhenFree(c, id) ==
  IF conn[c] = "connecting" THEN client[c].data
                            ELSE [id |-> id, headers |-> client[c].headers]

\* The buffer is composed whatever the connection is doing.
Composed(c, id) == [id |-> id, headers |-> client[c].headers]

\* To an address: the connection must be free, or being opened.
RequestToAddress(c, id) ==
  /\ client[c].host = "address"
  /\ client' = [client EXCEPT ![c].data = Composed(c, id)]
  /\ espconn_connect(c)
  /\ Drop(Unsent(c) \cup (IF Busy(c) THEN {id} ELSE {}))
  /\ UNCHANGED lookups

\* To a name: espconn_gethostbyname, whose result nobody looks at either.  The
\* resolver calls back later, or it remembers the name: then it fills
\* client->ip and does not call back.
RequestToName(c, id, remembers) ==
  /\ client[c].host = "name"
  /\ client' = [client EXCEPT ![c].data = Composed(c, id), ![c].ip = @ \/ remembers]
  /\ lookups' = [lookups EXCEPT ![c] = IF remembers THEN @ ELSE @ + 1]
  /\ Drop(Unsent(c) \cup (IF client'[c].ip THEN {id} ELSE {}))
  /\ UNCHANGED conn

REST_Request(c, remembers) ==
  LET id == Len(requests) + 1
  IN /\ client[c] # NoClient
     /\ id <= MaxRequests
     /\ Serial => conn[c] = "none" /\ lookups[c] = 0
     /\ requests' = Append(requests, wants[c])
     /\ RequestToAddress(c, id) \/ RequestToName(c, id, remembers)
     /\ UNCHANGED <<inbox, wants, sent, events, bounds>>

-----------------------------------------------------------------------------
(* Callbacks. *)

\* The name has no address: the log says "try to reconnect", and that is all.
LookupFails(c) ==
  /\ faults < MaxFaults
  /\ faults' = faults + 1
  /\ lookups[c] > 0
  /\ lookups' = [lookups EXCEPT ![c] = @ - 1]
  /\ Drop(Unsent(c))
  /\ UNCHANGED <<client, conn, inbox, requests, wants, sent, events, setups>>

\* Fault: the test of client->ip is the wrong way round.
AddressUsedInverted(c) == client[c].ip

\* An address is used only if client->ip was never filled.
AddressUsed(c) == ~client[c].ip

LookupFinds(c) ==
  /\ lookups[c] > 0
  /\ lookups' = [lookups EXCEPT ![c] = @ - 1]
  /\ IF AddressUsed(c)
       THEN espconn_connect(c) /\ Drop(IF Busy(c) THEN Unsent(c) ELSE {})
       ELSE UNCHANGED <<conn, dropped>>
  /\ UNCHANGED <<client, inbox, requests, wants, sent, events, bounds>>

rest_dns_found(c) == LookupFails(c) \/ LookupFinds(c)

\* The buffer as it is now goes to the server.
tcpclient_connect_cb(c) ==
  /\ conn[c] = "connecting"
  /\ conn' = [conn EXCEPT ![c] = "sent"]
  /\ sent' = Append(sent, [client |-> c, id |-> Newest(c),
                           headers |-> client[c].data.headers])
  /\ UNCHANGED <<client, lookups, inbox, requests, wants, events, dropped, bounds>>

\* Fault: a lost connection is opened again.
ConnAfterLossRetries == "connecting"

\* The connection could not be opened or was lost: nothing is done about it.
ConnAfterLoss == "none"

tcpclient_recon_cb(c) ==
  /\ faults < MaxFaults
  /\ faults' = faults + 1
  /\ conn[c] \in {"connecting", "sent", "answered"}
  /\ conn' = [conn EXCEPT ![c] = ConnAfterLoss]
  /\ inbox' = [inbox EXCEPT ![c] = <<>>]
  /\ Drop(IF conn[c] = "connecting" THEN {Newest(c)} ELSE {Serving(c)})
  /\ UNCHANGED <<client, lookups, requests, wants, sent, events, setups>>

\* The pieces that answers may come in, and what the loop makes of each.
CutsOf(r) == {Len(r.head \o r.body)} \cup {n \in Cuts : n < Len(r.head \o r.body)}
First(r, cut) == SubSeq(r.head \o r.body, 1, cut)
Rest(r, cut) == SubSeq(r.head \o r.body, cut + 1, Len(r.head \o r.body))
Segments == UNION {UNION {{First(r, cut), Rest(r, cut)} : cut \in CutsOf(r)} :
                     r \in Responses}
Scanned == [text \in Segments |-> Scan(text)]

\* The server answers; TCP may cut the answer in two.  An event can follow
\* only if the first piece has the whole head and a byte of the body.
ServerAnswers(c) ==
  /\ conn[c] = "sent"
  /\ conn' = [conn EXCEPT ![c] = "answered"]
  /\ \E r \in Responses : \E cut \in CutsOf(r) :
       LET Piece(part, text) ==
             [text |-> text, part |-> part, id |-> Serving(c), answer |-> r]
       IN /\ inbox' = [inbox EXCEPT ![c] =
               IF Rest(r, cut) = <<>> THEN <<Piece("whole", First(r, cut))>>
               ELSE <<Piece("first", First(r, cut)), Piece("rest", Rest(r, cut))>>]
          /\ Drop(IF cut > Len(r.head) THEN {} ELSE {Serving(c)})
  /\ UNCHANGED <<client, lookups, requests, wants, sent, events, bounds>>

\* Fault: only an event makes the client disconnect.
DisconnectsAfterEvent(s) == s.event

\* Whatever the segment was, the client asks for the end of the connection.
Disconnects(s) == TRUE

\* A segment is scanned by itself.  A second one may come before the end of
\* the connection.
tcpclient_recv(c) ==
  /\ conn[c] \in {"answered", "closing"}
  /\ inbox[c] # <<>>
  /\ LET segment == Head(inbox[c])
         s == Scanned[segment.text]
         event == [callback |-> client[c].resp_cb, code |-> Code(s),
                   body |-> Body(s, segment.text), id |-> segment.id,
                   segment |-> segment]
     IN /\ events' = IF s.event THEN Append(events, event) ELSE events
        /\ conn' = [conn EXCEPT ![c] = IF Disconnects(s) THEN "closing" ELSE @]
  /\ inbox' = [inbox EXCEPT ![c] = Tail(@)]
  /\ UNCHANGED <<client, lookups, requests, wants, sent, dropped, bounds>>

\* The connection has ended; what was on its way is lost.
tcpclient_discon_cb(c) ==
  /\ conn[c] = "closing"
  /\ conn' = [conn EXCEPT ![c] = "none"]
  /\ inbox' = [inbox EXCEPT ![c] = <<>>]
  /\ UNCHANGED <<client, lookups, requests, wants, sent, events, dropped, bounds>>

Restart ==
  /\ faults < MaxFaults
  /\ faults' = faults + 1
  /\ GoDown
  /\ UNCHANGED setups

-----------------------------------------------------------------------------
Command ==
  \/ \E c \in Clients, callback \in Callbacks, host \in Hosts :
       REST_Setup(c, callback, host)
  \/ REST_SetupNoMemory
  \/ \E c \in Clients, index \in 0..3, value \in Values : REST_SetHeader(c, index, value)
  \/ \E c \in Clients, remembers \in BOOLEAN : REST_Request(c, remembers)

Callback(c) ==
  \/ rest_dns_found(c)
  \/ tcpclient_connect_cb(c)
  \/ tcpclient_recon_cb(c)
  \/ ServerAnswers(c)
  \/ tcpclient_recv(c)
  \/ tcpclient_discon_cb(c)

Next == Command \/ (\E c \in Clients : Callback(c)) \/ Restart

Spec == Init /\ [][Next]_vars

\* The resolver, the network and the servers come back with something.
FairSpec == Spec /\ \A c \in Clients : WF_vars(Callback(c))

-----------------------------------------------------------------------------
(* Properties. *)

TypeOK ==
  /\ \A c \in Clients :
       \/ client[c] = NoClient /\ wants[c] = NoClient
       \/ /\ client[c].resp_cb \in Callbacks /\ client[c].host \in Hosts
          /\ client[c].ip \in BOOLEAN /\ client[c].headers \in [HeaderTypes -> Values]
          /\ Newest(c) \in 0..Len(requests)
  /\ lookups \in [Clients -> 0..MaxRequests]
  /\ conn \in [Clients -> Connection]
  /\ \A c \in Clients : client[c] = NoClient => conn[c] = "none" /\ lookups[c] = 0
  /\ Len(requests) <= MaxRequests /\ dropped \subseteq DOMAIN requests
  /\ setups \in 0..MaxSetups /\ faults \in 0..MaxFaults

\* What a server receives is a request exactly as the host meant it when it
\* made it, never a mixture of two, however late it is sent and whatever
\* commands came in between (REST_SetHeader, REST_Request).
SentAsMeant ==
  \A i \in DOMAIN sent : /\ sent[i].id \in DOMAIN requests
                         /\ sent[i].headers = requests[sent[i].id].headers

\* An event goes to the callback that the host has set up for the request the
\* server has answered, across resets, overlapping requests and a reuse of
\* addresses (tcpclient_recv).
EventToRequester ==
  \A i \in DOMAIN events : /\ events[i].id \in DOMAIN requests
                           /\ events[i].callback = requests[events[i].id].callback

\* An event made from the beginning of an answer has its status and a beginning
\* of its body, all of it if the answer came in one piece (tcpclient_recv).
EventsFaithful ==
  \A i \in DOMAIN events :
    LET e == events[i]
        answer == e.segment.answer
    IN /\ e.segment.part # "rest" =>
            /\ e.code = answer.status
            /\ IsPrefix(e.body, answer.body) /\ e.body # <<>>
       /\ e.segment.part = "whole" => e.body = answer.body

\* When requests overlap, the connection sends the newest one the host has made
\* of this client, not one that it has replaced (REST_Request,
\* tcpclient_connect_cb).
NewestSent ==
  [][sent' # sent =>
       \A id \in DOMAIN requests :
         requests[id].client = Last(sent').client => id <= Last(sent').id]_vars

\* With a host that waits until a request is over, no request reaches a server
\* twice (tcpclient_connect_cb, tcpclient_recon_cb, rest_dns_found).
SentOnce ==
  \A i, k \in DOMAIN sent : sent[i].id = sent[k].id => i = k

\* Every request ends in an event, but for those of which dropped says why it
\* cannot: replaced or made while the connection was busy, a lookup that failed
\* or was answered on the spot, a connection lost, an answer without a body or
\* with none in its first segment, a reset.
Answered ==
  \A id \in 1..MaxRequests :
    (id \in DOMAIN requests) ~> (Reported(id) \/ id \in dropped)

\* A connection does not outlive its answer, event or not: it is free again for
\* the next request (tcpclient_recv).
Released == \A c \in Clients : (conn[c] # "none") ~> (conn[c] = "none")
=============================================================================
