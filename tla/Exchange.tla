------------------------------ MODULE Exchange ------------------------------
(***************************************************************************)
(* Calls of client/client.py to the server, directly or through the proxy  *)
(* of basic_proxy.py.                                                      *)
(*                                                                         *)
(* A client keeps one http.client connection.  The server answers in       *)
(* HTTP/1.0 and closes; the proxy answers in HTTP/1.1, holds the           *)
(* connection open, and has a single thread: it serves one connection      *)
(* until that ends, and the others wait in the backlog with their TLS      *)
(* handshake.  There are no timeouts.  The server handles a request in one *)
(* step, and may be down.                                                  *)
(***************************************************************************)
EXTENDS Naturals, Sequences

CONSTANTS
  Client,
  Proxied, \* the clients whose server_hostname is the proxy
  Nobody,
  MaxCalls, \* bound: calls, by client
  Methods   \* bound: the methods of its calls, by client

Direct == Client \ Proxied
Method == {"GET", "POST"}

VARIABLES
  calls,   \* by client: the methods of its calls
  outcome, \* by client: how each call ended
  at,      \* by client: what it is doing
  line,    \* by client: its socket; "dead" when the other side has closed it,
           \* "unusable" when it has no descriptor left
  state,   \* by client: __state of http.client
  unread,  \* by client: __response is there and not read to the end
  sent,    \* by client: calls on their way
  back,    \* by client: answers on their way
  backlog, \* clients that wait for the proxy
  serving, \* the client whose connection the proxy holds
  up,      \* the server is up
  executed \* by client and call: how often the server handled it

client == <<calls, outcome, at, line, state, unread>>
vars == <<client, sent, back, backlog, serving, up, executed>>

ASSUME ClientsAssumption == Proxied \subseteq Client /\ Nobody \notin Client
ASSUME BoundsAssumption ==
  MaxCalls \in [Client -> Nat] /\ Methods \in [Client -> SUBSET Method]

NeverSent == {"refused", "handshake failed", "send failed", "CannotSendRequest"}
Outcome == NeverSent \cup {"answered", "disconnected", "ResponseNotReady"}
Activity == {"free", "handshake", "sending", "posting", "awaiting", "gone"}
Line == {"none", "open", "dead", "unusable"}

Init ==
  /\ calls = [c \in Client |-> <<>>] /\ outcome = [c \in Client |-> <<>>]
  /\ at = [c \in Client |-> "free"] /\ line = [c \in Client |-> "none"]
  /\ state = [c \in Client |-> "Idle"] /\ unread = [c \in Client |-> FALSE]
  /\ sent = [c \in Client |-> <<>>] /\ back = [c \in Client |-> <<>>]
  /\ backlog = <<>> /\ serving = Nobody /\ up = TRUE
  /\ executed = [c \in Client |-> [n \in 1 .. MaxCalls[c] |-> 0]]
-----------------------------------------------------------------------------
(* The client: __get_request__ and __post__. *)

Ends(c, how) ==
  /\ outcome' = [outcome EXCEPT ![c] = Append(@, how)]
  /\ at' = [at EXCEPT ![c] = "free"]

\* http_conn connects when there is no socket.  The socket is there from then on,
\* before its TLS handshake.
CallConnects(c, m) ==
  /\ at[c] = "free" /\ Len(calls[c]) < MaxCalls[c] /\ line[c] = "none" /\ (c \in Direct => up)
  /\ calls' = [calls EXCEPT ![c] = Append(@, m)]
  /\ at' = [at EXCEPT ![c] = "handshake"] /\ line' = [line EXCEPT ![c] = "open"]
  /\ backlog' = IF c \in Proxied THEN Append(backlog, c) ELSE backlog
  /\ UNCHANGED <<outcome, state, unread, sent, back, serving, up, executed>>

\* Nobody listens: connect raises, and there is no socket.
CallRefused(c, m) ==
  /\ at[c] = "free" /\ Len(calls[c]) < MaxCalls[c] /\ line[c] = "none" /\ c \in Direct /\ ~up
  /\ calls' = [calls EXCEPT ![c] = Append(@, m)]
  /\ Ends(c, "refused")
  /\ UNCHANGED <<line, state, unread, sent, back, backlog, serving, up, executed>>

\* http_conn takes the socket that is there, in whatever condition.
CallOnLine(c, m) ==
  /\ at[c] = "free" /\ Len(calls[c]) < MaxCalls[c] /\ line[c] # "none" /\ state[c] = "Idle"
  /\ calls' = [calls EXCEPT ![c] = Append(@, m)]
  /\ at' = [at EXCEPT ![c] = "sending"]
  /\ UNCHANGED <<outcome, line, state, unread, sent, back, backlog, serving, up, executed>>

CallCannotSend(c, m) ==
  /\ at[c] = "free" /\ Len(calls[c]) < MaxCalls[c] /\ line[c] # "none" /\ state[c] = "Req-sent"
  /\ calls' = [calls EXCEPT ![c] = Append(@, m)]
  /\ Ends(c, "CannotSendRequest")
  /\ UNCHANGED <<line, state, unread, sent, back, backlog, serving, up, executed>>

Handshaken(c) ==
  /\ at[c] = "handshake" /\ line[c] = "open" /\ (c \in Direct \/ serving = c)
  /\ at' = [at EXCEPT ![c] = "sending"]
  /\ UNCHANGED <<calls, outcome, line, state, unread, sent, back, backlog, serving, up, executed>>

\* wrap_socket raises: it has taken the descriptor from the socket that connect
\* left in sock, and http_conn will not connect again.
HandshakeFails(c) ==
  /\ at[c] = "handshake" /\ line[c] = "dead"
  /\ Ends(c, "handshake failed")
  /\ line' = [line EXCEPT ![c] = "unusable"]
  /\ UNCHANGED <<calls, state, unread, sent, back, backlog, serving, up, executed>>

Last(c) == Len(calls[c])
IsPost(c) == calls[c][Last(c)] = "POST"

\* endheaders is in Req-sent before it sends, and a body follows on its own.
Sending(c) ==
  /\ at[c] = "sending"
  /\ at' = [at EXCEPT ![c] = IF IsPost(c) THEN "posting" ELSE "awaiting"]
  /\ state' = [state EXCEPT ![c] = "Req-sent"]
SendHead(c) ==
  /\ line[c] = "open" /\ Sending(c)
  /\ sent' = [sent EXCEPT ![c] = Append(@, Last(c))]
  /\ UNCHANGED <<calls, outcome, line, unread, back, backlog, serving, up, executed>>
SendBody(c) ==
  /\ at[c] = "posting" /\ line[c] = "open"
  /\ at' = [at EXCEPT ![c] = "awaiting"]
  /\ UNCHANGED <<calls, outcome, line, state, unread, sent, back, backlog, serving, up, executed>>

\* Nobody reads any more: send raises, or does not know yet.
SendFails(c) ==
  /\ at[c] \in {"sending", "posting"} /\ line[c] \in {"dead", "unusable"}
  /\ Ends(c, "send failed")
  /\ state' = [state EXCEPT ![c] = "Req-sent"]
  /\ UNCHANGED <<calls, line, unread, sent, back, backlog, serving, up, executed>>
SendLost(c) ==
  /\ line[c] = "dead"
  /\ \/ Sending(c)
     \/ at[c] = "posting" /\ at' = [at EXCEPT ![c] = "awaiting"] /\ UNCHANGED state
  /\ UNCHANGED <<calls, outcome, line, unread, sent, back, backlog, serving, up, executed>>

\* __state and whether the answer is kept; the fault is to start over with what
\* is there.
NotReadyForgotten(c) == <<"Idle", FALSE>>
NotReadyState(c) == <<"Req-sent", unread[c]>>

\* The last answer has not been read: getresponse raises, and the request
\* remains on its way.
NotReady(c) ==
  /\ at[c] = "awaiting" /\ unread[c]
  /\ Ends(c, "ResponseNotReady")
  /\ state' = [state EXCEPT ![c] = NotReadyState(c)[1]]
  /\ unread' = [unread EXCEPT ![c] = NotReadyState(c)[2]]
  /\ UNCHANGED <<calls, line, sent, back, backlog, serving, up, executed>>

LeftAlways(c) == c \in Proxied \* a fault: not even a GET is read

\* __get_request__ reads the answer, __post__ does not.  An answer of the server
\* closes the connection, which then forgets the answer.
LeftUnread(c) == c \in Proxied /\ IsPost(c)

Received(c) ==
  /\ at[c] = "awaiting" /\ ~unread[c] /\ back[c] # <<>>
  /\ Ends(c, IF Head(back[c]) = Last(c) THEN "answered" ELSE "mixed up")
  /\ back' = [back EXCEPT ![c] = Tail(@)]
  /\ state' = [state EXCEPT ![c] = "Idle"]
  /\ unread' = [unread EXCEPT ![c] = LeftUnread(c)]
  /\ line' = IF c \in Direct THEN [line EXCEPT ![c] = "none"] ELSE line
  /\ UNCHANGED <<calls, sent, backlog, serving, up, executed>>

\* RemoteDisconnected: getresponse closes the connection and raises.
Disconnected(c) ==
  /\ at[c] = "awaiting" /\ ~unread[c] /\ back[c] = <<>> /\ line[c] = "dead"
  /\ Ends(c, "disconnected")
  /\ line' = [line EXCEPT ![c] = "none"] /\ state' = [state EXCEPT ![c] = "Idle"]
  /\ UNCHANGED <<calls, unread, sent, back, backlog, serving, up, executed>>

LeaveOpen(c) == line[c] \* a fault: the connection is not closed

\* __release_clients__ at the end of the process; what is sent may still be read.
\* A direct client that is gone is no other than one that makes no more calls.
Closed(c) == "none"
Leave(c) ==
  /\ c \in Proxied /\ at[c] = "free"
  /\ at' = [at EXCEPT ![c] = "gone"]
  /\ line' = [line EXCEPT ![c] = Closed(c)]
  /\ UNCHANGED <<calls, outcome, state, unread, sent, back, backlog, serving, up, executed>>
-----------------------------------------------------------------------------
(* The server, and the proxy: RequestForwarder and ProxyServer. *)

Execute(c, n) == [executed EXCEPT ![c][n] = @ + 1]

\* Nothing is handled before all of it is there.
Answered(c) ==
  /\ sent[c] # <<>> /\ at[c] # "posting"
  /\ executed' = Execute(c, Head(sent[c]))
  /\ back' = [back EXCEPT ![c] = Append(@, Head(sent[c]))]
  /\ sent' = [sent EXCEPT ![c] = Tail(@)]

ServerHandles(c) ==
  /\ c \in Direct /\ up /\ Answered(c)
  /\ UNCHANGED <<client, backlog, serving, up>>

Accept ==
  /\ serving = Nobody /\ backlog # <<>>
  /\ serving' = Head(backlog) /\ backlog' = Tail(backlog)
  /\ UNCHANGED <<client, sent, back, up, executed>>

\* A connection to the server for each request; close_connection = False.
Forward ==
  /\ serving # Nobody /\ up /\ Answered(serving)
  /\ UNCHANGED <<client, backlog, serving, up>>

\* The server cannot be reached: the handler raises, before it has read the body
\* of a POST or after, and socketserver closes.
ForwardFails ==
  /\ serving # Nobody /\ ~up /\ sent[serving] # <<>>
  /\ line' = [line EXCEPT ![serving] = IF @ = "open" THEN "dead" ELSE @]
  /\ sent' = [sent EXCEPT ![serving] = <<>>]
  /\ serving' = Nobody
  /\ UNCHANGED <<calls, outcome, at, state, unread, back, backlog, up, executed>>

\* The client has closed: the handler reads an empty line and ends.
Release ==
  /\ serving # Nobody /\ at[serving] = "gone" /\ line[serving] = "none" /\ sent[serving] = <<>>
  /\ serving' = Nobody
  /\ UNCHANGED <<client, sent, back, backlog, up, executed>>

\* Its connections are closed, and what is sent to it is lost.
Stop ==
  /\ up /\ up' = FALSE
  /\ line' = [c \in Client |-> IF c \in Direct /\ line[c] = "open" THEN "dead" ELSE line[c]]
  /\ sent' = [c \in Client |-> IF c \in Direct THEN <<>> ELSE sent[c]]
  /\ UNCHANGED <<calls, outcome, at, state, unread, back, backlog, serving, executed>>

Start ==
  /\ ~up /\ up' = TRUE
  /\ UNCHANGED <<client, sent, back, backlog, serving, executed>>

Call(c) == \E m \in Methods[c] :
  CallConnects(c, m) \/ CallRefused(c, m) \/ CallOnLine(c, m) \/ CallCannotSend(c, m)
GoesOn(c) ==
  \/ Handshaken(c) \/ HandshakeFails(c) \/ SendHead(c) \/ SendBody(c) \/ SendFails(c)
  \/ SendLost(c) \/ NotReady(c) \/ Received(c) \/ Disconnected(c)
Proxy == Accept \/ Forward \/ ForwardFails \/ Release

Next ==
  \/ \E c \in Client : Call(c) \/ GoesOn(c) \/ Leave(c) \/ ServerHandles(c)
  \/ Proxy \/ Stop \/ Start

\* Threads and processes go on, and the clients of the proxy come to their end.
Fairness ==
  /\ WF_vars(Proxy)
  /\ \A c \in Client : WF_vars(GoesOn(c))
  /\ \A c \in Direct : WF_vars(ServerHandles(c))
  /\ \A c \in Proxied : WF_vars(Leave(c))

Spec == Init /\ [][Next]_vars /\ Fairness
-----------------------------------------------------------------------------
(* Properties. *)

TypeOK ==
  /\ calls \in [Client -> Seq(Method)]
  /\ outcome \in [Client -> Seq(Outcome)]
  /\ at \in [Client -> Activity]
  /\ line \in [Client -> Line]
  /\ state \in [Client -> {"Idle", "Req-sent"}]
  /\ unread \in [Client -> BOOLEAN]
  /\ DOMAIN sent = Client /\ DOMAIN back = Client
  /\ \A c \in Client : {sent[c], back[c]} \subseteq Seq(1 .. MaxCalls[c])
  /\ backlog \in Seq(Proxied) /\ serving \in Proxied \cup {Nobody} /\ up \in BOOLEAN
  /\ DOMAIN executed = Client /\ \A c \in Client : executed[c] \in [1 .. MaxCalls[c] -> Nat]

\* What a client takes from the outcome of a call is true: an answer is the one
\* to this very call, which the server handled exactly once; a call that could
\* not be sent was never handled and never will be; none is handled twice.
OutcomesTrue == \A c \in Client : \A n \in DOMAIN outcome[c] :
  /\ outcome[c][n] = "answered" => executed[c][n] = 1
  /\ outcome[c][n] \in NeverSent =>
       executed[c][n] = 0 /\ \A i \in DOMAIN sent[c] : sent[c][i] # n
  /\ outcome[c][n] # "mixed up" /\ executed[c][n] <= 1

\* Three things break a connection: an answered POST behind the proxy, whose
\* answer nobody reads (client.py 213-216), a handshake and a send that failed,
\* since http_conn keeps the socket (client.py 75-78).  It is broken for good:
\* no later call is answered or connects again.  Nothing else makes http.client
\* refuse a call.
Refusal == {"ResponseNotReady", "CannotSendRequest"}
Broken == Refusal \cup {"send failed"}
Breaks(c, n) ==
  \/ outcome[c][n] \in Broken \/ outcome[c][n] = "handshake failed"
  \/ outcome[c][n] = "answered" /\ calls[c][n] = "POST" /\ c \in Proxied
BrokenForGood == \A c \in Client : \A n \in DOMAIN outcome[c] :
  /\ n > 1 /\ Breaks(c, n - 1) => outcome[c][n] \in Broken
  /\ outcome[c][n] \in Refusal => n > 1 /\ Breaks(c, n - 1)

\* Every call ends, with an answer or an exception, as long as the clients that
\* hold the proxy end.  No other order of calls, closes and failures keeps a
\* client waiting for ever.
CallsEnd == \A c \in Client : []<>(at[c] \in {"free", "gone"})
=============================================================================
