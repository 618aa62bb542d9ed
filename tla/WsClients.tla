------------------------------ MODULE WsClients ------------------------------
(***************************************************************************)
(* main/web/ws_server.c: messages to all WebSocket clients, and the list   *)
(* of the ones to which sending has failed.                                *)
(*                                                                         *)
(* The ping task (core 0), the server's task (core 1) and the event task   *)
(* broadcast without a lock.  Each broadcast fills the one array of        *)
(* clients, which they all share, and reads its entry again at every call. *)
(* The server closes a session when it is asked to, or when its handler    *)
(* fails; the number of a closed socket is given to the next client.       *)
(***************************************************************************)
EXTENDS Naturals, Sequences, SequencesExt

CONSTANTS Broadcasters,   \* tasks that broadcast
          Sockets,        \* socket numbers
          NoSocket,
          MaxFailed       \* max_clients

ASSUME ClientAssumption ==
  NoSocket \notin Sockets /\ IsFiniteSet(Sockets) /\ MaxFailed \in Nat \ {0}

VARIABLES
  client,     \* what each socket is
  closing,    \* sockets whose sessions the server is to close
  failedList, \* failed[0 .. failed_count - 1]
  fds,        \* the clients: client_ctx->fds
  cast,       \* where each broadcast is
  count,      \* how many clients it was given
  index,      \* the one it has come to
  target,     \* the socket it is closing, or noting as failed
  collided    \* history: the list of failed clients was changed by two tasks at once,
              \* the array was filled between the closing and the noting of a client, or
              \* the client noted was not closed, or its number had a new owner

castVars == << fds, cast, count, index, target >>
clientVars == << client, closing, failedList, castVars, collided >>

Stages == {"idle", "looking", "asking", "sending", "failing", "checking", "adding"}

\* Every variable has its type.
ClientTypeOK ==
  /\ client \in [Sockets -> {"none", "http", "websocket"}]
  /\ closing \subseteq Sockets
  /\ failedList \in Seq(Sockets) /\ Len(failedList) <= MaxFailed + 1
  /\ fds \in [1..MaxFailed -> Sockets \union {NoSocket}]
  /\ cast \in [Broadcasters -> Stages]
  /\ count \in [Broadcasters -> 0..MaxFailed]
  /\ index \in [Broadcasters -> 1..(MaxFailed + 1)]
  /\ target \in [Broadcasters -> Sockets \union {NoSocket}]
  /\ collided \in BOOLEAN

ClientInit ==
  /\ client = [c \in Sockets |-> "none"] /\ closing = {} /\ failedList = << >>
  /\ fds = [i \in 1..MaxFailed |-> NoSocket]
  /\ cast = [b \in Broadcasters |-> "idle"]
  /\ count = [b \in Broadcasters |-> 0] /\ index = [b \in Broadcasters |-> 1]
  /\ target = [b \in Broadcasters |-> NoSocket]
  /\ collided = FALSE

IsFailed(c) == \E i \in DOMAIN failedList : failedList[i] = c
Noting(b) == cast[b] \in {"checking", "adding"}
NotingOn(c) == \E b \in Broadcasters : Noting(b) /\ target[b] = c

-----------------------------------------------------------------------------
(* The server.                                                             *)

AcceptClient(c) ==
  /\ client[c] = "none" /\ client' = [client EXCEPT ![c] = "http"]
  /\ collided' = NotingOn(c)
  /\ UNCHANGED << closing, failedList, castVars >>

\* Mutant of WithoutFailed: only the last entry is looked at.
WithoutFailedAtEnd(c) ==
  IF failedList # << >> /\ Last(failedList) = c THEN Front(failedList) ELSE failedList

\* remove_failed_client: the last entry takes the place of the first one that matches.
WithoutFailed(c) ==
  IF ~IsFailed(c) THEN failedList
  ELSE LET i == CHOOSE k \in DOMAIN failedList :
                  failedList[k] = c /\ \A j \in 1..(k - 1) : failedList[j] # c
       IN Front([failedList EXCEPT ![i] = Last(failedList)])

\* The GET of ws_handler.
Handshake(c) ==
  /\ client[c] = "http" /\ client' = [client EXCEPT ![c] = "websocket"]
  /\ failedList' = WithoutFailed(c)
  /\ collided' = (\E b \in Broadcasters : Noting(b))
  /\ UNCHANGED << closing, castVars >>

WithFailed(c) ==
  IF IsFailed(c) \/ Len(failedList) >= MaxFailed THEN failedList
  ELSE Append(failedList, c)

\* A frame cannot be received or echoed: ESP_FAIL makes the server close the session.
HandlerFails(c) ==
  /\ client[c] = "websocket"
  /\ failedList' = WithFailed(c) /\ closing' = closing \union {c}
  /\ collided' = (\E b \in Broadcasters : Noting(b))
  /\ UNCHANGED << client, castVars >>

\* Asked to, or because the peer is gone.
CloseSession(c) ==
  /\ client[c] # "none" /\ client' = [client EXCEPT ![c] = "none"]
  /\ closing' = closing \ {c}
  /\ UNCHANGED << failedList, castVars, collided >>

-----------------------------------------------------------------------------
(* ws_send_frame_to_all_clients.                                           *)

\* httpd_get_client_list, in one step: the open sockets, in the order of the server's
\* slots.  If they are too many it has filled the array when it says so.
CastLists(b) ==
  /\ cast[b] = "idle"
  /\ \E open \in SetToSeqs({c \in Sockets : client[c] # "none"}) :
       /\ fds' = [i \in 1..MaxFailed |-> IF i <= Len(open) THEN open[i] ELSE fds[i]]
       /\ IF Len(open) <= MaxFailed
          THEN /\ cast' = [cast EXCEPT ![b] = "looking"]
               /\ count' = [count EXCEPT ![b] = Len(open)]
          ELSE UNCHANGED << cast, count >>
  /\ UNCHANGED << client, closing, failedList, index, target, collided >>

Fd(b) == fds[index[b]]

\* A step with the entry the broadcast has come to.
CastGoes(b, from, to) ==
  /\ cast[b] = from /\ index[b] <= count[b]
  /\ cast' = [cast EXCEPT ![b] = to]
  /\ index' = [index EXCEPT ![b] = IF to = "looking" THEN @ + 1 ELSE @]
  /\ UNCHANGED << client, fds, count >>

CastEnds(b) ==
  /\ cast[b] = "looking" /\ index[b] > count[b]
  /\ cast' = [cast EXCEPT ![b] = "idle"]
  /\ index' = [index EXCEPT ![b] = 1] /\ count' = [count EXCEPT ![b] = 0]
  /\ UNCHANGED << client, closing, failedList, fds, target, collided >>

\* Failed clients are passed over.
CastLooks(b) ==
  /\ CastGoes(b, "looking", IF IsFailed(Fd(b)) THEN "looking" ELSE "asking")
  /\ UNCHANGED << closing, failedList, target, collided >>

\* Those that are not WebSockets as well.
CastAsks(b) ==
  /\ CastGoes(b, "asking", IF client[Fd(b)] = "websocket" THEN "sending" ELSE "looking")
  /\ UNCHANGED << closing, failedList, target, collided >>

CastSucceeds(b) ==
  /\ CastGoes(b, "sending", "looking")
  /\ client[Fd(b)] # "none"
  /\ UNCHANGED << closing, failedList, target, collided >>

CastFails(b) ==
  /\ CastGoes(b, "sending", "failing")
  /\ UNCHANGED << closing, failedList, target, collided >>

\* httpd_sess_trigger_close: the server will do it, unless the session is gone or the
\* request cannot be queued, which nobody looks at.
CastTriggersClose(b) ==
  /\ CastGoes(b, "failing", "checking")
  /\ target' = [target EXCEPT ![b] = Fd(b)]
  /\ closing' \in {closing, closing \union {c \in {Fd(b)} : client[c] # "none"}}
  /\ collided' = (client[Fd(b)] # "none" /\ Fd(b) \notin closing')
  /\ UNCHANGED failedList

\* add_failed_client tests first, and then adds.
CastChecks(b) ==
  /\ CastGoes(b, "checking",
       IF IsFailed(Fd(b)) \/ Len(failedList) >= MaxFailed THEN "looking" ELSE "adding")
  /\ target' = [target EXCEPT ![b] = IF cast'[b] = "adding" THEN Fd(b) ELSE NoSocket]
  /\ collided' = (\/ Fd(b) # target[b]
                  \/ \E a \in Broadcasters \ {b} : Noting(a))
  /\ UNCHANGED << closing, failedList >>

\* (The bound on the length is one of the model; it is not met before a collision.)
CastAdds(b) ==
  /\ CastGoes(b, "adding", "looking")
  /\ Len(failedList) <= MaxFailed
  /\ failedList' = Append(failedList, target[b])
  /\ target' = [target EXCEPT ![b] = NoSocket]
  /\ UNCHANGED << closing, collided >>

\* What follows a collision may be anything and is left out.
ClientNext ==
  /\ ~collided
  /\ \/ \E c \in Sockets : \/ AcceptClient(c) \/ Handshake(c) \/ HandlerFails(c)
                           \/ CloseSession(c)
     \/ \E b \in Broadcasters : \/ CastLists(b) \/ CastEnds(b) \/ CastLooks(b) \/ CastAsks(b)
                                \/ CastSucceeds(b) \/ CastFails(b)
                                \/ CastTriggersClose(b) \/ CastChecks(b) \/ CastAdds(b)

ClientSpec == ClientInit /\ [][ClientNext]_clientVars

-----------------------------------------------------------------------------
\* A client that is connected, and is not about to be closed, is on no list of failed
\* ones: however often sockets are reused and the array of clients is filled, every page
\* gets its messages, unless two tasks met in the list of failed clients, or one was
\* noted that had not been closed or whose number had been given away.
LiveClientsAreServed ==
  ~collided => \A c \in Sockets :
    client[c] = "websocket" /\ c \notin closing => ~IsFailed(c)
=============================================================================
