----------------------------- MODULE EchoServer -----------------------------
(***************************************************************************)
(* The echo server program: CoTcpServer and its accept awaiters            *)
(* (co_tcp_server.cpp), the Run coroutine that accepts, and one EchoRecv    *)
(* coroutine per connection (co_tcp_server_echo.cpp).                       *)
(*                                                                         *)
(* The module is about who owns and waits for what; TcpCoAcceptConn models  *)
(* the bytes of one connection, and here a connection is only the place its *)
(* EchoRecv has reached.  Each action is a libuv callback with everything   *)
(* that runs inside it, coroutines resumed by it included.  libuv's listener *)
(* is external: it holds the socket it has accepted until uv_accept takes   *)
(* it, and stops polling if its callback returns without doing so.          *)
(*                                                                         *)
(* Operators named Op_Slip are mutated forms of Op, each a plausible slip   *)
(* in the lines Op models, used only to see that a property notices it.     *)
(***************************************************************************)
EXTENDS Integers, Sequences

CONSTANTS
    Clients,         \* the clients that may connect, once each
    None

ASSUME NoneAssumption == None \notin Clients

VARIABLES
    backlog,         \* clients in the kernel's listen queue
    accepted_fd,     \* the socket libuv has accepted and not handed over
    polling,         \* libuv polls the listening socket
    awaiters_,       \* the CoTcpServerPromises that wait in CoAccept
    run,             \* the Run coroutine: "accepting", "stopped"
    accept_conn,     \* the connection Run's local shared_ptr holds
    conn,            \* each client's TcpCoAcceptConn and its uv handle
    echo,            \* where the EchoRecv of each client is
    leftover,        \* recv_buffer_ holds more than one CoReceive took
    inflight,        \* the client has sent bytes libuv has not read yet
    ending,          \* the client's side: "open", "ended", "reported"
    failures         \* bound: accept errors seen

vars == <<backlog, accepted_fd, polling, awaiters_, run, accept_conn,
          conn, echo, leftover, inflight, ending, failures>>

listenVars == <<backlog, accepted_fd, polling, awaiters_, run, accept_conn, failures>>

Active == {"receiving", "sending"}

Init ==
    /\ backlog = <<>> /\ accepted_fd = None /\ polling = TRUE
    /\ awaiters_ = <<"run">>           \* Run has reached its first CoAccept
    /\ run = "accepting" /\ accept_conn = None
    /\ conn = [c \in Clients |-> "none"]
    /\ echo = [c \in Clients |-> "none"]
    /\ leftover = [c \in Clients |-> FALSE]
    /\ inflight = [c \in Clients |-> FALSE]
    /\ ending = [c \in Clients |-> "none"]
    /\ failures = 0

(* A client connects: the kernel queues it, whatever the server does. *)
Connect(c) ==
    /\ ending[c] = "none"
    /\ ending' = [ending EXCEPT ![c] = "open"]
    /\ backlog' = Append(backlog, c)
    /\ UNCHANGED <<accepted_fd, polling, awaiters_, run, accept_conn, conn, echo,
                   leftover, inflight, failures>>

(* conn after Run's accept_conn lets go of its old connection: destroyed if *)
(* its EchoRecv, the other holder, is over.                                 *)
Released(f, old) ==
    [c \in Clients |-> IF c = old /\ echo[c] \notin Active /\ f[c] = "open"
                       THEN "closing" ELSE f[c]]

(* awaiters_ when its first promise has been resumed: Run awaits the next.  *)
NextAwaiters_NotPopped == Append(awaiters_, "run")
NextAwaiters_NotAwaited == Tail(awaiters_)
NextAwaiters == Append(Tail(awaiters_), "run")

(* AcceptConnection resumes Run: uv_accept, accept_conn = new connection,   *)
(* EchoRecv up to its first CoReceive, and the next CoAccept.               *)
AcceptConnection(c) ==
    /\ awaiters_' = NextAwaiters
    /\ accept_conn' = c
    /\ conn' = Released([conn EXCEPT ![c] = "open"], accept_conn)
    /\ echo' = [echo EXCEPT ![c] = "receiving"]

(* on_uv_connection with status 0.  If nobody awaits, the socket stays with *)
(* libuv, which stops polling.                                              *)
OnConnection ==
    /\ polling /\ backlog # <<>>
    /\ backlog' = Tail(backlog)
    /\ LET c == Head(backlog)
       IN  IF awaiters_ = <<>>
           THEN /\ accepted_fd' = c
                /\ polling' = FALSE
                /\ UNCHANGED <<awaiters_, accept_conn, conn, echo>>
           ELSE /\ AcceptConnection(c)
                /\ UNCHANGED <<accepted_fd, polling>>
    /\ UNCHANGED <<run, leftover, inflight, ending, failures>>

(* on_uv_connection with an error: Run gets a connection with status        *)
(* TCP_CONNECT_FAILED (uv_accept's own error is not looked at), leaves its  *)
(* loop and returns, which drops both that connection and the previous one. *)
MaxFailures == 2

OnConnectionError ==
    /\ polling /\ failures < MaxFailures
    /\ failures' = failures + 1
    /\ IF awaiters_ = <<>>
       THEN UNCHANGED <<awaiters_, run, accept_conn, conn>>
       ELSE /\ awaiters_' = Tail(awaiters_)
            /\ run' = "stopped"
            /\ accept_conn' = None
            /\ conn' = Released(conn, accept_conn)
    /\ UNCHANGED <<backlog, accepted_fd, polling, echo, leftover, inflight, ending>>
------------------------------------------------------------------------------
(* EchoRecv returns: its shared_ptr goes, and with it the connection unless *)
(* Run's accept_conn still holds it.                                        *)
EchoReturns_Always(c) ==
    /\ echo' = [echo EXCEPT ![c] = "done"]
    /\ conn' = [conn EXCEPT ![c] = "closing"]
    /\ leftover' = [leftover EXCEPT ![c] = FALSE]

EchoReturns_KeepsConn(c) ==
    /\ echo' = [echo EXCEPT ![c] = "done"]
    /\ leftover' = [leftover EXCEPT ![c] = FALSE]
    /\ UNCHANGED conn

EchoReturns(c) ==
    /\ echo' = [echo EXCEPT ![c] = "done"]
    /\ conn' = IF accept_conn = c THEN conn ELSE [conn EXCEPT ![c] = "closing"]
    /\ leftover' = [leftover EXCEPT ![c] = FALSE]

(* co_await CoSend(recv_data): uv_write accepts the request, or fails and   *)
(* EchoRecv returns.                                                        *)
EchoSends(c, more) ==
    \/ /\ echo' = [echo EXCEPT ![c] = "sending"]
       /\ leftover' = [leftover EXCEPT ![c] = more]
       /\ UNCHANGED conn
    \/ EchoReturns(c)

(* The client sends something. *)
ClientSends(c) ==
    /\ ending[c] = "open"
    /\ inflight' = [inflight EXCEPT ![c] = TRUE]
    /\ UNCHANGED <<listenVars, conn, echo, leftover, ending>>

(* The client closes or breaks the connection. *)
ClientEnds(c) ==
    /\ ending[c] = "open"
    /\ ending' = [ending EXCEPT ![c] = "ended"]
    /\ UNCHANGED <<listenVars, conn, echo, leftover, inflight>>

(* libuv has read bytes.  One read callback (20K) may hold more than one    *)
(* CoReceive (10K) takes.  Unless EchoRecv waits for them they are dropped. *)
OnReceiveData(c) ==
    /\ conn[c] = "open" /\ inflight[c]
    /\ inflight' = [inflight EXCEPT ![c] = FALSE]
    /\ IF echo[c] = "receiving"
       THEN \E more \in BOOLEAN : EchoSends(c, more)
       ELSE UNCHANGED <<conn, echo, leftover>>
    /\ UNCHANGED <<listenVars, ending>>

(* libuv reports the end behind the last byte, once.  EchoRecv returns if   *)
(* it waits in CoReceive; if it waits in CoSend nobody hears of it.         *)
OnReceiveEnd(c) ==
    /\ conn[c] = "open" /\ ending[c] = "ended" /\ ~inflight[c]
    /\ ending' = [ending EXCEPT ![c] = "reported"]
    /\ IF echo[c] = "receiving" THEN EchoReturns(c) ELSE UNCHANGED <<conn, echo, leftover>>
    /\ UNCHANGED <<listenVars, inflight>>

(* A write completes: with an error EchoRecv returns; otherwise it calls    *)
(* CoReceive, which answers at once from recv_buffer_ if bytes are left.    *)
OnWrite(c) ==
    /\ echo[c] = "sending"
    /\ \/ EchoReturns(c)
       \/ leftover[c] /\ EchoSends(c, FALSE)
       \/ /\ ~leftover[c]
          /\ echo' = [echo EXCEPT ![c] = "receiving"]
          /\ UNCHANGED <<conn, leftover>>
    /\ UNCHANGED <<listenVars, inflight, ending>>

(* uv_close has finished: OnCoConnUVClose frees the handle. *)
OnCoConnUVClose(c) ==
    /\ conn[c] = "closing"
    /\ conn' = [conn EXCEPT ![c] = "freed"]
    /\ UNCHANGED <<listenVars, echo, leftover, inflight, ending>>

Next ==
    \/ OnConnection \/ OnConnectionError
    \/ \E c \in Clients :
          Connect(c) \/ ClientSends(c) \/ ClientEnds(c) \/ OnReceiveData(c) \/ OnReceiveEnd(c)
          \/ OnWrite(c) \/ OnCoConnUVClose(c)

Spec == Init /\ [][Next]_vars

(* Every ready handle is served in each iteration of uv_run.  Nothing       *)
(* obliges a client to connect, send or end, or accept to fail.             *)
Fairness ==
    /\ WF_vars(OnConnection)
    /\ \A c \in Clients :
          /\ WF_vars(OnReceiveData(c)) /\ WF_vars(OnReceiveEnd(c))
          /\ WF_vars(OnWrite(c)) /\ WF_vars(OnCoConnUVClose(c))

FairSpec == Spec /\ Fairness
------------------------------------------------------------------------------
(* Types: at most one promise of Run waits in awaiters_. *)
TypeOK ==
    /\ backlog \in Seq(Clients) /\ accepted_fd \in Clients \cup {None}
    /\ polling \in BOOLEAN /\ awaiters_ \in {<<>>, <<"run">>}
    /\ run \in {"accepting", "stopped"} /\ accept_conn \in Clients \cup {None}
    /\ conn \in [Clients -> {"none", "open", "closing", "freed"}]
    /\ echo \in [Clients -> {"none", "receiving", "sending", "done"}]
    /\ leftover \in [Clients -> BOOLEAN] /\ inflight \in [Clients -> BOOLEAN]
    /\ ending \in [Clients -> {"none", "open", "ended", "reported"}]
    /\ failures \in 0..MaxFailures

(* The shared_ptr bookkeeping is exact: a coroutine that waits on a         *)
(* connection keeps it open, and a connection is open only while a waiting  *)
(* EchoRecv or Run's accept_conn holds it.                                  *)
OpenExactlyWhileHeld ==
    \A c \in Clients : conn[c] = "open" <=> (echo[c] \in Active \/ accept_conn = c)

(* OnConnection's "No awaiters available" branch, which leaves a client     *)
(* with libuv and ends polling, is reached only after Run has left its loop *)
(* for an accept error: Run is back in CoAccept before the next callback.   *)
NothingIgnoredWhileRunAccepts ==
    run = "accepting" => awaiters_ = <<"run">> /\ accepted_fd = None /\ polling

(* A client in the listen queue is accepted unless Run has stopped. *)
QueuedIsAccepted ==
    \A c \in Clients : (\E i \in DOMAIN backlog : backlog[i] = c)
                          ~> (conn[c] # "none" \/ run = "stopped")

(* A client whose last byte has been read and that ends while its EchoRecv  *)
(* waits for data is let go: EchoRecv returns and the socket is closed as   *)
(* soon as Run holds another one.  (With a byte still on its way EchoRecv   *)
(* may be sending when the end comes, and then never learns of it.)         *)
EndReleases ==
    \A c \in Clients :
        (echo[c] = "receiving" /\ ending[c] = "ended" /\ ~inflight[c])
            ~> (conn[c] = "freed" \/ accept_conn = c)
==============================================================================
