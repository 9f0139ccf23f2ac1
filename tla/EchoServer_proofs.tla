-------------------------- MODULE EchoServer_proofs --------------------------
(***************************************************************************)
(* Proofs about EchoServer for any set of clients.                          *)
(***************************************************************************)
EXTENDS EchoServer, SequenceTheorems, TLAPS

(* The listen queue holds each client once, and only clients that have      *)
(* connected and that the server has no TcpCoAcceptConn for yet.            *)
QueuedOnce ==
    /\ \A i \in DOMAIN backlog : conn[backlog[i]] = "none" /\ ending[backlog[i]] # "none"
    /\ \A i, j \in DOMAIN backlog : backlog[i] = backlog[j] => i = j
    /\ \A c \in Clients : ending[c] = "none" => conn[c] = "none"

(* The inductive invariant: uv_accept hands Run a connection nobody holds   *)
(* only because a queued client is not one that was accepted before.        *)
IInv == TypeOK /\ QueuedOnce /\ OpenExactlyWhileHeld /\ NothingIgnoredWhileRunAccepts
------------------------------------------------------------------------------
(* The listen queue without its first client: the queue is not empty, its   *)
(* first entry is a client and the others move up by one.                   *)
LEMMA TakeFirst ==
    ASSUME TypeOK, backlog # <<>>
    PROVE  /\ Head(backlog) \in Clients /\ Tail(backlog) \in Seq(Clients)
           /\ 1 \in DOMAIN backlog /\ Head(backlog) = backlog[1]
           /\ \A i \in DOMAIN Tail(backlog) :
                 i \in Nat /\ i + 1 \in DOMAIN backlog /\ Tail(backlog)[i] = backlog[i + 1] /\ i + 1 # 1
  <1>1. backlog \in Seq(Clients)
      BY DEF TypeOK
  <1>2. /\ Head(backlog) \in Clients /\ Tail(backlog) \in Seq(Clients)
        /\ Len(Tail(backlog)) = Len(backlog) - 1 /\ Len(backlog) \in Nat /\ Len(backlog) # 0
        /\ Head(backlog) = backlog[1]
        /\ \A i \in 1..Len(Tail(backlog)) : Tail(backlog)[i] = backlog[i + 1]
      BY <1>1, HeadTailProperties, LenProperties, EmptySeq
  <1>3. DOMAIN backlog = 1..Len(backlog) /\ DOMAIN Tail(backlog) = 1..Len(Tail(backlog))
      BY <1>1, <1>2, LenProperties
  <1> QED BY <1>2, <1>3

(* The listen queue with one more client behind the others. *)
LEMMA AddLast ==
    ASSUME TypeOK, NEW c \in Clients
    PROVE  /\ Append(backlog, c) \in Seq(Clients)
           /\ \A i \in DOMAIN Append(backlog, c) :
                 \/ i \in DOMAIN backlog /\ Append(backlog, c)[i] = backlog[i]
                 \/ i = Len(backlog) + 1 /\ Append(backlog, c)[i] = c
  <1>1. backlog \in Seq(Clients)
      BY DEF TypeOK
  <1>2. /\ Append(backlog, c) \in Seq(Clients) /\ Len(backlog) \in Nat
        /\ Len(Append(backlog, c)) = Len(backlog) + 1
        /\ \A i \in 1..Len(backlog) : Append(backlog, c)[i] = backlog[i]
        /\ Append(backlog, c)[Len(backlog) + 1] = c
      BY <1>1, AppendProperties, LenProperties
  <1>3. /\ DOMAIN backlog = 1..Len(backlog)
        /\ DOMAIN Append(backlog, c) = 1..(Len(backlog) + 1)
      BY <1>1, <1>2, LenProperties
  <1> QED BY <1>2, <1>3

(* Run's promise is popped and Run awaits again: one promise, as before. *)
LEMMA AwaitsAgain ==
    ASSUME awaiters_ \in {<<>>, <<"run">>}, awaiters_ # <<>>
    PROVE  awaiters_ = <<"run">> /\ Tail(awaiters_) = <<>> /\ NextAwaiters = <<"run">>
  <1>1. awaiters_ = <<"run">>
      OBVIOUS
  <1>2. <<"run">> \in Seq({"run"}) /\ Len(<<"run">>) = 1 /\ <<"run">> # <<>>
      OBVIOUS
  <1>3. Tail(<<"run">>) \in Seq({"run"}) /\ Len(Tail(<<"run">>)) = 0
      BY <1>2, HeadTailProperties
  <1>4. Tail(<<"run">>) = <<>>
      BY <1>3, EmptySeq
  <1>5. Append(<<>>, "run") = <<"run">>
      OBVIOUS
  <1> QED BY <1>1, <1>4, <1>5 DEF NextAwaiters

(* The shared_ptr Run drops, with the connections it may drop: a connection *)
(* keeps its state, or goes from open to closing.                           *)
LEMMA ReleasedType ==
    ASSUME NEW f \in [Clients -> {"none", "open", "closing", "freed"}], NEW old
    PROVE  Released(f, old) \in [Clients -> {"none", "open", "closing", "freed"}]
  BY DEF Released
------------------------------------------------------------------------------
(* What the server starts with satisfies the invariant. *)
LEMMA InitInv == Init => IInv
  <1> SUFFICES ASSUME Init PROVE IInv
      OBVIOUS
  <1>1. backlog \in Seq(Clients) /\ DOMAIN backlog = {}
      BY EmptySeq DEF Init
  <1>2. polling \in BOOLEAN /\ leftover \in [Clients -> BOOLEAN] /\ inflight \in [Clients -> BOOLEAN]
      BY DEF Init
  <1>3. TypeOK
      BY <1>1, <1>2 DEF Init, TypeOK, MaxFailures
  <1>4. QueuedOnce
      BY <1>1 DEF Init, QueuedOnce
  <1>5. OpenExactlyWhileHeld
      BY NoneAssumption DEF Init, OpenExactlyWhileHeld, Active
  <1>6. NothingIgnoredWhileRunAccepts
      BY DEF Init, NothingIgnoredWhileRunAccepts
  <1> QED BY <1>3, <1>4, <1>5, <1>6 DEF IInv

(* A client that connects is new to the queue. *)
LEMMA ConnectInv ==
    ASSUME IInv, NEW c \in Clients, Connect(c)
    PROVE  IInv'
  <1>1. TypeOK /\ QueuedOnce /\ OpenExactlyWhileHeld /\ NothingIgnoredWhileRunAccepts
      BY DEF IInv
  <1>2. TypeOK'
      BY <1>1, AddLast DEF TypeOK, Connect
  <1>3. QueuedOnce'
    <2>1. \A i \in DOMAIN backlog : backlog[i] # c
        BY <1>1 DEF QueuedOnce, Connect
    <2>2. ending' = [ending EXCEPT ![c] = "open"] /\ conn' = conn /\ ending[c] = "none"
          /\ backlog' = Append(backlog, c) /\ ending \in [Clients -> {"none", "open", "ended", "reported"}]
        BY <1>1 DEF Connect, TypeOK
    <2>3. \A i \in DOMAIN backlog' :
                 \/ i \in DOMAIN backlog /\ backlog'[i] = backlog[i]
                 \/ i = Len(backlog) + 1 /\ backlog'[i] = c
        BY <1>1, <2>2, AddLast
    <2>4. \A x \in Clients : ending'[x] = "none" => conn'[x] = "none"
        BY <1>1, <2>2 DEF QueuedOnce
    <2>5. \A i \in DOMAIN backlog' : conn'[backlog'[i]] = "none" /\ ending'[backlog'[i]] # "none"
      <3> SUFFICES ASSUME NEW i \in DOMAIN backlog'
                   PROVE  conn'[backlog'[i]] = "none" /\ ending'[backlog'[i]] # "none"
          OBVIOUS
      <3>1. CASE i \in DOMAIN backlog /\ backlog'[i] = backlog[i]
        <4>1. backlog[i] \in Clients
            BY <1>1, <3>1, ElementOfSeq, LenProperties DEF TypeOK
        <4> QED BY <1>1, <2>1, <2>2, <3>1, <4>1 DEF QueuedOnce
      <3>2. CASE backlog'[i] = c
          BY <1>1, <2>2, <3>2 DEF QueuedOnce
      <3> QED BY <2>3, <3>1, <3>2
    <2>6. \A i, j \in DOMAIN backlog' : backlog'[i] = backlog'[j] => i = j
        BY <1>1, <2>1, <2>3, Zenon DEF QueuedOnce
    <2> QED BY <2>4, <2>5, <2>6 DEF QueuedOnce
  <1>4. OpenExactlyWhileHeld'
      BY <1>1 DEF Connect, OpenExactlyWhileHeld
  <1>5. NothingIgnoredWhileRunAccepts'
      BY <1>1 DEF Connect, NothingIgnoredWhileRunAccepts
  <1> QED BY <1>2, <1>3, <1>4, <1>5 DEF IInv

(* uv_accept and Run's turn, or nothing if nobody awaits. *)
LEMMA OnConnectionInv ==
    ASSUME IInv, OnConnection
    PROVE  IInv'
  <1>1. TypeOK /\ QueuedOnce /\ OpenExactlyWhileHeld /\ NothingIgnoredWhileRunAccepts
      BY DEF IInv
  <1> DEFINE c == Head(backlog)
  <1>2. /\ c \in Clients /\ Tail(backlog) \in Seq(Clients)
        /\ 1 \in DOMAIN backlog /\ c = backlog[1]
        /\ \A i \in DOMAIN Tail(backlog) :
              i \in Nat /\ i + 1 \in DOMAIN backlog /\ Tail(backlog)[i] = backlog[i + 1] /\ i + 1 # 1
      BY <1>1, TakeFirst DEF OnConnection
  <1>3. /\ backlog' = Tail(backlog)
        /\ run' = run /\ leftover' = leftover /\ inflight' = inflight
        /\ ending' = ending /\ failures' = failures /\ polling = TRUE
      BY <1>1 DEF OnConnection, TypeOK
  <1>4. conn[c] = "none" /\ echo[c] \notin Active /\ accept_conn # c /\ ending[c] # "none"
      BY <1>1, <1>2 DEF QueuedOnce, OpenExactlyWhileHeld
  <1>5. CASE awaiters_ = <<>>
    <2>1. /\ accepted_fd' = c /\ polling' = FALSE /\ awaiters_' = awaiters_
          /\ accept_conn' = accept_conn /\ conn' = conn /\ echo' = echo
        BY <1>5 DEF OnConnection
    <2>2. TypeOK'
        BY <1>1, <1>2, <1>3, <2>1 DEF TypeOK
    <2>3. QueuedOnce'
        BY <1>1, <1>2, <1>3, <2>1 DEF QueuedOnce
    <2>4. OpenExactlyWhileHeld'
        BY <1>1, <2>1 DEF OpenExactlyWhileHeld
    <2>5. run # "accepting"
        BY <1>1, <1>5 DEF NothingIgnoredWhileRunAccepts
    <2> QED BY <1>3, <2>2, <2>3, <2>4, <2>5 DEF IInv, NothingIgnoredWhileRunAccepts
  <1>6. CASE awaiters_ # <<>>
    <2>1. /\ accepted_fd' = accepted_fd /\ polling' = polling /\ awaiters_' = <<"run">>
          /\ accept_conn' = c
          /\ conn' = Released([conn EXCEPT ![c] = "open"], accept_conn)
          /\ echo' = [echo EXCEPT ![c] = "receiving"]
        BY <1>1, <1>6, AwaitsAgain DEF OnConnection, AcceptConnection, TypeOK
    <2>2. TypeOK'
      <3>1. [conn EXCEPT ![c] = "open"] \in [Clients -> {"none", "open", "closing", "freed"}]
          BY <1>1 DEF TypeOK
      <3>2. conn' \in [Clients -> {"none", "open", "closing", "freed"}]
          BY <2>1, <3>1, ReleasedType
      <3>3. echo' \in [Clients -> {"none", "receiving", "sending", "done"}]
          BY <1>1, <2>1 DEF TypeOK
      <3> QED BY <1>1, <1>2, <1>3, <2>1, <3>2, <3>3 DEF TypeOK
    <2>3. /\ conn'[c] = "open"
          /\ \A x \in Clients \ {c} :
                conn'[x] = IF x = accept_conn /\ echo[x] \notin Active /\ conn[x] = "open"
                           THEN "closing" ELSE conn[x]
        BY <1>1, <1>2, <1>4, <2>1 DEF Released, TypeOK
    <2>4. echo'[c] = "receiving" /\ \A x \in Clients \ {c} : echo'[x] = echo[x]
        BY <1>1, <1>2, <2>1 DEF TypeOK
    <2>5. QueuedOnce'
      <3>1. \A i \in DOMAIN backlog' : backlog'[i] # c /\ backlog'[i] \in Clients
        <4> SUFFICES ASSUME NEW i \in DOMAIN backlog'
                     PROVE  backlog'[i] # c /\ backlog'[i] \in Clients
            OBVIOUS
        <4>1. backlog'[i] # c
            BY <1>1, <1>2, <1>3 DEF QueuedOnce
        <4> QED BY <1>2, <1>3, <4>1, ElementOfSeq, LenProperties
      <3>2. \A i \in DOMAIN backlog' : conn'[backlog'[i]] = "none" /\ ending'[backlog'[i]] # "none"
        <4> SUFFICES ASSUME NEW i \in DOMAIN backlog'
                     PROVE  conn'[backlog'[i]] = "none" /\ ending'[backlog'[i]] # "none"
            OBVIOUS
        <4>1. conn[backlog'[i]] = "none" /\ ending[backlog'[i]] # "none"
            BY <1>1, <1>2, <1>3 DEF QueuedOnce
        <4> QED BY <1>3, <2>3, <3>1, <4>1
      <3>3. \A i, j \in DOMAIN backlog' : backlog'[i] = backlog'[j] => i = j
          BY <1>1, <1>2, <1>3 DEF QueuedOnce
      <3>4. \A x \in Clients : ending'[x] = "none" => conn'[x] = "none"
          BY <1>1, <1>3, <1>4, <2>3 DEF QueuedOnce
      <3> QED BY <3>2, <3>3, <3>4 DEF QueuedOnce
    <2>6. OpenExactlyWhileHeld'
        BY <1>1, <1>2, <1>4, <2>1, <2>3, <2>4 DEF OpenExactlyWhileHeld, Active
    <2>7. NothingIgnoredWhileRunAccepts'
        BY <1>1, <1>3, <2>1 DEF NothingIgnoredWhileRunAccepts
    <2> QED BY <2>2, <2>5, <2>6, <2>7 DEF IInv
  <1> QED BY <1>5, <1>6

(* An accept error ends Run's loop and lets go of what it holds. *)
LEMMA OnConnectionErrorInv ==
    ASSUME IInv, OnConnectionError
    PROVE  IInv'
  <1>1. TypeOK /\ QueuedOnce /\ OpenExactlyWhileHeld /\ NothingIgnoredWhileRunAccepts
      BY DEF IInv
  <1>2. /\ backlog' = backlog /\ accepted_fd' = accepted_fd /\ polling' = polling /\ echo' = echo
        /\ leftover' = leftover /\ inflight' = inflight /\ ending' = ending
        /\ failures' \in 0..MaxFailures
      BY <1>1 DEF OnConnectionError, TypeOK, MaxFailures
  <1>3. CASE awaiters_ = <<>>
    <2>1. awaiters_' = awaiters_ /\ run' = run /\ accept_conn' = accept_conn /\ conn' = conn
        BY <1>3 DEF OnConnectionError
    <2> QED BY <1>1, <1>2, <2>1
            DEF IInv, TypeOK, QueuedOnce, OpenExactlyWhileHeld, NothingIgnoredWhileRunAccepts
  <1>4. CASE awaiters_ # <<>>
    <2>1. /\ awaiters_' = <<>> /\ run' = "stopped" /\ accept_conn' = None
          /\ conn' = Released(conn, accept_conn)
        BY <1>1, <1>4, AwaitsAgain DEF OnConnectionError, TypeOK
    <2>2. conn' \in [Clients -> {"none", "open", "closing", "freed"}]
        BY <1>1, <2>1, ReleasedType DEF TypeOK
    <2>3. \A x \in Clients :
             conn'[x] = IF x = accept_conn /\ echo[x] \notin Active /\ conn[x] = "open"
                        THEN "closing" ELSE conn[x]
        BY <2>1 DEF Released
    <2>4. TypeOK'
        BY <1>1, <1>2, <2>1, <2>2 DEF TypeOK
    <2>5. QueuedOnce'
      <3>1. \A i \in DOMAIN backlog : backlog[i] \in Clients
          BY <1>1, ElementOfSeq, LenProperties DEF TypeOK
      <3> QED BY <1>1, <1>2, <2>3, <3>1 DEF QueuedOnce
    <2>6. OpenExactlyWhileHeld'
        BY <1>1, <1>2, <2>1, <2>3, NoneAssumption DEF OpenExactlyWhileHeld
    <2> QED BY <2>1, <2>4, <2>5, <2>6 DEF IInv, NothingIgnoredWhileRunAccepts
  <1> QED BY <1>3, <1>4
------------------------------------------------------------------------------
(* A step that leaves the listener alone keeps the invariant if it keeps    *)
(* the types, touches only a connection that is not queued, and keeps that  *)
(* connection held exactly while it is open.                                *)
LEMMA OneConnectionStep ==
    ASSUME IInv, NEW c \in Clients, UNCHANGED listenVars, TypeOK',
           \A x \in Clients : ending[x] # "none" <=> ending'[x] # "none",
           \A x \in Clients \ {c} : conn'[x] = conn[x] /\ echo'[x] = echo[x],
           conn[c] = "none" => conn'[c] = "none",
           conn'[c] = "open" <=> (echo'[c] \in Active \/ accept_conn = c)
    PROVE  IInv'
  <1>1. TypeOK /\ QueuedOnce /\ OpenExactlyWhileHeld /\ NothingIgnoredWhileRunAccepts
      BY DEF IInv
  <1>2. \A i \in DOMAIN backlog : backlog[i] \in Clients
      BY <1>1, ElementOfSeq, LenProperties DEF TypeOK
  <1>3. QueuedOnce'
      BY <1>1, <1>2 DEF QueuedOnce, listenVars
  <1>4. OpenExactlyWhileHeld'
      BY <1>1 DEF OpenExactlyWhileHeld, listenVars
  <1>5. NothingIgnoredWhileRunAccepts'
      BY <1>1 DEF NothingIgnoredWhileRunAccepts, listenVars
  <1> QED BY <1>3, <1>4, <1>5 DEF IInv

(* EchoRecv goes on from a connection that is open, or returns. *)
LEMMA EchoTurn ==
    ASSUME IInv, NEW c \in Clients, conn[c] = "open",
           EchoReturns(c) \/ \E more \in BOOLEAN : EchoSends(c, more)
    PROVE  /\ conn' \in [Clients -> {"none", "open", "closing", "freed"}]
           /\ echo' \in [Clients -> {"none", "receiving", "sending", "done"}]
           /\ leftover' \in [Clients -> BOOLEAN]
           /\ \A x \in Clients \ {c} : conn'[x] = conn[x] /\ echo'[x] = echo[x]
           /\ conn'[c] = "open" <=> (echo'[c] \in Active \/ accept_conn = c)
  <1>1. /\ conn \in [Clients -> {"none", "open", "closing", "freed"}]
        /\ echo \in [Clients -> {"none", "receiving", "sending", "done"}]
        /\ leftover \in [Clients -> BOOLEAN]
      BY DEF IInv, TypeOK
  <1>2. CASE EchoReturns(c)
    <2>1. leftover' \in [Clients -> BOOLEAN]
        BY <1>1, <1>2 DEF EchoReturns
    <2> QED BY <1>1, <1>2, <2>1 DEF EchoReturns, Active
  <1>3. CASE \E more \in BOOLEAN :
               /\ echo' = [echo EXCEPT ![c] = "sending"]
               /\ leftover' = [leftover EXCEPT ![c] = more]
               /\ UNCHANGED conn
    <2>1. leftover' \in [Clients -> BOOLEAN]
        BY <1>1, <1>3
    <2> QED BY <1>1, <1>3, <2>1 DEF Active
  <1> QED BY <1>2, <1>3, Zenon DEF EchoSends

(* Bytes of one client are echoed, or dropped. *)
LEMMA OnReceiveDataInv ==
    ASSUME IInv, NEW c \in Clients, OnReceiveData(c)
    PROVE  IInv'
  <1>1. /\ conn[c] = "open" /\ UNCHANGED listenVars /\ ending' = ending
        /\ inflight' = [inflight EXCEPT ![c] = FALSE]
      BY DEF OnReceiveData
  <1>2. TypeOK /\ OpenExactlyWhileHeld
      BY DEF IInv
  <1>3. inflight' \in [Clients -> BOOLEAN]
      BY <1>1, <1>2 DEF TypeOK
  <1>4. /\ conn' \in [Clients -> {"none", "open", "closing", "freed"}]
        /\ echo' \in [Clients -> {"none", "receiving", "sending", "done"}]
        /\ leftover' \in [Clients -> BOOLEAN]
        /\ \A x \in Clients \ {c} : conn'[x] = conn[x] /\ echo'[x] = echo[x]
        /\ conn'[c] = "open" <=> (echo'[c] \in Active \/ accept_conn = c)
    <2>1. CASE echo[c] = "receiving"
      <3>1. \E more \in BOOLEAN : EchoSends(c, more)
          BY <2>1 DEF OnReceiveData
      <3> QED BY <1>1, <3>1, EchoTurn
    <2>2. CASE echo[c] # "receiving"
        BY <1>2, <2>2 DEF OnReceiveData, TypeOK, OpenExactlyWhileHeld
    <2> QED BY <2>1, <2>2
  <1>5. TypeOK'
      BY <1>1, <1>2, <1>3, <1>4 DEF TypeOK, listenVars
  <1> QED BY <1>1, <1>4, <1>5, OneConnectionStep

(* The end of one client's stream. *)
LEMMA OnReceiveEndInv ==
    ASSUME IInv, NEW c \in Clients, OnReceiveEnd(c)
    PROVE  IInv'
  <1>1. /\ conn[c] = "open" /\ UNCHANGED listenVars /\ inflight' = inflight
        /\ ending' = [ending EXCEPT ![c] = "reported"] /\ ending[c] = "ended"
      BY DEF OnReceiveEnd
  <1>2. TypeOK /\ OpenExactlyWhileHeld
      BY DEF IInv
  <1>3. /\ ending' \in [Clients -> {"none", "open", "ended", "reported"}]
        /\ \A x \in Clients : ending[x] # "none" <=> ending'[x] # "none"
      BY <1>1, <1>2 DEF TypeOK
  <1>4. /\ conn' \in [Clients -> {"none", "open", "closing", "freed"}]
        /\ echo' \in [Clients -> {"none", "receiving", "sending", "done"}]
        /\ leftover' \in [Clients -> BOOLEAN]
        /\ \A x \in Clients \ {c} : conn'[x] = conn[x] /\ echo'[x] = echo[x]
        /\ conn'[c] = "open" <=> (echo'[c] \in Active \/ accept_conn = c)
    <2>1. CASE echo[c] = "receiving"
      <3>1. EchoReturns(c)
          BY <2>1 DEF OnReceiveEnd
      <3> QED BY <1>1, <3>1, EchoTurn
    <2>2. CASE echo[c] # "receiving"
        BY <1>2, <2>2 DEF OnReceiveEnd, TypeOK, OpenExactlyWhileHeld
    <2> QED BY <2>1, <2>2
  <1>5. TypeOK'
      BY <1>1, <1>2, <1>3, <1>4 DEF TypeOK, listenVars
  <1> QED BY <1>1, <1>3, <1>4, <1>5, OneConnectionStep

(* A write callback finds its connection open: EchoRecv, which waits for    *)
(* it, has kept it so.                                                      *)
LEMMA OnWriteInv ==
    ASSUME IInv, NEW c \in Clients, OnWrite(c)
    PROVE  IInv'
  <1>1. echo[c] = "sending" /\ UNCHANGED listenVars /\ inflight' = inflight /\ ending' = ending
      BY DEF OnWrite
  <1>2. TypeOK /\ OpenExactlyWhileHeld
      BY DEF IInv
  <1>3. conn[c] = "open"
      BY <1>1, <1>2 DEF OpenExactlyWhileHeld, Active
  <1>4. /\ conn' \in [Clients -> {"none", "open", "closing", "freed"}]
        /\ echo' \in [Clients -> {"none", "receiving", "sending", "done"}]
        /\ leftover' \in [Clients -> BOOLEAN]
        /\ \A x \in Clients \ {c} : conn'[x] = conn[x] /\ echo'[x] = echo[x]
        /\ conn'[c] = "open" <=> (echo'[c] \in Active \/ accept_conn = c)
    <2>1. CASE EchoReturns(c) \/ EchoSends(c, FALSE)
      <3>1. EchoReturns(c) \/ \E more \in BOOLEAN : EchoSends(c, more)
          BY <2>1, Zenon
      <3> QED BY <1>3, <3>1, EchoTurn
    <2>2. CASE echo' = [echo EXCEPT ![c] = "receiving"] /\ UNCHANGED <<conn, leftover>>
        BY <1>2, <1>3, <2>2 DEF TypeOK, Active
    <2> QED BY <2>1, <2>2 DEF OnWrite
  <1>5. TypeOK'
      BY <1>1, <1>2, <1>4 DEF TypeOK, listenVars
  <1> QED BY <1>1, <1>3, <1>4, <1>5, OneConnectionStep

(* A client sends or ends, or uv_close finishes: nothing is held or let go. *)
LEMMA QuietStepInv ==
    ASSUME IInv, NEW c \in Clients,
           ClientSends(c) \/ ClientEnds(c) \/ OnCoConnUVClose(c)
    PROVE  IInv'
  <1>1. TypeOK /\ OpenExactlyWhileHeld
      BY DEF IInv
  <1>2. CASE ClientSends(c)
    <2>1. inflight' \in [Clients -> BOOLEAN]
        BY <1>1, <1>2 DEF ClientSends, TypeOK
    <2>2. TypeOK'
        BY <1>1, <1>2, <2>1 DEF ClientSends, TypeOK, listenVars
    <2>3. conn' = conn /\ echo' = echo /\ ending' = ending /\ UNCHANGED listenVars
        BY <1>2 DEF ClientSends
    <2> QED BY <1>1, <2>2, <2>3, OneConnectionStep DEF OpenExactlyWhileHeld
  <1>3. CASE ClientEnds(c)
    <2>1. /\ ending' \in [Clients -> {"none", "open", "ended", "reported"}]
          /\ \A x \in Clients : ending[x] # "none" <=> ending'[x] # "none"
        BY <1>1, <1>3 DEF ClientEnds, TypeOK
    <2>2. TypeOK'
        BY <1>1, <1>3, <2>1 DEF ClientEnds, TypeOK, listenVars
    <2>3. conn' = conn /\ echo' = echo /\ UNCHANGED listenVars
        BY <1>3 DEF ClientEnds
    <2> QED BY <1>1, <2>1, <2>2, <2>3, OneConnectionStep DEF OpenExactlyWhileHeld
  <1>4. CASE OnCoConnUVClose(c)
    <2>1. /\ conn' \in [Clients -> {"none", "open", "closing", "freed"}]
          /\ \A x \in Clients \ {c} : conn'[x] = conn[x]
          /\ conn[c] = "closing" /\ conn'[c] = "freed"
        BY <1>1, <1>4 DEF OnCoConnUVClose, TypeOK
    <2>2. echo' = echo /\ ending' = ending /\ UNCHANGED listenVars
        BY <1>4 DEF OnCoConnUVClose
    <2>3. TypeOK'
        BY <1>1, <1>4, <2>1 DEF OnCoConnUVClose, TypeOK, listenVars
    <2> QED BY <1>1, <2>1, <2>2, <2>3, OneConnectionStep DEF OpenExactlyWhileHeld
  <1> QED BY <1>2, <1>3, <1>4
------------------------------------------------------------------------------
(* Every callback keeps the invariant. *)
LEMMA StepInv == IInv /\ [Next]_vars => IInv'
  <1> SUFFICES ASSUME IInv, [Next]_vars PROVE IInv'
      OBVIOUS
  <1>1. CASE OnConnection
      BY <1>1, OnConnectionInv
  <1>2. CASE OnConnectionError
      BY <1>2, OnConnectionErrorInv
  <1>3. ASSUME NEW c \in Clients,
               \/ Connect(c) \/ ClientSends(c) \/ ClientEnds(c) \/ OnReceiveData(c)
               \/ OnReceiveEnd(c) \/ OnWrite(c) \/ OnCoConnUVClose(c)
        PROVE  IInv'
      BY <1>3, ConnectInv, QuietStepInv, OnReceiveDataInv, OnReceiveEndInv, OnWriteInv
  <1>4. CASE UNCHANGED vars
      BY <1>4 DEF vars, IInv, TypeOK, QueuedOnce, OpenExactlyWhileHeld,
                  NothingIgnoredWhileRunAccepts
  <1> QED BY <1>1, <1>2, <1>3, <1>4 DEF Next

(* The inductive invariant holds of the echo server. *)
LEMMA Invariant == Spec => []IInv
  <1> QED BY InitInv, StepInv, PTL DEF Spec

(* Every variable of the server and its clients keeps its type; awaiters_   *)
(* never holds more than Run's one promise.                                 *)
THEOREM TypeCorrect == Spec => []TypeOK
  <1>1. IInv => TypeOK
      BY DEF IInv
  <1> QED BY <1>1, Invariant, PTL

(* For any number of clients: a TcpCoAcceptConn is open exactly while a     *)
(* waiting EchoRecv or Run's accept_conn (co_tcp_server_echo.cpp) holds it. *)
THEOREM HeldExactlyWhileOpen == Spec => []OpenExactlyWhileHeld
  <1>1. IInv => OpenExactlyWhileHeld
      BY DEF IInv
  <1> QED BY <1>1, Invariant, PTL

(* For any number of clients: OnConnection finds Run's promise in           *)
(* awaiters_, and libuv keeps polling, as long as Run is in its loop.       *)
THEOREM AcceptingServerAwaits == Spec => []NothingIgnoredWhileRunAccepts
  <1>1. IInv => NothingIgnoredWhileRunAccepts
      BY DEF IInv
  <1> QED BY <1>1, Invariant, PTL
==============================================================================
