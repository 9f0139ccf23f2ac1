------------------------------ MODULE SslPeers ------------------------------
(***************************************************************************)
(* net/tcp/ssl_server and net/tcp/ssl_client: the TLS state machines that   *)
(* TcpSession and TcpClient put between the socket and their callbacks, as  *)
(* operators on the state of an SslServer and an SslClient.                 *)
(*                                                                         *)
(* The wire is a sequence of cells [k, v].  A flight of the TLS 1.2         *)
(* handshake (CH, SH, CKE, FIN) is two cells, which may arrive apart; a     *)
(* record is at most RecordCap cells of plaintext and one more, "tag".      *)
(* OpenSSL is external: it goes on when a whole flight is in bio_in_, and   *)
(* SSL_read returns the plaintext of one record, at most PlainCap cells,    *)
(* once its tag is there.                                                   *)
(*                                                                         *)
(* Operators named Op_Slip are mutated forms of Op, each a plausible slip   *)
(* in the lines Op models, used only to see that a property notices it.     *)
(***************************************************************************)
EXTENDS Integers, SequencesExt

CONSTANTS
    PlainCap,      \* cells of plaintext_data_
    RecordCap      \* cells of plaintext in a TLS record

ASSUME PlainCapAssumption == PlainCap \in Nat \ {0}
ASSUME RecordCapAssumption == RecordCap \in Nat \ {0}

Cell(k, v) == [k |-> k, v |-> v]
Flight(f) == <<Cell(f, 1), Cell(f, 2)>>
Tag == Cell("tag", 0)
Record(data) == Append(data, Tag)

(* SslWrite: SSL_write takes no more than one record holds (partial writes  *)
(* are enabled), and each record is sent by itself.  The plaintexts of the  *)
(* records, one after another:                                              *)
FragmentEnd(n, i) == IF i * RecordCap < n THEN i * RecordCap ELSE n
Fragments(data) ==
    [i \in 1..(Len(data) + RecordCap - 1) \div RecordCap |->
        SubSeq(data, FragmentEnd(Len(data), i - 1) + 1, FragmentEnd(Len(data), i))]

HasFlight(bio, f) == Len(bio) >= 2 /\ SubSeq(bio, 1, 2) = Flight(f)
AfterFlight(bio) == SubSeq(bio, 3, Len(bio))

(* SSL_read: what it returns and what it leaves (the rest of a record that  *)
(* is longer than the buffer stays).                                        *)
TagAt(bio) == SelectInSeq(bio, LAMBDA c : c.k = "tag")
SSL_read(bio) ==
    LET t == TagAt(bio)
    IN  CASE t = 0            -> [plain |-> <<>>, bio |-> bio]
          [] t - 1 > PlainCap -> [plain |-> SubSeq(bio, 1, PlainCap),
                                  bio |-> SubSeq(bio, PlainCap + 1, Len(bio))]
          [] OTHER            -> [plain |-> SubSeq(bio, 1, t - 1),
                                  bio |-> SubSeq(bio, t + 1, Len(bio))]
------------------------------------------------------------------------------
(* SslServer: tls_state_, bio_in_ and whether OpenSSL's handshake is done.  *)
NewServer == [state |-> "INIT", bio |-> <<>>, finished |-> FALSE]

(* The two steps of the handshake may fail whatever has come: SslInit       *)
(* cannot read its key or certificate, or OpenSSL refuses the flight (it is *)
(* not TLS, or an alert of a client that rejects the certificate).          *)
MayRefuse(s) == s.state \in {"INIT", "HELLO_DONE"}

(* HandleTlsHello: without a whole ClientHello there is nothing to send,    *)
(* and that is an error too.                                                *)
HandleTlsHello(s, data) ==
    IF HasFlight(s.bio \o data, "CH")
    THEN [s |-> [s EXCEPT !.state = "HELLO_DONE", !.bio = <<>>],
          out |-> <<Flight("SH")>>, ret |-> 0]
    ELSE [s |-> [s EXCEPT !.bio = @ \o data], out |-> <<>>, ret |-> -1]

(* HandleKeyExchange: with a part of the client's flight the state moves on *)
(* all the same, and an empty buffer is sent.                               *)
HandleKeyExchange(s, data) ==
    LET b == s.bio \o data
    IN  IF HasFlight(b, "CKE")
        THEN [s |-> [state |-> "KEY_EXCHANGE_DONE", bio |-> AfterFlight(b), finished |-> TRUE],
              out |-> <<Flight("FIN")>>, ret |-> 0]
        ELSE [s |-> [state |-> "KEY_EXCHANGE_DONE", bio |-> b, finished |-> FALSE],
              out |-> <<<<>>>>, ret |-> 0]

Handshake(s, data) ==
    CASE s.state = "INIT"       -> HandleTlsHello(s, data)
      [] s.state = "HELLO_DONE" -> HandleKeyExchange(s, data)
      [] OTHER                  -> [s |-> s, out |-> <<>>, ret |-> 0]

(* HandleSslDataRecv: one SSL_read for each read of the socket.  If the     *)
(* handshake is not finished SSL_read finishes it, and the answer stays in  *)
(* bio_out_.                                                                *)
ServerDataRecv(s, data) ==
    LET b == s.bio \o data
        r == SSL_read(b)
    IN  CASE s.state \in {"INIT", "HELLO_DONE"} -> [s |-> s, plain |-> <<>>]
          [] s.state = "KEY_EXCHANGE_DONE" ->
                [s |-> [s EXCEPT !.state = "DATA_RECV"], plain |-> <<>>]
          [] s.state = "DATA_RECV" /\ s.finished ->
                [s |-> [s EXCEPT !.bio = r.bio], plain |-> r.plain]
          [] s.state = "DATA_RECV" /\ ~s.finished ->
                [s |-> IF HasFlight(b, "CKE")
                       THEN [s EXCEPT !.bio = AfterFlight(b), !.finished = TRUE]
                       ELSE [s EXCEPT !.bio = b],
                 plain |-> <<>>]
------------------------------------------------------------------------------
(* SslClient: state_ and bio_in_. *)
NewClient == [state |-> "ZERO", bio |-> <<>>]

ClientHello(c) == [c |-> [c EXCEPT !.state = "HELLO_DONE"], out |-> <<Flight("CH")>>]

(* RecvServerHello and HandleSessionTicket wait for the whole flight.       *)
RecvServerHello(c, data) ==
    LET b == c.bio \o data
    IN  IF HasFlight(b, "SH")
        THEN [c |-> [state |-> "KEY_EXCHANGE", bio |-> <<>>], out |-> <<Flight("CKE")>>]
        ELSE [c |-> [c EXCEPT !.bio = b], out |-> <<>>]

HandleSessionTicket_Anew(c, data) ==
    IF HasFlight(data, "FIN")
    THEN [state |-> "READY", bio |-> AfterFlight(data)]
    ELSE [c EXCEPT !.bio = data]
HandleSessionTicket(c, data) ==
    LET b == c.bio \o data
    IN  IF HasFlight(b, "FIN")
        THEN [state |-> "READY", bio |-> AfterFlight(b)]
        ELSE [c EXCEPT !.bio = b]
==============================================================================
