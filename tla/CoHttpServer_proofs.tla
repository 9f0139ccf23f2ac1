------------------------- MODULE CoHttpServer_proofs -------------------------
(***************************************************************************)
(* Proofs about CoHttpServer for any number of connections, endpoints and   *)
(* requests, and for handlers that make any number of calls.                *)
(***************************************************************************)
EXTENDS CoHttpServer, SequenceTheorems, TLAPS

(* What a connection that was not accepted yet, and one that is open, have. *)
ConnInv ==
    \A k \in Conns :
        /\ conn[k] = "none" => idle[k] = 0 /\ writing[k] = <<>> /\ sent[k] = <<>>
        /\ conn[k] = "open" => idle[k] < AliveTicks /\ request[k] \in Request
        /\ handling[k] = "receiving" => writing[k] = <<>> /\ sent[k] = <<>>

(* A session is in the table under its own endpoint only. *)
TableInv ==
    /\ \A e \in Endpoints : \A k \in Conns : http_sessions_[e] = k => endpoint[k] = e
    /\ TableMatchesConnections

(* OnlyCompleteRequestsAnswered of one connection. *)
AnswerInv ==
    \A k \in Conns : writing[k] # <<>> \/ sent[k] # <<>> =>
        /\ request[k].valid /\ request[k].known
        /\ request[k].method = "GET" => received[k] >= HeaderLen
        /\ request[k].method = "POST" =>
              request[k].content_length > 0 /\ received[k] = Total(request[k])

(* The parts w that libuv still has, behind the parts s it has sent:        *)
(* headers, and bodies, are queued in the order of the calls, every body    *)
(* there is belongs to an earlier call than every header still queued, and  *)
(* a body that is queued has its header among the parts sent.               *)
QueueInOrder(w, s) ==
    /\ \A i, j \in DOMAIN w :
          i < j /\ w[i].part = w[j].part /\ w[i].part # "status" => w[i].call < w[j].call
    /\ \A i, j \in DOMAIN w :
          w[i].part = "body" /\ w[j].part = "header" => w[i].call < w[j].call
    /\ \A i \in DOMAIN s : \A j \in DOMAIN w :
          s[i].part = "body" /\ w[j].part # "status" => s[i].call < w[j].call
    /\ \A j \in DOMAIN w : w[j].part = "body" =>
          \E i \in DOMAIN s : s[i] = [part |-> "header", call |-> w[j].call]

(* ResponseAsCalled of the parts sent. *)
SentInOrder(s) ==
    \A j \in DOMAIN s : s[j].part = "body" =>
        /\ \E i \in 1..(j - 1) : s[i] = [part |-> "header", call |-> s[j].call]
        /\ \A i \in 1..(j - 1) : s[i].part = "body" => s[i].call < s[j].call

ResponseInv == \A k \in Conns : QueueInOrder(writing[k], sent[k]) /\ SentInOrder(sent[k])

(* The inductive invariant: the table tells the timer whom to erase, so it  *)
(* bounds idle; and what is queued behind the sent parts decides what can   *)
(* be sent next.                                                            *)
IInv == TypeOK /\ ConnInv /\ TableInv /\ AnswerInv /\ ResponseInv
------------------------------------------------------------------------------
(* A queue without its first part, element by element. *)
LEMMA TailParts ==
    ASSUME NEW w \in Seq(Part), w # <<>>
    PROVE  /\ Head(w) \in Part /\ Tail(w) \in Seq(Part)
           /\ 1 \in DOMAIN w /\ w[1] = Head(w)
           /\ \A i \in DOMAIN Tail(w) :
                 i \in Nat \ {0} /\ i + 1 \in DOMAIN w /\ 1 < i + 1 /\ Tail(w)[i] = w[i + 1]
  <1>1. /\ Head(w) \in Part /\ Tail(w) \in Seq(Part)
        /\ Len(Tail(w)) = Len(w) - 1 /\ Len(w) \in Nat /\ Len(w) # 0 /\ Head(w) = w[1]
        /\ \A i \in 1..Len(Tail(w)) : Tail(w)[i] = w[i + 1]
      BY HeadTailProperties, LenProperties, EmptySeq
  <1>2. DOMAIN w = 1..Len(w) /\ DOMAIN Tail(w) = 1..Len(Tail(w))
      BY <1>1, LenProperties
  <1> QED BY <1>1, <1>2

(* A sequence with one more part, element by element. *)
LEMMA AppendedPart ==
    ASSUME NEW s \in Seq(Part), NEW p \in Part
    PROVE  /\ Append(s, p) \in Seq(Part) /\ Len(s) \in Nat
           /\ DOMAIN s = 1..Len(s) /\ DOMAIN Append(s, p) = 1..(Len(s) + 1)
           /\ \A i \in 1..Len(s) : Append(s, p)[i] = s[i]
           /\ Append(s, p)[Len(s) + 1] = p
  <1>1. /\ Append(s, p) \in Seq(Part) /\ Len(s) \in Nat
        /\ Len(Append(s, p)) = Len(s) + 1
        /\ \A i \in 1..Len(s) : Append(s, p)[i] = s[i]
        /\ Append(s, p)[Len(s) + 1] = p
      BY AppendProperties, LenProperties
  <1>2. DOMAIN s = 1..Len(s) /\ DOMAIN Append(s, p) = 1..(Len(s) + 1)
      BY <1>1, LenProperties
  <1> QED BY <1>1, <1>2

(* Parts that are not there yet are in order. *)
LEMMA NothingInOrder == QueueInOrder(<<>>, <<>>) /\ SentInOrder(<<>>)
  BY DEF QueueInOrder, SentInOrder

(* A write fails: the queue loses its first part. *)
LEMMA DropKeepsOrder ==
    ASSUME NEW w \in Seq(Part), NEW s \in Seq(Part), w # <<>>, QueueInOrder(w, s)
    PROVE  QueueInOrder(Tail(w), s)
  <1> DEFINE t == Tail(w)
  <1>1. \A i \in DOMAIN t : i \in Nat \ {0} /\ i + 1 \in DOMAIN w /\ t[i] = w[i + 1]
      BY TailParts
  <1> HIDE DEF t
  <1>2. \A i, j \in DOMAIN t :
           i < j /\ t[i].part = t[j].part /\ t[i].part # "status" => t[i].call < t[j].call
    <2> SUFFICES ASSUME NEW i \in DOMAIN t, NEW j \in DOMAIN t, i < j,
                        t[i].part = t[j].part, t[i].part # "status"
                 PROVE  t[i].call < t[j].call
        OBVIOUS
    <2>1. i + 1 \in DOMAIN w /\ j + 1 \in DOMAIN w /\ i + 1 < j + 1
        BY <1>1
    <2>2. t[i] = w[i + 1] /\ t[j] = w[j + 1]
        BY <1>1
    <2> QED BY <2>1, <2>2 DEF QueueInOrder
  <1>3. \A i, j \in DOMAIN t :
           t[i].part = "body" /\ t[j].part = "header" => t[i].call < t[j].call
      BY <1>1 DEF QueueInOrder
  <1>4. \A i \in DOMAIN s : \A j \in DOMAIN t :
           s[i].part = "body" /\ t[j].part # "status" => s[i].call < t[j].call
      BY <1>1 DEF QueueInOrder
  <1>5. \A j \in DOMAIN t : t[j].part = "body" =>
           \E i \in DOMAIN s : s[i] = [part |-> "header", call |-> t[j].call]
      BY <1>1 DEF QueueInOrder
  <1>6. QueueInOrder(t, s)
      BY <1>2, <1>3, <1>4, <1>5 DEF QueueInOrder
  <1> QED BY <1>6 DEF t

(* The first part of the queue is written: it joins the parts sent. *)
LEMMA WrittenKeepsOrder ==
    ASSUME NEW w \in Seq(Part), NEW s \in Seq(Part), w # <<>>,
           QueueInOrder(w, s), SentInOrder(s)
    PROVE  QueueInOrder(Tail(w), Append(s, Head(w))) /\ SentInOrder(Append(s, Head(w)))
  <1> DEFINE t == Tail(w)
             h == Head(w)
             u == Append(s, h)
  <1>1. /\ h \in Part /\ t \in Seq(Part) /\ 1 \in DOMAIN w /\ w[1] = h
        /\ \A i \in DOMAIN t : i \in Nat \ {0} /\ i + 1 \in DOMAIN w /\ 1 < i + 1 /\ t[i] = w[i + 1]
      BY TailParts
  <1>2. QueueInOrder(t, s)
      BY DropKeepsOrder
  <1> HIDE DEF t, h
  <1>3. /\ Len(s) \in Nat /\ DOMAIN s = 1..Len(s) /\ DOMAIN u = 1..(Len(s) + 1)
        /\ \A i \in 1..Len(s) : u[i] = s[i]
        /\ u[Len(s) + 1] = h
      BY <1>1, AppendedPart
  <1> HIDE DEF u
  <1>4. \A i \in DOMAIN u : (i \in DOMAIN s /\ u[i] = s[i]) \/ (i = Len(s) + 1 /\ u[i] = h)
      BY <1>3
  <1>5. \A i \in DOMAIN u : \A j \in DOMAIN t :
           u[i].part = "body" /\ t[j].part # "status" => u[i].call < t[j].call
    <2> SUFFICES ASSUME NEW i \in DOMAIN u, NEW j \in DOMAIN t,
                        u[i].part = "body", t[j].part # "status"
                 PROVE  u[i].call < t[j].call
        OBVIOUS
    <2>1. CASE i \in DOMAIN s /\ u[i] = s[i]
        BY <1>2, <2>1 DEF QueueInOrder
    <2>2. CASE u[i] = h
      <3>1. w[1].part = "body" /\ j + 1 \in DOMAIN w /\ 1 < j + 1 /\ t[j] = w[j + 1] /\ w[1] = u[i]
          BY <1>1, <2>2
      <3>2. CASE w[j + 1].part = "body"
          BY <1>1, <3>1, <3>2 DEF QueueInOrder
      <3>3. CASE w[j + 1].part = "header"
          BY <1>1, <3>1, <3>3 DEF QueueInOrder
      <3>4. w[j + 1].part \in {"header", "body", "status"}
        <4>1. w[j + 1] \in Part
            BY <3>1, ElementOfSeq, LenProperties
        <4> QED BY <4>1 DEF Part
      <3> QED BY <3>1, <3>2, <3>3, <3>4
    <2> QED BY <1>4, <2>1, <2>2
  <1>6. \A j \in DOMAIN t : t[j].part = "body" =>
           \E i \in DOMAIN u : u[i] = [part |-> "header", call |-> t[j].call]
    <2>1. \A i \in DOMAIN s : i \in DOMAIN u /\ u[i] = s[i]
        BY <1>3
    <2> QED BY <1>2, <2>1 DEF QueueInOrder
  <1>7. QueueInOrder(t, u)
      BY <1>2, <1>5, <1>6 DEF QueueInOrder
  <1>8. SentInOrder(u)
    <2> SUFFICES ASSUME NEW j \in DOMAIN u, u[j].part = "body"
                 PROVE  /\ \E i \in 1..(j - 1) : u[i] = [part |-> "header", call |-> u[j].call]
                        /\ \A i \in 1..(j - 1) : u[i].part = "body" => u[i].call < u[j].call
        BY DEF SentInOrder
    <2>1. \A i \in 1..(j - 1) : i \in DOMAIN s /\ u[i] = s[i]
        BY <1>3
    <2>2. CASE j \in DOMAIN s /\ u[j] = s[j]
        BY <2>1, <2>2 DEF SentInOrder
    <2>3. CASE j = Len(s) + 1 /\ u[j] = h
      <3>1. 1..(j - 1) = DOMAIN s
          BY <1>3, <2>3
      <3>2. \E i \in DOMAIN s : s[i] = [part |-> "header", call |-> h.call]
          BY <1>1, <2>3 DEF QueueInOrder
      <3>3. \A i \in DOMAIN s : s[i].part = "body" => s[i].call < h.call
          BY <1>1, <2>3 DEF QueueInOrder
      <3> QED BY <2>1, <2>3, <3>1, <3>2, <3>3
    <2> QED BY <1>4, <2>2, <2>3
  <1> QED BY <1>7, <1>8 DEF t, h, u

(* A header is written and its body queued behind what is there. *)
LEMMA BodyKeepsOrder ==
    ASSUME NEW w \in Seq(Part), NEW s \in Seq(Part), w # <<>>,
           QueueInOrder(w, s), SentInOrder(s), Head(w).part = "header"
    PROVE  QueueInOrder(Append(Tail(w), [part |-> "body", call |-> Head(w).call]),
                        Append(s, Head(w)))
  <1> DEFINE t == Tail(w)
             h == Head(w)
             u == Append(s, h)
             b == [part |-> "body", call |-> h.call]
             v == Append(t, b)
  <1>1. /\ h \in Part /\ t \in Seq(Part) /\ 1 \in DOMAIN w /\ w[1] = h
        /\ \A i \in DOMAIN t : i \in Nat \ {0} /\ i + 1 \in DOMAIN w /\ 1 < i + 1 /\ t[i] = w[i + 1]
      BY TailParts
  <1>2. QueueInOrder(t, u)
      BY WrittenKeepsOrder
  <1>3. b \in Part /\ b.part = "body" /\ b.call = h.call /\ h = [part |-> "header", call |-> h.call]
      BY <1>1 DEF Part
  <1>4. Head(w).part = "header"
      OBVIOUS
  <1> HIDE DEF t, h, b
  <1>5. /\ Len(s) \in Nat /\ DOMAIN s = 1..Len(s) /\ DOMAIN u = 1..(Len(s) + 1)
        /\ \A i \in 1..Len(s) : u[i] = s[i]
        /\ u[Len(s) + 1] = h
      BY <1>1, AppendedPart
  <1>6. /\ Len(t) \in Nat /\ DOMAIN t = 1..Len(t) /\ DOMAIN v = 1..(Len(t) + 1)
        /\ \A i \in 1..Len(t) : v[i] = t[i]
        /\ v[Len(t) + 1] = b
      BY <1>1, <1>3, AppendedPart
  <1> HIDE DEF u, v
  <1>7. \A i \in DOMAIN v : \/ i \in DOMAIN t /\ v[i] = t[i] /\ i < Len(t) + 1
                            \/ i = Len(t) + 1 /\ v[i] = b
      BY <1>6
  <1>8. \A i \in DOMAIN u : (i \in DOMAIN s /\ u[i] = s[i]) \/ u[i] = h
      BY <1>5
  \* every body queued or sent is of an earlier call than h
  <1>9. /\ \A i \in DOMAIN t : t[i].part = "body" => t[i].call < h.call
        /\ \A i \in DOMAIN t : t[i].part = "header" => h.call < t[i].call
        /\ \A i \in DOMAIN s : s[i].part = "body" => s[i].call < h.call
      BY <1>1, <1>4 DEF QueueInOrder, h
  <1>10. \A i, j \in DOMAIN v :
           i < j /\ v[i].part = v[j].part /\ v[i].part # "status" => v[i].call < v[j].call
    <2> SUFFICES ASSUME NEW i \in DOMAIN v, NEW j \in DOMAIN v, i < j,
                        v[i].part = v[j].part, v[i].part # "status"
                 PROVE  v[i].call < v[j].call
        OBVIOUS
    <2>1. CASE j \in DOMAIN t /\ v[j] = t[j] /\ j < Len(t) + 1
      <3>1. i \in DOMAIN t /\ v[i] = t[i]
          BY <1>6, <2>1
      <3> QED BY <1>2, <2>1, <3>1 DEF QueueInOrder
    <2>2. CASE j = Len(t) + 1 /\ v[j] = b
      <3>1. i \in DOMAIN t /\ v[i] = t[i]
          BY <1>6, <2>2
      <3> QED BY <1>3, <1>9, <2>2, <3>1
    <2> QED BY <1>7, <2>1, <2>2
  <1>11. \A i, j \in DOMAIN v :
           v[i].part = "body" /\ v[j].part = "header" => v[i].call < v[j].call
    <2> SUFFICES ASSUME NEW i \in DOMAIN v, NEW j \in DOMAIN v,
                        v[i].part = "body", v[j].part = "header"
                 PROVE  v[i].call < v[j].call
        OBVIOUS
    <2>1. j \in DOMAIN t /\ v[j] = t[j]
        BY <1>3, <1>7
    <2>2. CASE i \in DOMAIN t /\ v[i] = t[i]
        BY <1>2, <2>1, <2>2 DEF QueueInOrder
    <2>3. CASE v[i] = b
        BY <1>3, <1>9, <2>1, <2>3
    <2> QED BY <1>7, <2>2, <2>3
  <1>12. \A i \in DOMAIN u : \A j \in DOMAIN v :
           u[i].part = "body" /\ v[j].part # "status" => u[i].call < v[j].call
    <2> SUFFICES ASSUME NEW i \in DOMAIN u, NEW j \in DOMAIN v,
                        u[i].part = "body", v[j].part # "status"
                 PROVE  u[i].call < v[j].call
        OBVIOUS
    <2>1. CASE j \in DOMAIN t /\ v[j] = t[j]
        BY <1>2, <2>1 DEF QueueInOrder
    <2>2. CASE v[j] = b
      <3>1. h.part = "header"
          BY <1>4 DEF h
      <3>2. i \in DOMAIN s /\ u[i] = s[i]
          BY <1>8, <3>1
      <3> QED BY <1>3, <1>9, <2>2, <3>2
    <2> QED BY <1>7, <2>1, <2>2
  <1>13. \A j \in DOMAIN v : v[j].part = "body" =>
           \E i \in DOMAIN u : u[i] = [part |-> "header", call |-> v[j].call]
    <2> SUFFICES ASSUME NEW j \in DOMAIN v, v[j].part = "body"
                 PROVE  \E i \in DOMAIN u : u[i] = [part |-> "header", call |-> v[j].call]
        OBVIOUS
    <2>1. CASE j \in DOMAIN t /\ v[j] = t[j]
        BY <1>2, <2>1 DEF QueueInOrder
    <2>2. CASE v[j] = b
      <3>1. Len(s) + 1 \in DOMAIN u /\ u[Len(s) + 1] = [part |-> "header", call |-> v[j].call]
          BY <1>3, <1>5, <2>2
      <3> QED BY <3>1
    <2> QED BY <1>7, <2>1, <2>2
  <1>14. QueueInOrder(v, u)
      BY <1>10, <1>11, <1>12, <1>13 DEF QueueInOrder
  <1> QED BY <1>14 DEF t, h, u, b, v
------------------------------------------------------------------------------
(* What a handler queues when nothing has been sent: the first parts of     *)
(* some of its calls, in order, none of them a body.                        *)
LEMMA HandlerEffect ==
    ASSUME TypeOK, NEW k \in Conns, request[k] \in Request, sent[k] = <<>>, Handler(k)
    PROVE  /\ sent' = sent /\ writing' \in [Conns -> Seq(Part)]
           /\ \A x \in Conns \ {k} : writing'[x] = writing[x]
           /\ QueueInOrder(writing'[k], <<>>)
  <1> DEFINE calls == request[k].calls
  <1>1. calls \in Seq(Calls) /\ Len(calls) \in Nat /\ DOMAIN calls = 1..Len(calls)
      BY LenProperties DEF Request
  <1>2. PICK n \in 0..Len(calls) : \E taken \in [1..n -> DOMAIN calls] :
          /\ \A i, j \in 1..n : i < j => taken[i] < taken[j]
          /\ writing' = [writing EXCEPT ![k] =
                [j \in 1..n |-> [part |-> FirstPart(k, calls[taken[j]]), call |-> taken[j]]]]
      BY DEF Handler
  <1>3. PICK taken \in [1..n -> DOMAIN calls] :
          /\ \A i, j \in 1..n : i < j => taken[i] < taken[j]
          /\ writing' = [writing EXCEPT ![k] =
                [j \in 1..n |-> [part |-> FirstPart(k, calls[taken[j]]), call |-> taken[j]]]]
      BY <1>2
  <1> DEFINE w == [j \in 1..n |-> [part |-> FirstPart(k, calls[taken[j]]), call |-> taken[j]]]
  <1>4. \A c : FirstPart(k, c) \in {"header", "status"}
      BY DEF FirstPart, written_header_
  <1>5. \A j \in 1..n : taken[j] \in Nat \ {0}
      BY <1>1
  <1>6. n \in Nat
      BY <1>1
  <1> HIDE DEF calls
  <1>7. /\ DOMAIN w = 1..n
        /\ \A j \in 1..n : w[j] \in Part /\ w[j].part \in {"header", "status"} /\ w[j].call = taken[j]
      BY <1>4, <1>5 DEF Part
  <1>8. w \in Seq(Part)
    <2>1. w \in [1..n -> Part]
        BY <1>7
    <2> QED BY <1>6, <2>1
  <1>9. writing' = [writing EXCEPT ![k] = w]
      BY <1>3
  <1> HIDE DEF w
  <1>10. QueueInOrder(w, <<>>)
    <2>1. \A i, j \in DOMAIN w : i < j => w[i].call < w[j].call
      <3>1. \A i, j \in 1..n : i < j => taken[i] < taken[j]
          BY <1>3
      <3> QED BY <1>7, <3>1
    <2>2. \A j \in DOMAIN w : w[j].part # "body"
        BY <1>7
    <2>3. DOMAIN <<>> = {}
        OBVIOUS
    <2> HIDE <1>3
    <2> QED BY <2>1, <2>2, <2>3 DEF QueueInOrder
  <1>11. writing' \in [Conns -> Seq(Part)] /\ writing'[k] = w
         /\ \A x \in Conns \ {k} : writing'[x] = writing[x]
      BY <1>8, <1>9 DEF TypeOK
  <1> QED BY <1>10, <1>11 DEF Handler

(* Sessions in S leave the table, and with them their connections close:    *)
(* the table stays exact.                                                   *)
LEMMA EraseKeepsTable ==
    ASSUME TypeOK, TableInv, NEW S \in SUBSET Conns,
           \A k \in S : \E e \in Endpoints : http_sessions_[e] = k,
           http_sessions_' \in [Endpoints -> Conns \cup {None}],
           \A e \in Endpoints : http_sessions_'[e] =
               IF http_sessions_[e] \in S THEN None ELSE http_sessions_[e],
           conn' = Destroyed(S, conn), endpoint' = endpoint
    PROVE  /\ TableInv'
           /\ conn' \in [Conns -> {"none", "open", "closing", "freed"}]
           /\ \A k \in Conns : conn'[k] # conn[k] => k \in S /\ conn'[k] = "closing"
           /\ \A k \in Conns : conn'[k] = "open" => conn[k] = "open" /\ k \notin S
  <1>1. None \notin Conns
      BY HttpAssumption
  <1>2. \A k \in Conns : conn'[k] = IF k \in S THEN "closing" ELSE conn[k]
      BY DEF Destroyed
  <1>3. conn' \in [Conns -> {"none", "open", "closing", "freed"}]
      BY DEF Destroyed, TypeOK
  <1>4. \A e \in Endpoints : \A k \in Conns : http_sessions_'[e] = k => endpoint'[k] = e
      BY <1>1 DEF TableInv
  <1>5. TableMatchesConnections'
    <2> SUFFICES ASSUME NEW k \in Conns
                 PROVE  conn'[k] = "open" <=>
                          (endpoint'[k] \in Endpoints /\ http_sessions_'[endpoint'[k]] = k)
        BY DEF TableMatchesConnections
    <2>1. conn[k] = "open" <=>
             (endpoint[k] \in Endpoints /\ http_sessions_[endpoint[k]] = k)
        BY DEF TableInv, TableMatchesConnections
    <2>2. CASE k \in S
        BY <1>1, <1>2, <2>2
    <2>3. CASE k \notin S
        BY <1>1, <1>2, <2>1, <2>3
    <2> QED BY <2>2, <2>3
  <1> QED BY <1>2, <1>3, <1>4, <1>5 DEF TableInv

(* A HandleRequest that is abandoned no longer receives. *)
LEMMA AbandonedEffect ==
    ASSUME NEW S, NEW f \in [Conns -> {"none", "receiving", "done", "abandoned"}]
    PROVE  /\ Abandoned(S, f) \in [Conns -> {"none", "receiving", "done", "abandoned"}]
           /\ \A k \in Conns : Abandoned(S, f)[k] = "receiving" => f[k] = "receiving"
  BY DEF Abandoned

(* OnClose(e) erases the one session the table has for e. *)
LEMMA OnCloseKeepsTable ==
    ASSUME TypeOK, TableInv, NEW e \in Endpoints, OnClose(e), endpoint' = endpoint
    PROVE  /\ TableInv'
           /\ http_sessions_' \in [Endpoints -> Conns \cup {None}]
           /\ conn' \in [Conns -> {"none", "open", "closing", "freed"}]
           /\ handling' \in [Conns -> {"none", "receiving", "done", "abandoned"}]
           /\ \A k \in Conns : conn'[k] = "none" => conn[k] = "none"
           /\ \A k \in Conns : conn'[k] = "open" => conn[k] = "open"
           /\ \A k \in Conns : handling'[k] = "receiving" => handling[k] = "receiving"
  <1> DEFINE gone == {http_sessions_[e]} \ {None}
  <1>1. /\ http_sessions_' = [http_sessions_ EXCEPT ![e] = None]
        /\ conn' = Destroyed(gone, conn) /\ handling' = Abandoned(gone, handling)
      BY DEF OnClose
  <1>2. /\ http_sessions_ \in [Endpoints -> Conns \cup {None}]
        /\ handling \in [Conns -> {"none", "receiving", "done", "abandoned"}]
      BY DEF TypeOK
  <1>3. http_sessions_' \in [Endpoints -> Conns \cup {None}]
      BY <1>1, <1>2
  <1>4. gone \in SUBSET Conns /\ \A k \in gone : \E x \in Endpoints : http_sessions_[x] = k
      BY <1>2
  <1>5. \A x \in Endpoints : http_sessions_'[x] =
             IF http_sessions_[x] \in gone THEN None ELSE http_sessions_[x]
    <2> SUFFICES ASSUME NEW x \in Endpoints
                 PROVE  http_sessions_'[x] =
                          IF http_sessions_[x] \in gone THEN None ELSE http_sessions_[x]
        OBVIOUS
    <2>1. CASE x = e
        BY <1>1, <1>2, <2>1
    <2>2. CASE x # e
      <3>1. http_sessions_[x] \notin gone
          BY <1>2, <2>2 DEF TableInv
      <3> QED BY <1>1, <1>2, <2>2, <3>1
    <2> QED BY <2>1, <2>2
  <1> HIDE DEF gone
  <1>6. /\ TableInv'
        /\ conn' \in [Conns -> {"none", "open", "closing", "freed"}]
        /\ \A k \in Conns : conn'[k] # conn[k] => k \in gone /\ conn'[k] = "closing"
        /\ \A k \in Conns : conn'[k] = "open" => conn[k] = "open" /\ k \notin gone
      BY <1>1, <1>3, <1>4, <1>5, EraseKeepsTable
  <1>7. /\ handling' \in [Conns -> {"none", "receiving", "done", "abandoned"}]
        /\ \A k \in Conns : handling'[k] = "receiving" => handling[k] = "receiving"
      BY <1>1, <1>2, AbandonedEffect
  <1> QED BY <1>3, <1>6, <1>7
------------------------------------------------------------------------------
(* What the server starts with satisfies the invariant. *)
LEMMA InitInv == Init => IInv
  <1> SUFFICES ASSUME Init PROVE IInv
      OBVIOUS
  <1>1. <<>> \in Seq(Part)
      BY EmptySeq
  <1>2. 0 \in 0..AliveTicks /\ 0 < AliveTicks /\ None \notin Conns /\ None \notin Endpoints
      BY HttpAssumption
  <1>3. is_close_ \in [Conns -> BOOLEAN] /\ dangling \in BOOLEAN
      BY DEF Init
  <1>4. TypeOK
      BY <1>1, <1>2, <1>3 DEF Init, TypeOK
  <1>5. ConnInv
      BY DEF Init, ConnInv
  <1>6. TableInv
      BY <1>2 DEF Init, TableInv, TableMatchesConnections
  <1>7. AnswerInv
      BY DEF Init, AnswerInv
  <1>8. ResponseInv
      BY NothingInOrder DEF Init, ResponseInv
  <1> QED BY <1>4, <1>5, <1>6, <1>7, <1>8 DEF IInv

(* A connection is accepted: it takes its endpoint's place in the table. *)
LEMMA AcceptInv ==
    ASSUME IInv, NEW k \in Conns, NEW e \in Endpoints, NEW r \in Requests[k], Accept(k, e, r)
    PROVE  IInv'
  <1> DEFINE old == {http_sessions_[e]} \ {None}
  <1>1. TypeOK /\ ConnInv /\ TableInv /\ AnswerInv /\ ResponseInv
      BY DEF IInv
  <1>2. /\ conn[k] = "none"
        /\ peer' = [peer EXCEPT ![k] = "open"] \/ peer' = [peer EXCEPT ![k] = "reset"]
        /\ endpoint' = [endpoint EXCEPT ![k] = e]
        /\ request' = [request EXCEPT ![k] = r]
        /\ http_sessions_' = [http_sessions_ EXCEPT ![e] = k]
        /\ conn' = [Destroyed(old, conn) EXCEPT ![k] = "open"]
        /\ handling' = [Abandoned(old, handling) EXCEPT ![k] = "receiving"]
      BY DEF Accept, Insert
  <1>3. UNCHANGED <<run, received, writing, sent, idle, is_close_, dangling>>
      BY DEF Accept, responseVars
  <1>4. r \in Request /\ None \notin Conns /\ None \notin Endpoints /\ 0 < AliveTicks
      BY HttpAssumption
  <1>5. /\ http_sessions_ \in [Endpoints -> Conns \cup {None}]
        /\ endpoint \in [Conns -> Endpoints \cup {None}]
        /\ conn \in [Conns -> {"none", "open", "closing", "freed"}]
        /\ handling \in [Conns -> {"none", "receiving", "done", "abandoned"}]
        /\ request \in [Conns -> Request \cup {None}]
        /\ peer \in [Conns -> {"none", "open", "ended", "reset"}]
      BY <1>1 DEF TypeOK
  <1>6. \A x \in Conns : conn'[x] = IF x = k THEN "open" ELSE
                                    IF x \in old THEN "closing" ELSE conn[x]
      BY <1>2, <1>5 DEF Destroyed
  <1>7. \A x \in Conns \ {k} : handling'[x] = "receiving" => handling[x] = "receiving"
    <2>1. \A x \in Conns \ {k} : handling'[x] = Abandoned(old, handling)[x]
        BY <1>2, <1>5 DEF Abandoned
    <2> QED BY <1>5, <2>1, AbandonedEffect
  <1>8. /\ endpoint'[k] = e /\ \A x \in Conns \ {k} : endpoint'[x] = endpoint[x]
        /\ http_sessions_'[e] = k
        /\ \A x \in Endpoints \ {e} : http_sessions_'[x] = http_sessions_[x]
        /\ request'[k] = r /\ \A x \in Conns \ {k} : request'[x] = request[x]
      BY <1>2, <1>5
  \* the new connection is in no other place of the table
  <1>9. \A x \in Endpoints : http_sessions_[x] # k
      BY <1>1, <1>2 DEF TableInv, TableMatchesConnections
  <1>10. TypeOK'
    <2>1. conn' \in [Conns -> {"none", "open", "closing", "freed"}]
        BY <1>2, <1>5 DEF Destroyed
    <2>2. handling' \in [Conns -> {"none", "receiving", "done", "abandoned"}]
        BY <1>2, <1>5, AbandonedEffect
    <2>3. /\ http_sessions_' \in [Endpoints -> Conns \cup {None}]
          /\ endpoint' \in [Conns -> Endpoints \cup {None}]
          /\ request' \in [Conns -> Request \cup {None}]
          /\ peer' \in [Conns -> {"none", "open", "ended", "reset"}]
        BY <1>2, <1>4, <1>5
    <2> QED BY <1>1, <1>3, <2>1, <2>2, <2>3 DEF TypeOK
  <1>11. ConnInv'
    <2>1. idle'[k] = 0 /\ writing'[k] = <<>> /\ sent'[k] = <<>>
        BY <1>1, <1>2, <1>3 DEF ConnInv
    <2>2. \A x \in Conns \ {k} :
             /\ conn'[x] = "none" => conn[x] = "none"
             /\ conn'[x] = "open" => conn[x] = "open"
        BY <1>6
    <2> QED BY <1>1, <1>3, <1>4, <1>6, <1>7, <1>8, <2>1, <2>2 DEF ConnInv
  <1>12. TableInv'
    <2>1. ASSUME NEW x \in Endpoints, NEW y \in Conns, http_sessions_'[x] = y
          PROVE  endpoint'[y] = x
        BY <1>1, <1>8, <1>9, <2>1 DEF TableInv
    <2>2. ASSUME NEW y \in Conns
          PROVE  conn'[y] = "open" <=>
                    (endpoint'[y] \in Endpoints /\ http_sessions_'[endpoint'[y]] = y)
      <3>1. CASE y = k
          BY <1>6, <1>8, <3>1
      <3>2. CASE y # k
        <4>1. conn[y] = "open" <=>
                 (endpoint[y] \in Endpoints /\ http_sessions_[endpoint[y]] = y)
            BY <1>1 DEF TableInv, TableMatchesConnections
        <4>2. endpoint'[y] = endpoint[y] /\ (y \in old <=> http_sessions_[e] = y)
            BY <1>4, <1>8, <3>2
        <4>3. CASE y \in old
          <5>1. endpoint[y] = e
              BY <1>1, <4>2, <4>3 DEF TableInv
          <5> QED BY <1>6, <1>8, <3>2, <4>2, <4>3, <5>1
        <4>4. CASE y \notin old
            BY <1>6, <1>8, <3>2, <4>1, <4>2, <4>4
        <4> QED BY <4>3, <4>4
      <3> QED BY <3>1, <3>2
    <2> QED BY <2>1, <2>2 DEF TableInv, TableMatchesConnections
  <1>13. AnswerInv'
      BY <1>1, <1>2, <1>3, <1>8 DEF AnswerInv, ConnInv
  <1>14. ResponseInv'
      BY <1>1, <1>3 DEF ResponseInv
  <1> QED BY <1>10, <1>11, <1>12, <1>13, <1>14 DEF IInv

(* An accept error, and what a client does. *)
LEMMA OutsideInv ==
    ASSUME IInv, AcceptError \/ \E k \in Conns : ClientEnds(k)
    PROVE  IInv'
  <1>1. TypeOK /\ ConnInv /\ TableInv /\ AnswerInv /\ ResponseInv
      BY DEF IInv
  <1>2. UNCHANGED <<http_sessions_, endpoint, conn, request, received, handling, writing,
                    sent, idle, is_close_, dangling>>
      BY DEF AcceptError, ClientEnds, sessionVars, responseVars
  <1>3. run' \in {"accepting", "stopped"}
      BY <1>1 DEF AcceptError, ClientEnds, TypeOK
  <1>4. peer' \in [Conns -> {"none", "open", "ended", "reset"}]
    <2>1. peer \in [Conns -> {"none", "open", "ended", "reset"}]
        BY <1>1 DEF TypeOK
    <2>2. CASE AcceptError
        BY <2>1, <2>2 DEF AcceptError
    <2>3. ASSUME NEW k \in Conns, ClientEnds(k)
          PROVE  peer' \in [Conns -> {"none", "open", "ended", "reset"}]
        BY <2>1, <2>3 DEF ClientEnds
    <2> QED BY <2>2, <2>3
  <1>5. TypeOK'
      BY <1>1, <1>2, <1>3, <1>4 DEF TypeOK
  <1>6. ConnInv' /\ TableInv' /\ AnswerInv' /\ ResponseInv'
      BY <1>1, <1>2
      DEF ConnInv, TableInv, TableMatchesConnections, AnswerInv, ResponseInv
  <1> QED BY <1>5, <1>6 DEF IInv
------------------------------------------------------------------------------
(* Pieces of a request arrive: the request is complete when its handler     *)
(* runs, and the handler's parts are queued in order.                       *)
LEMMA OnReceiveDataInv ==
    ASSUME IInv, NEW k \in Conns, OnReceiveData(k)
    PROVE  IInv'
  <1>1. TypeOK /\ ConnInv /\ TableInv /\ AnswerInv /\ ResponseInv
      BY DEF IInv
  <1>2. conn[k] = "open" /\ handling[k] = "receiving" /\ idle' = [idle EXCEPT ![k] = 0]
      BY DEF OnReceiveData
  <1>3. UNCHANGED <<run, http_sessions_, endpoint, conn, request, is_close_, peer, dangling>>
      BY DEF OnReceiveData
  <1>4. PICK n \in (received[k] + 1)..Total(request[k]) :
          received' = [received EXCEPT ![k] = n] /\ HandleRequest(k, n)
      BY DEF OnReceiveData
  <1>5. /\ request[k] \in Request /\ writing[k] = <<>> /\ sent[k] = <<>>
      BY <1>1, <1>2 DEF ConnInv
  <1>6. /\ request[k].content_length \in Nat /\ request[k].method \in {"GET", "POST"}
      BY <1>5 DEF Request
  <1>7. n \in Nat /\ n <= HeaderLen + request[k].content_length /\ HeaderLen \in Nat
    <2>1. received[k] \in Nat
        BY <1>1 DEF TypeOK
    <2> QED BY <1>6, <2>1, HttpAssumption DEF Total
  <1>8. /\ received' \in [Conns -> Nat] /\ received'[k] = n
        /\ \A x \in Conns \ {k} : received'[x] = received[x]
      BY <1>1, <1>4, <1>7 DEF TypeOK
  <1>9. /\ idle' \in [Conns -> 0..AliveTicks] /\ idle'[k] = 0
        /\ \A x \in Conns \ {k} : idle'[x] = idle[x]
    <2>1. 0 \in 0..AliveTicks
        BY HttpAssumption
    <2> QED BY <1>1, <1>2, <2>1 DEF TypeOK
  \* HandleRequest reads on or gives up, or it runs the handler
  <1>10. /\ handling' \in [Conns -> {"none", "receiving", "done", "abandoned"}]
         /\ \A x \in Conns \ {k} : handling'[x] = handling[x]
         /\ \/ writing' = writing /\ sent' = sent
            \/ /\ handling'[k] = "done" /\ Handler(k)
               /\ request[k].valid /\ request[k].known
               /\ request[k].method = "GET" \/ BodyReady(k, n)
               /\ HeaderReady(k, n)
    <2> DEFINE full == request[k].method = "GET" \/ BodyReady(k, n)
    <2>1. handling \in [Conns -> {"none", "receiving", "done", "abandoned"}]
        BY <1>1 DEF TypeOK
    <2>2. CASE ~HeaderReady(k, n) \/ (request[k].valid /\ ~full)
      <3>1. handling' = handling /\ writing' = writing /\ sent' = sent
          BY <1>4, <2>2 DEF HandleRequest, responseVars
      <3> QED BY <2>1, <3>1
    <2>3. CASE HeaderReady(k, n) /\ ~(request[k].valid /\ ~full)
      <3>1. /\ handling' = [handling EXCEPT ![k] = "done"]
            /\ IF request[k].valid /\ request[k].known THEN Handler(k)
                                                       ELSE UNCHANGED responseVars
          BY <1>4, <2>3 DEF HandleRequest
      <3>2. CASE request[k].valid /\ request[k].known
          BY <2>1, <2>3, <3>1, <3>2
      <3>3. CASE ~(request[k].valid /\ request[k].known)
          BY <2>1, <3>1, <3>3 DEF responseVars
      <3> QED BY <3>2, <3>3
    <2> QED BY <2>2, <2>3
  <1>11. TableInv'
      BY <1>1, <1>3 DEF TableInv, TableMatchesConnections
  <1>12. 0 < AliveTicks
      BY HttpAssumption
  <1>13. CASE writing' = writing /\ sent' = sent
    <2>1. TypeOK'
        BY <1>1, <1>3, <1>8, <1>9, <1>10, <1>13 DEF TypeOK
    <2>2. ConnInv'
        BY <1>1, <1>2, <1>3, <1>5, <1>9, <1>10, <1>12, <1>13 DEF ConnInv
    <2>3. AnswerInv'
        BY <1>1, <1>3, <1>5, <1>8, <1>13 DEF AnswerInv
    <2>4. ResponseInv'
        BY <1>1, <1>13 DEF ResponseInv
    <2> QED BY <1>11, <2>1, <2>2, <2>3, <2>4 DEF IInv
  <1>14. CASE /\ handling'[k] = "done" /\ Handler(k)
              /\ request[k].valid /\ request[k].known
              /\ request[k].method = "GET" \/ BodyReady(k, n)
              /\ HeaderReady(k, n)
    <2>1. /\ sent' = sent /\ writing' \in [Conns -> Seq(Part)]
          /\ \A x \in Conns \ {k} : writing'[x] = writing[x]
          /\ QueueInOrder(writing'[k], <<>>)
        BY <1>1, <1>5, <1>14, HandlerEffect
    <2>2. TypeOK'
        BY <1>1, <1>3, <1>8, <1>9, <1>10, <2>1 DEF TypeOK
    <2>3. ConnInv'
        BY <1>1, <1>2, <1>3, <1>5, <1>9, <1>10, <1>12, <1>14, <2>1 DEF ConnInv
    <2>4. AnswerInv'
      <3>1. /\ request[k].method = "GET" => n >= HeaderLen
            /\ request[k].method = "POST" =>
                  request[k].content_length > 0 /\ n = Total(request[k])
          BY <1>6, <1>7, <1>14 DEF BodyReady, HeaderReady, Total
      <3> QED BY <1>1, <1>3, <1>8, <1>14, <2>1, <3>1 DEF AnswerInv
    <2>5. ResponseInv'
      <3>1. SentInOrder(sent'[k]) /\ QueueInOrder(writing'[k], sent'[k])
          BY <1>5, <2>1, NothingInOrder
      <3> QED BY <1>1, <2>1, <3>1 DEF ResponseInv
    <2> QED BY <1>11, <2>2, <2>3, <2>4, <2>5 DEF IInv
  <1> QED BY <1>10, <1>13, <1>14

(* Bytes that bring the request no nearer to its end. *)
LEMMA OnReceiveMoreInv ==
    ASSUME IInv, NEW k \in Conns, OnReceiveMore(k)
    PROVE  IInv'
  <1>1. TypeOK /\ ConnInv /\ TableInv /\ AnswerInv /\ ResponseInv
      BY DEF IInv
  <1>2. idle' = [idle EXCEPT ![k] = 0]
      BY DEF OnReceiveMore
  <1>3. UNCHANGED <<run, http_sessions_, endpoint, conn, request, received, handling,
                    writing, sent, is_close_, peer, dangling>>
      BY DEF OnReceiveMore, responseVars
  <1>4. /\ idle' \in [Conns -> 0..AliveTicks] /\ 0 < AliveTicks
        /\ \A x \in Conns : idle'[x] = idle[x] \/ idle'[x] = 0
    <2>1. 0 \in 0..AliveTicks /\ 0 < AliveTicks
        BY HttpAssumption
    <2> QED BY <1>1, <1>2, <2>1 DEF TypeOK
  <1>5. TypeOK'
      BY <1>1, <1>3, <1>4 DEF TypeOK
  <1>6. ConnInv'
      BY <1>1, <1>3, <1>4 DEF ConnInv
  <1>7. TableInv' /\ AnswerInv' /\ ResponseInv'
      BY <1>1, <1>3 DEF TableInv, TableMatchesConnections, AnswerInv, ResponseInv
  <1> QED BY <1>5, <1>6, <1>7 DEF IInv

(* HandleRequest hears of the end and returns. *)
LEMMA OnReceiveEndInv ==
    ASSUME IInv, NEW k \in Conns, OnReceiveEnd(k)
    PROVE  IInv'
  <1>1. TypeOK /\ ConnInv /\ TableInv /\ AnswerInv /\ ResponseInv
      BY DEF IInv
  <1>2. handling' = [handling EXCEPT ![k] = "done"]
      BY DEF OnReceiveEnd
  <1>3. UNCHANGED <<run, http_sessions_, endpoint, conn, request, received,
                    writing, sent, idle, is_close_, peer, dangling>>
      BY DEF OnReceiveEnd, responseVars
  <1>4. /\ handling' \in [Conns -> {"none", "receiving", "done", "abandoned"}]
        /\ \A x \in Conns : handling'[x] = "receiving" => handling[x] = "receiving"
      BY <1>1, <1>2 DEF TypeOK
  <1>5. TypeOK'
      BY <1>1, <1>3, <1>4 DEF TypeOK
  <1>6. ConnInv'
      BY <1>1, <1>3, <1>4 DEF ConnInv
  <1>7. TableInv' /\ AnswerInv' /\ ResponseInv'
      BY <1>1, <1>3 DEF TableInv, TableMatchesConnections, AnswerInv, ResponseInv
  <1> QED BY <1>5, <1>6, <1>7 DEF IInv
------------------------------------------------------------------------------
(* A step about the response of connection k, which is open: what is left   *)
(* to show is that its parts stay in order, that the session only gets      *)
(* younger, and that the table stays exact.                                 *)
LEMMA ResponseStep ==
    ASSUME IInv, NEW k \in Conns, conn[k] = "open", writing[k] # <<>>,
           UNCHANGED <<run, endpoint, request, received, peer, dangling>>,
           writing' \in [Conns -> Seq(Part)], sent' \in [Conns -> Seq(Part)],
           \A x \in Conns \ {k} : writing'[x] = writing[x] /\ sent'[x] = sent[x],
           QueueInOrder(writing'[k], sent'[k]), SentInOrder(sent'[k]),
           idle' = idle \/ OnResponseAlive(k),
           TableInv',
           http_sessions_' \in [Endpoints -> Conns \cup {None}],
           conn' \in [Conns -> {"none", "open", "closing", "freed"}],
           handling' \in [Conns -> {"none", "receiving", "done", "abandoned"}],
           is_close_' \in [Conns -> BOOLEAN],
           \A x \in Conns : conn'[x] = "none" => conn[x] = "none",
           \A x \in Conns : conn'[x] = "open" => conn[x] = "open",
           \A x \in Conns : handling'[x] = "receiving" => handling[x] = "receiving"
    PROVE  IInv'
  <1>1. TypeOK /\ ConnInv /\ TableInv /\ AnswerInv /\ ResponseInv
      BY DEF IInv
  <1>2. /\ idle' \in [Conns -> 0..AliveTicks]
        /\ \A x \in Conns : idle'[x] = idle[x] \/ idle'[x] = 0
    <2>1. 0 \in 0..AliveTicks /\ idle \in [Conns -> 0..AliveTicks]
        BY <1>1, HttpAssumption DEF TypeOK
    <2> QED BY <2>1 DEF OnResponseAlive
  <1>3. TypeOK'
      BY <1>1, <1>2 DEF TypeOK
  <1>4. ConnInv'
    <2>1. 0 < AliveTicks /\ handling[k] # "receiving"
        BY <1>1, HttpAssumption DEF ConnInv
    <2> SUFFICES ASSUME NEW x \in Conns
                 PROVE  /\ conn'[x] = "none" => idle'[x] = 0 /\ writing'[x] = <<>> /\ sent'[x] = <<>>
                        /\ conn'[x] = "open" => idle'[x] < AliveTicks /\ request'[x] \in Request
                        /\ handling'[x] = "receiving" => writing'[x] = <<>> /\ sent'[x] = <<>>
        BY DEF ConnInv
    <2>2. /\ conn[x] = "none" => idle[x] = 0 /\ writing[x] = <<>> /\ sent[x] = <<>>
          /\ conn[x] = "open" => idle[x] < AliveTicks /\ request[x] \in Request
          /\ handling[x] = "receiving" => writing[x] = <<>> /\ sent[x] = <<>>
        BY <1>1 DEF ConnInv
    <2>3. idle'[x] = idle[x] \/ idle'[x] = 0
        BY <1>2
    <2> QED BY <2>1, <2>2, <2>3
  <1>5. AnswerInv'
      BY <1>1 DEF AnswerInv
  <1>6. ResponseInv'
      BY <1>1 DEF ResponseInv
  <1> QED BY <1>3, <1>4, <1>5, <1>6 DEF IInv

(* A part is written: it joins the parts sent, after those before it. *)
LEMMA WrittenEffect ==
    ASSUME IInv, NEW k \in Conns, NEW part, Written(k, part)
    PROVE  /\ conn[k] = "open" /\ writing[k] # <<>> /\ writing[k] \in Seq(Part)
           /\ Head(writing[k]).part = part
           /\ sent[k] \in Seq(Part) /\ sent' \in [Conns -> Seq(Part)]
           /\ sent'[k] = Append(sent[k], Head(writing[k]))
           /\ \A x \in Conns \ {k} : sent'[x] = sent[x]
           /\ SentInOrder(sent'[k]) /\ QueueInOrder(Tail(writing[k]), sent'[k])
  <1>1. TypeOK /\ ResponseInv
      BY DEF IInv
  <1>2. /\ conn[k] = "open" /\ writing[k] # <<>> /\ Head(writing[k]).part = part
        /\ sent' = [sent EXCEPT ![k] = Append(sent[k], Head(writing[k]))]
      BY DEF Written
  <1>3. writing[k] \in Seq(Part) /\ sent[k] \in Seq(Part) /\ sent \in [Conns -> Seq(Part)]
      BY <1>1 DEF TypeOK
  <1>4. Append(sent[k], Head(writing[k])) \in Seq(Part)
      BY <1>2, <1>3, TailParts, AppendedPart
  <1>5. /\ sent' \in [Conns -> Seq(Part)] /\ sent'[k] = Append(sent[k], Head(writing[k]))
        /\ \A x \in Conns \ {k} : sent'[x] = sent[x]
      BY <1>2, <1>3, <1>4
  <1>6. SentInOrder(sent'[k]) /\ QueueInOrder(Tail(writing[k]), sent'[k])
      BY <1>1, <1>2, <1>3, <1>5, WrittenKeepsOrder DEF ResponseInv
  <1> QED BY <1>2, <1>3, <1>5, <1>6

(* The table and the connections of a step that erases no session. *)
LEMMA NothingErased ==
    ASSUME IInv, UNCHANGED <<endpoint, http_sessions_, conn, handling, is_close_>>
    PROVE  /\ TableInv'
           /\ http_sessions_' \in [Endpoints -> Conns \cup {None}]
           /\ conn' \in [Conns -> {"none", "open", "closing", "freed"}]
           /\ handling' \in [Conns -> {"none", "receiving", "done", "abandoned"}]
           /\ is_close_' \in [Conns -> BOOLEAN]
  BY DEF IInv, TypeOK, TableInv, TableMatchesConnections

(* A header was written; its body is queued, or uv_write refuses it. *)
LEMMA OnHeaderWrittenInv ==
    ASSUME IInv, NEW k \in Conns, OnHeaderWritten(k)
    PROVE  IInv'
  <1>1. UNCHANGED <<run, http_sessions_, endpoint, conn, request, received, handling,
                    is_close_, peer, dangling>>
      BY DEF OnHeaderWritten
  <1> DEFINE w == writing[k]
             b == [part |-> "body", call |-> Head(w).call]
  <1>2. /\ conn[k] = "open" /\ w # <<>> /\ w \in Seq(Part) /\ Head(w).part = "header"
        /\ sent[k] \in Seq(Part) /\ sent' \in [Conns -> Seq(Part)]
        /\ sent'[k] = Append(sent[k], Head(w))
        /\ \A x \in Conns \ {k} : sent'[x] = sent[x]
        /\ SentInOrder(sent'[k]) /\ QueueInOrder(Tail(w), sent'[k])
      BY WrittenEffect DEF OnHeaderWritten
  <1>3. Head(w) \in Part /\ Tail(w) \in Seq(Part)
      BY <1>2, TailParts
  <1>4. [Head(w) EXCEPT !.part = "body"] = b /\ b \in Part
      BY <1>3 DEF Part
  <1>5. writing \in [Conns -> Seq(Part)]
      BY DEF IInv, TypeOK
  <1>6. PICK body \in {<<>>, <<b>>} : writing' = [writing EXCEPT ![k] = Tail(w) \o body]
    <2>1. \E body \in {<<>>, <<[Head(w) EXCEPT !.part = "body"]>>} :
             writing' = [writing EXCEPT ![k] = Tail(w) \o body]
        BY <1>5 DEF OnHeaderWritten
    <2> HIDE DEF w, b
    <2> QED BY <1>4, <2>1
  <1>7. Tail(w) \o body \in Seq(Part) /\ QueueInOrder(Tail(w) \o body, sent'[k])
    <2>1. CASE body = <<>>
      <3>1. Tail(w) \o <<>> = Tail(w)
          BY <1>3, ConcatEmptySeq
      <3> QED BY <1>2, <1>3, <2>1, <3>1
    <2>2. CASE body = <<b>>
      <3>1. Tail(w) \o <<b>> = Append(Tail(w), b)
          BY <1>3, <1>4, AppendIsConcat
      <3>2. Append(Tail(w), b) \in Seq(Part)
          BY <1>3, <1>4, AppendedPart
      <3>3. QueueInOrder(w, sent[k]) /\ SentInOrder(sent[k])
          BY DEF IInv, ResponseInv
      <3>4. QueueInOrder(Append(Tail(w), b), Append(sent[k], Head(w)))
        <4> HIDE DEF w
        <4> QED BY <1>2, <3>3, BodyKeepsOrder
      <3> QED BY <1>2, <2>2, <3>1, <3>2, <3>4
    <2> QED BY <1>6, <2>1, <2>2
  <1>8. /\ writing' \in [Conns -> Seq(Part)] /\ QueueInOrder(writing'[k], sent'[k])
        /\ \A x \in Conns \ {k} : writing'[x] = writing[x]
      BY <1>5, <1>6, <1>7
  <1>9. OnResponseAlive(k)
      BY DEF OnHeaderWritten
  <1>10. /\ TableInv'
         /\ http_sessions_' \in [Endpoints -> Conns \cup {None}]
         /\ conn' \in [Conns -> {"none", "open", "closing", "freed"}]
         /\ handling' \in [Conns -> {"none", "receiving", "done", "abandoned"}]
         /\ is_close_' \in [Conns -> BOOLEAN]
      BY <1>1, NothingErased
  <1> QED BY <1>1, <1>2, <1>8, <1>9, <1>10, ResponseStep

(* The last part of a call was written: the session goes on, or some        *)
(* session is erased, its own or one whose endpoint was misread.            *)
LEMMA CallEndsInv ==
    ASSUME IInv, NEW k \in Conns, NEW part, Written(k, part), CallEnds(k),
           idle' = idle \/ OnResponseAlive(k)
    PROVE  IInv'
  <1>1. /\ conn[k] = "open" /\ writing[k] # <<>> /\ writing[k] \in Seq(Part)
        /\ sent' \in [Conns -> Seq(Part)]
        /\ \A x \in Conns \ {k} : sent'[x] = sent[x]
        /\ SentInOrder(sent'[k]) /\ QueueInOrder(Tail(writing[k]), sent'[k])
      BY WrittenEffect
  <1>2. /\ writing' = [writing EXCEPT ![k] = Tail(writing[k])]
        /\ UNCHANGED <<run, endpoint, request, received, peer, dangling>>
        /\ \/ UNCHANGED <<is_close_, http_sessions_, conn, handling>>
           \/ OnResponseClose(k)
      BY DEF CallEnds
  <1>3. TypeOK /\ TableInv
      BY DEF IInv
  <1>4. /\ writing' \in [Conns -> Seq(Part)] /\ QueueInOrder(writing'[k], sent'[k])
        /\ \A x \in Conns \ {k} : writing'[x] = writing[x]
      BY <1>1, <1>2, <1>3, TailParts DEF TypeOK
  <1>5. /\ TableInv'
        /\ http_sessions_' \in [Endpoints -> Conns \cup {None}]
        /\ conn' \in [Conns -> {"none", "open", "closing", "freed"}]
        /\ handling' \in [Conns -> {"none", "receiving", "done", "abandoned"}]
        /\ is_close_' \in [Conns -> BOOLEAN]
        /\ \A x \in Conns : conn'[x] = "none" => conn[x] = "none"
        /\ \A x \in Conns : conn'[x] = "open" => conn[x] = "open"
        /\ \A x \in Conns : handling'[x] = "receiving" => handling[x] = "receiving"
    <2>1. CASE UNCHANGED <<is_close_, http_sessions_, conn, handling>>
        BY <1>2, <2>1, NothingErased
    <2>2. CASE OnResponseClose(k)
      <3>1. is_close_' \in [Conns -> BOOLEAN]
          BY <1>3, <2>2 DEF OnResponseClose, TypeOK
      <3>2. \/ \E e \in Endpoints : OnClose(e)
            \/ UNCHANGED <<http_sessions_, conn, handling>>
        <4>1. endpoint[k] \in Endpoints
            BY <1>1, <1>3 DEF TableInv, TableMatchesConnections
        <4> QED BY <2>2, <4>1 DEF OnResponseClose
      <3>3. CASE \E e \in Endpoints : OnClose(e)
          BY <1>2, <1>3, <3>1, <3>3, OnCloseKeepsTable
      <3>4. CASE UNCHANGED <<http_sessions_, conn, handling>>
          BY <1>2, <1>3, <3>1, <3>4 DEF TypeOK, TableInv, TableMatchesConnections
      <3> QED BY <3>2, <3>3, <3>4
    <2> QED BY <1>2, <2>1, <2>2
  <1> QED BY <1>1, <1>2, <1>4, <1>5, ResponseStep

(* A write fails. *)
LEMMA OnWriteErrorInv ==
    ASSUME IInv, NEW k \in Conns, OnWriteError(k)
    PROVE  IInv'
  <1>1. /\ conn[k] = "open" /\ writing[k] # <<>>
        /\ writing' = [writing EXCEPT ![k] = Tail(writing[k])]
      BY DEF OnWriteError
  <1>2. UNCHANGED <<run, http_sessions_, endpoint, conn, request, received, handling,
                    sent, idle, is_close_, peer, dangling>>
      BY DEF OnWriteError
  <1>3. TypeOK /\ ResponseInv
      BY DEF IInv
  <1>4. writing[k] \in Seq(Part) /\ sent[k] \in Seq(Part)
      BY <1>3 DEF TypeOK
  <1>5. QueueInOrder(Tail(writing[k]), sent[k]) /\ SentInOrder(sent[k])
      BY <1>1, <1>3, <1>4, DropKeepsOrder DEF ResponseInv
  <1>6. Tail(writing[k]) \in Seq(Part)
      BY <1>1, <1>4, TailParts
  <1>7. /\ writing' \in [Conns -> Seq(Part)] /\ sent' \in [Conns -> Seq(Part)]
        /\ \A x \in Conns \ {k} : writing'[x] = writing[x] /\ sent'[x] = sent[x]
        /\ QueueInOrder(writing'[k], sent'[k]) /\ SentInOrder(sent'[k])
      BY <1>1, <1>2, <1>3, <1>5, <1>6 DEF TypeOK
  <1>8. /\ TableInv'
        /\ http_sessions_' \in [Endpoints -> Conns \cup {None}]
        /\ conn' \in [Conns -> {"none", "open", "closing", "freed"}]
        /\ handling' \in [Conns -> {"none", "receiving", "done", "abandoned"}]
        /\ is_close_' \in [Conns -> BOOLEAN]
      BY <1>2, NothingErased
  <1> QED BY <1>1, <1>2, <1>7, <1>8, ResponseStep
------------------------------------------------------------------------------
(* A timer period: every session grows older by one, and those that are     *)
(* too old or closed are erased, so that the others are younger than        *)
(* AliveTicks.                                                              *)
LEMMA OnTimerInv ==
    ASSUME IInv, OnTimer
    PROVE  IInv'
  <1> DEFINE age == [k \in Conns |-> IF k \in Sessions THEN idle[k] + 1 ELSE idle[k]]
             dead == {k \in Sessions : ~IsAlive(k, age[k])}
  <1>1. TypeOK /\ ConnInv /\ TableInv /\ AnswerInv /\ ResponseInv
      BY DEF IInv
  <1>2. /\ idle' = age
        /\ http_sessions_' = [e \in Endpoints |-> IF http_sessions_[e] \in dead
                                                  THEN None ELSE http_sessions_[e]]
        /\ conn' = Destroyed(dead, conn)
        /\ handling' = Abandoned(dead, handling)
      BY DEF OnTimer
  <1>3. UNCHANGED <<run, endpoint, request, received, writing, sent, is_close_, peer, dangling>>
      BY DEF OnTimer, responseVars
  <1>4. /\ http_sessions_ \in [Endpoints -> Conns \cup {None}] /\ idle \in [Conns -> 0..AliveTicks]
        /\ handling \in [Conns -> {"none", "receiving", "done", "abandoned"}]
        /\ AliveTicks \in Nat
      BY <1>1, HttpAssumption DEF TypeOK
  <1>5. /\ \A k \in Sessions : \E e \in Endpoints : http_sessions_[e] = k
        /\ Sessions \subseteq Conns
      BY <1>4 DEF Sessions
  <1>6. \A k \in Conns : conn[k] = "open" <=> k \in Sessions
    <2> SUFFICES ASSUME NEW k \in Conns PROVE conn[k] = "open" <=> k \in Sessions
        OBVIOUS
    <2>1. k # None
        BY HttpAssumption
    <2>2. conn[k] = "open" <=>
             (endpoint[k] \in Endpoints /\ http_sessions_[endpoint[k]] = k)
        BY <1>1 DEF TableInv, TableMatchesConnections
    <2>3. ASSUME k \in Sessions PROVE conn[k] = "open"
      <3>1. PICK e \in Endpoints : http_sessions_[e] = k
          BY <1>5, <2>3
      <3>2. endpoint[k] = e
          BY <1>1, <3>1 DEF TableInv
      <3> QED BY <2>2, <3>1, <3>2
    <2>4. ASSUME conn[k] = "open" PROVE k \in Sessions
        BY <2>1, <2>2, <2>4 DEF Sessions
    <2> QED BY <2>3, <2>4
  <1>7. \A k \in Conns : /\ age[k] \in 0..AliveTicks
                         /\ k \notin Sessions => age[k] = idle[k]
                         /\ k \in Sessions /\ k \notin dead => age[k] < AliveTicks
    <2>1. \A k \in Sessions : idle[k] < AliveTicks
        BY <1>1, <1>5, <1>6 DEF ConnInv
    <2>2. \A k \in Conns : age[k] \in 0..AliveTicks
        BY <1>4, <2>1
    <2>3. \A k \in Conns : k \notin Sessions => age[k] = idle[k]
        OBVIOUS
    <2>4. \A k \in Conns : k \in Sessions /\ k \notin dead => age[k] < AliveTicks
        BY DEF IsAlive
    <2> QED BY <2>2, <2>3, <2>4
  <1>8. age \in [Conns -> 0..AliveTicks]
      BY <1>7
  <1>9. dead \in SUBSET Conns /\ \A k \in dead : \E e \in Endpoints : http_sessions_[e] = k
      BY <1>5
  <1> HIDE DEF age, dead
  <1>10. /\ http_sessions_' \in [Endpoints -> Conns \cup {None}]
         /\ \A e \in Endpoints : http_sessions_'[e] =
               IF http_sessions_[e] \in dead THEN None ELSE http_sessions_[e]
      BY <1>2, <1>4
  <1>11. /\ TableInv'
         /\ conn' \in [Conns -> {"none", "open", "closing", "freed"}]
         /\ \A k \in Conns : conn'[k] # conn[k] => k \in dead /\ conn'[k] = "closing"
         /\ \A k \in Conns : conn'[k] = "open" => conn[k] = "open" /\ k \notin dead
      BY <1>1, <1>2, <1>3, <1>9, <1>10, EraseKeepsTable
  <1>12. /\ handling' \in [Conns -> {"none", "receiving", "done", "abandoned"}]
         /\ \A k \in Conns : handling'[k] = "receiving" => handling[k] = "receiving"
      BY <1>2, <1>4, AbandonedEffect
  <1>13. TypeOK'
      BY <1>1, <1>2, <1>3, <1>8, <1>10, <1>11, <1>12 DEF TypeOK
  <1>14. ConnInv'
    <2> SUFFICES ASSUME NEW k \in Conns
                 PROVE  /\ conn'[k] = "none" =>
                             idle'[k] = 0 /\ writing'[k] = <<>> /\ sent'[k] = <<>>
                        /\ conn'[k] = "open" => idle'[k] < AliveTicks /\ request'[k] \in Request
                        /\ handling'[k] = "receiving" => writing'[k] = <<>> /\ sent'[k] = <<>>
        BY DEF ConnInv
    <2>1. conn'[k] = "none" => idle'[k] = 0 /\ writing'[k] = <<>> /\ sent'[k] = <<>>
        BY <1>1, <1>2, <1>3, <1>6, <1>7, <1>11 DEF ConnInv
    <2>2. conn'[k] = "open" => idle'[k] < AliveTicks /\ request'[k] \in Request
        BY <1>1, <1>2, <1>3, <1>6, <1>7, <1>11 DEF ConnInv
    <2>3. handling'[k] = "receiving" => writing'[k] = <<>> /\ sent'[k] = <<>>
        BY <1>1, <1>3, <1>12 DEF ConnInv
    <2> QED BY <2>1, <2>2, <2>3
  <1>15. AnswerInv' /\ ResponseInv'
      BY <1>1, <1>3 DEF AnswerInv, ResponseInv
  <1> QED BY <1>11, <1>13, <1>14, <1>15 DEF IInv

(* uv_close finishes and nothing of the session is left. *)
LEMMA OnCoConnUVCloseInv ==
    ASSUME IInv, NEW k \in Conns, OnCoConnUVClose(k)
    PROVE  IInv'
  <1>1. TypeOK /\ ConnInv /\ TableInv /\ AnswerInv /\ ResponseInv
      BY DEF IInv
  <1>2. /\ conn[k] = "closing"
        /\ conn' = [conn EXCEPT ![k] = "freed"]
        /\ dangling' = (dangling \/ writing[k] # <<>>)
        /\ request' = [request EXCEPT ![k] = None]
        /\ received' = [received EXCEPT ![k] = 0]
        /\ handling' = [handling EXCEPT ![k] = "none"]
        /\ writing' = [writing EXCEPT ![k] = <<>>]
        /\ sent' = [sent EXCEPT ![k] = <<>>]
        /\ idle' = [idle EXCEPT ![k] = 0]
        /\ is_close_' = [is_close_ EXCEPT ![k] = FALSE]
        /\ endpoint' = [endpoint EXCEPT ![k] = None]
        /\ peer' = [peer EXCEPT ![k] = "none"]
        /\ UNCHANGED <<run, http_sessions_>>
      BY DEF OnCoConnUVClose
  <1>3. /\ \A x \in Conns \ {k} :
              /\ conn'[x] = conn[x] /\ endpoint'[x] = endpoint[x] /\ idle'[x] = idle[x]
              /\ request'[x] = request[x] /\ received'[x] = received[x]
              /\ handling'[x] = handling[x] /\ writing'[x] = writing[x] /\ sent'[x] = sent[x]
        /\ conn'[k] = "freed" /\ endpoint'[k] = None /\ handling'[k] = "none"
        /\ writing'[k] = <<>> /\ sent'[k] = <<>>
      BY <1>1, <1>2 DEF TypeOK
  <1>4. TypeOK'
    <2>1. dangling' \in BOOLEAN /\ is_close_' \in [Conns -> BOOLEAN]
        BY <1>1, <1>2 DEF TypeOK
    <2>2. <<>> \in Seq(Part) /\ 0 \in 0..AliveTicks
        BY EmptySeq, HttpAssumption
    <2>3. writing' \in [Conns -> Seq(Part)] /\ sent' \in [Conns -> Seq(Part)]
        BY <1>1, <1>2, <2>2 DEF TypeOK
    <2>4. idle' \in [Conns -> 0..AliveTicks] /\ received' \in [Conns -> Nat]
        BY <1>1, <1>2, <2>2 DEF TypeOK
    <2>5. /\ conn' \in [Conns -> {"none", "open", "closing", "freed"}]
          /\ request' \in [Conns -> Request \cup {None}]
          /\ endpoint' \in [Conns -> Endpoints \cup {None}]
          /\ handling' \in [Conns -> {"none", "receiving", "done", "abandoned"}]
          /\ peer' \in [Conns -> {"none", "open", "ended", "reset"}]
        BY <1>1, <1>2 DEF TypeOK
    <2> QED BY <1>1, <1>2, <2>1, <2>3, <2>4, <2>5 DEF TypeOK
  <1>5. ConnInv'
      BY <1>1, <1>3 DEF ConnInv
  <1>6. TableInv'
    <2>1. \A e \in Endpoints : http_sessions_[e] # k
        BY <1>1, <1>2 DEF TableInv, TableMatchesConnections
    <2>2. None \notin Endpoints
        BY HttpAssumption
    <2> QED BY <1>1, <1>2, <1>3, <2>1, <2>2 DEF TableInv, TableMatchesConnections
  <1>7. AnswerInv'
      BY <1>1, <1>3 DEF AnswerInv
  <1>8. ResponseInv'
      BY <1>1, <1>3, NothingInOrder DEF ResponseInv
  <1> QED BY <1>4, <1>5, <1>6, <1>7, <1>8 DEF IInv
------------------------------------------------------------------------------
(* Every callback keeps the invariant. *)
LEMMA StepInv == IInv /\ [Next]_vars => IInv'
  <1> SUFFICES ASSUME IInv, [Next]_vars PROVE IInv'
      OBVIOUS
  <1>1. CASE AcceptError \/ \E k \in Conns : ClientEnds(k)
      BY <1>1, OutsideInv
  <1>2. CASE OnTimer
      BY <1>2, OnTimerInv
  <1>3. ASSUME NEW k \in Conns,
               \/ \E e \in Endpoints, r \in Requests[k] : Accept(k, e, r)
               \/ OnReceiveData(k) \/ OnReceiveMore(k) \/ OnReceiveEnd(k)
               \/ OnHeaderWritten(k) \/ OnWriteError(k) \/ OnCoConnUVClose(k)
        PROVE  IInv'
      BY <1>3, AcceptInv, OnReceiveDataInv, OnReceiveMoreInv, OnReceiveEndInv,
         OnHeaderWrittenInv, OnWriteErrorInv, OnCoConnUVCloseInv
  <1>4. ASSUME NEW k \in Conns, OnBodyWritten(k) \/ OnStatusWritten(k)
        PROVE  IInv'
    <2>1. CASE OnBodyWritten(k)
      <3>1. Written(k, "body") /\ CallEnds(k) /\ OnResponseAlive(k)
          BY <2>1 DEF OnBodyWritten
      <3> QED BY <3>1, CallEndsInv
    <2>2. CASE OnStatusWritten(k)
      <3>1. Written(k, "status") /\ CallEnds(k) /\ idle' = idle
          BY <2>2 DEF OnStatusWritten
      <3> QED BY <3>1, CallEndsInv
    <2> QED BY <1>4, <2>1, <2>2
  <1>5. CASE UNCHANGED vars
      BY <1>5 DEF vars, IInv, TypeOK, ConnInv, TableInv, TableMatchesConnections, AnswerInv,
                  ResponseInv, responseVars
  <1> QED BY <1>1, <1>2, <1>3, <1>4, <1>5 DEF Next

(* The inductive invariant holds of the HTTP server. *)
LEMMA Invariant == Spec => []IInv
  <1> QED BY InitInv, StepInv, PTL DEF Spec

(* Every variable keeps its type; no session is idle for longer than        *)
(* OnTimer allows (co_http_server.cpp:31-44).                               *)
THEOREM TypeCorrect == Spec => []TypeOK
  <1>1. IInv => TypeOK
      BY DEF IInv
  <1> QED BY <1>1, Invariant, PTL

(* For any number of connections and endpoints, reused or misread: a        *)
(* connection is open exactly while http_sessions_ holds its session.       *)
THEOREM TableIsExact == Spec => []TableMatchesConnections
  <1>1. IInv => TableMatchesConnections
      BY DEF IInv, TableInv
  <1> QED BY <1>1, Invariant, PTL

(* For any requests, in any pieces: HandleRequest answers only what has     *)
(* arrived completely, parses and has a handler.                            *)
THEOREM AnswersCompleteRequests == Spec => []OnlyCompleteRequestsAnswered
  <1>1. IInv => OnlyCompleteRequestsAnswered
    <2> SUFFICES ASSUME IInv, NEW k \in Conns, writing[k] \o sent[k] # <<>>
                 PROVE  writing[k] # <<>> \/ sent[k] # <<>>
        BY DEF OnlyCompleteRequestsAnswered, IInv, AnswerInv
    <2>1. <<>> \o <<>> = <<>>
        OBVIOUS
    <2> QED BY <2>1
  <1> QED BY <1>1, Invariant, PTL

(* For handlers that make any number of Write and WriteStatus calls, any of *)
(* which may fail: bodies go out in the order of the calls, each behind a   *)
(* header of its own.                                                       *)
THEOREM ResponseInCallOrder == Spec => []ResponseAsCalled
  <1>1. IInv => ResponseAsCalled
    <2> SUFFICES ASSUME IInv, NEW k \in Conns, NEW j \in DOMAIN sent[k],
                        sent[k][j].part = "body"
                 PROVE  /\ [part |-> "header", call |-> sent[k][j].call] \in
                              {sent[k][l] : l \in 1..(j - 1)}
                        /\ \A p \in {sent[k][l] : l \in 1..(j - 1)} :
                              p.part = "body" => p.call < sent[k][j].call
        BY DEF ResponseAsCalled
    <2>1. SentInOrder(sent[k])
        BY DEF IInv, ResponseInv
    <2> QED BY <2>1 DEF SentInOrder
  <1> QED BY <1>1, Invariant, PTL
==============================================================================
