------------------------ MODULE TlsConnectionProofs ------------------------
(***************************************************************************)
(* Proofs about TlsConnection: for any number of packets and sessions and  *)
(* any sizes, the packets of the peer reach SSL once and in order, and     *)
(* repeating a call that lacked room only fetches its answer.              *)
(***************************************************************************)
EXTENDS TlsConnection, SequenceTheorems, TLAPS

Phase == {"new", "handshaking", "established", "failed"}
Kind == {"hello", "flight", "alert", "close", "record"}
OutByte == [session : Nat, kind : Kind]

SslType == [phase : Phase, shut : SUBSET {"sent", "received"}, quiet : BOOLEAN,
            closeSaid : BOOLEAN, in : Seq(Nat), out : Seq(OutByte), read : Seq(Nat)]

Builders == {"TlsDoHandshake", "TlsHandleAlert", "TlsCloseNotify"}

Calls == Builders \cup {"none", "TlsNew", "TlsShutdown", "TlsCtrlTrafficIn", "TlsCtrlTrafficOut",
                        "TlsRead", "TlsWrite"}
Statuses == {"none", "SUCCESS", "BUFFER_TOO_SMALL", "ABORTED", "ERROR", "NULL", "PROTOCOL_ERROR"}

AnswerType == [call : Calls, status : Statuses, room : Nat, needed : Nat, bytes : Seq(OutByte)]
RetryType == [call : Builders, input : Nat] \cup {NoCall}

\* Everything that has been written to InBio.
Stream(e) == e.read \o e.in

\* What SSL may do with its input: read it, never lose, repeat or reorder it.
Keeps(e, x) == x \in SslType /\ Stream(x) = Stream(e)

InOrder(s, a, d) ==
  /\ \A i, j \in 1..Len(s) : i < j => s[i] < s[j]
  /\ {s[i] : i \in 1..Len(s)} = (1..a) \ d

TypeOK ==
  /\ tls \in BOOLEAN
  /\ ssl \in SslType
  /\ session \in Nat
  /\ arrived \in Nat
  /\ dropped \subseteq 1..arrived
  /\ retry \in RetryType
  /\ answer \in AnswerType

\* A call that must be repeated has its answer in OutBio, and the caller has
\* been told its size.
Waiting ==
  retry # NoCall =>
    /\ tls
    /\ ssl.out # <<>>
    /\ answer.call = retry.call
    /\ answer.status = "BUFFER_TOO_SMALL"
    /\ answer.needed = Len(ssl.out)

Inv == TypeOK /\ Waiting /\ InputOnce /\ AnswersAreWhole

-----------------------------------------------------------------------------
(* The SSL object keeps its input stream.                                   *)

\* SSL_new makes an object that has read nothing.
LEMMA FreshSslType == FreshSsl \in SslType /\ Stream(FreshSsl) = <<>>
BY DEF FreshSsl, SslType, Stream, Phase

\* What SSL writes to OutBio is a sequence of bytes of its kind.
LEMMA BytesType ==
  ASSUME session \in Nat, NEW kind \in Kind, NEW n \in Nat
  PROVE  Bytes(kind, n) \in Seq(OutByte)
BY DEF Bytes, OutByte

\* Concatenation of packet sequences is associative.
LEMMA ConcatThree ==
  \A a, b, c \in Seq(Nat) : (a \o b) \o c = a \o (b \o c)
BY ConcatAssociative

\* A sequence is the first n elements followed by the others.
LEMMA SplitSeq ==
  ASSUME NEW S, NEW q \in Seq(S), NEW n \in Nat, n <= Len(q)
  PROVE  SubSeq(q, 1, n) \o SubSeq(q, n + 1, Len(q)) = q
<1>1. n \in 0..Len(q) /\ Len(q) \in n..Len(q) /\ 1 \in 1..Len(q) + 1 /\ 1 - 1 = 0
  OBVIOUS
<1>2. SubSeq(q, 1, n) \o SubSeq(q, n + 1, Len(q)) = SubSeq(q, 1, Len(q))
  BY <1>1, ConcatAdjacentSubSeq, Zenon
<1> QED  BY <1>2, SubSeqFull

\* Reading moves packets from InBio to what was read, and changes nothing else.
LEMMA TakesKeeps ==
  ASSUME NEW e \in SslType, NEW least \in Nat, NEW x \in Takes(e, least)
  PROVE  Keeps(e, x)
<1>1. PICK n \in least..Len(e.in) :
        x = [e EXCEPT !.read = @ \o SubSeq(e.in, 1, n), !.in = SubSeq(@, n + 1, Len(@))]
  BY DEF Takes
<1>2. e.in \in Seq(Nat) /\ e.read \in Seq(Nat) /\ n \in Nat /\ n <= Len(e.in)
  BY <1>1 DEF SslType
<1> DEFINE head == SubSeq(e.in, 1, n)
           tail == SubSeq(e.in, n + 1, Len(e.in))
<1>3. head \in Seq(Nat) /\ tail \in Seq(Nat)
  BY <1>2
<1>4. head \o tail = e.in
  BY <1>2, SplitSeq
<1> HIDE DEF head, tail
<1>5. (e.read \o head) \o tail = e.read \o (head \o tail)
  BY <1>2, <1>3, ConcatThree
<1>6. e.read \o head \in Seq(Nat)
  BY <1>2, <1>3
<1>7. x = [e EXCEPT !.read = e.read \o head, !.in = tail]
  BY <1>1 DEF head, tail, SslType
<1>8. x \in SslType /\ x.read = e.read \o head /\ x.in = tail
  BY <1>7, <1>6, <1>3 DEF SslType
<1> QED  BY <1>8, <1>5, <1>4 DEF Keeps, Stream

\* Writing to OutBio leaves the input stream alone.
LEMMA SendsKeeps ==
  ASSUME session \in Nat, NEW e \in SslType, NEW kind \in Kind,
         NEW sizes \in SUBSET Nat, NEW x \in Sends(e, kind, sizes)
  PROVE  Keeps(e, x)
<1>1. PICK n \in sizes : x = [e EXCEPT !.out = @ \o Bytes(kind, n)]
  BY DEF Sends
<1>2. Bytes(kind, n) \in Seq(OutByte)
  BY BytesType
<1>3. e.out \in Seq(OutByte)
  BY DEF SslType
<1>4. e.out \o Bytes(kind, n) \in Seq(OutByte)
  BY <1>2, <1>3
<1> QED  BY <1>1, <1>4 DEF Keeps, SslType, Stream

\* Two steps that keep the stream keep it together.
LEMMA KeepsTransitive ==
  ASSUME NEW e, NEW x, NEW y, Keeps(e, x), Keeps(x, y)
  PROVE  Keeps(e, y)
BY DEF Keeps

\* The sizes of flights are numbers.
LEMMA SizesAreNat == FlightSizes \subseteq Nat /\ {0} \cup FlightSizes \subseteq Nat
BY TlsAssumption

\* Reading and then answering keeps the stream.
LEMMA RepliesKeep ==
  ASSUME session \in Nat, NEW e \in SslType, NEW least \in Nat, NEW kind \in Kind,
         NEW x \in Replies(Takes(e, least), kind)
  PROVE  Keeps(e, x)
<1>1. PICK y \in Takes(e, least) : x \in Sends(y, kind, {0} \cup FlightSizes)
  BY DEF Replies
<1>2. Keeps(e, y)
  BY TakesKeeps
<1>3. Keeps(y, x)
  BY <1>1, <1>2, SendsKeeps, SizesAreNat DEF Keeps
<1> QED  BY <1>2, <1>3, KeepsTransitive

\* A failed handshake keeps the stream.
LEMMA FailsKeeps ==
  ASSUME NEW e \in SslType
  PROVE  Keeps(e, Fails(e))
BY DEF Fails, Keeps, SslType, Stream, Phase

\* SSL_do_handshake keeps the stream, whatever it returns.
LEMMA HandshakeKeeps ==
  ASSUME session \in Nat, NEW e \in SslType, NEW r \in SSL_do_handshake(e)
  PROVE  Keeps(e, r.e)
<1>1. Keeps(e, e)
  BY DEF Keeps
<1>2. Len(e.in) \in Nat /\ 1 \in Nat
  BY DEF SslType
<1>7. "flight" \in Kind /\ "alert" \in Kind
  BY DEF Kind
<1>3. CASE r \in {[ret |-> "want", e |-> x] : x \in Replies(TakesAll(e), "flight")}
  <2>1. PICK x \in Replies(Takes(e, Len(e.in)), "flight") : r = [ret |-> "want", e |-> x]
    BY <1>3 DEF TakesAll
  <2>2. Keeps(e, x)
    BY <1>2, <1>7, RepliesKeep, Zenon
  <2> QED  BY <2>1, <2>2
<1>4. CASE r \in {[ret |-> "ok", e |-> [x EXCEPT !.phase = "established"]] :
                    x \in Replies(Takes(e, 1), "flight")}
  <2>1. PICK x \in Replies(Takes(e, 1), "flight") :
          r = [ret |-> "ok", e |-> [x EXCEPT !.phase = "established"]]
    BY <1>4
  <2>2. Keeps(e, x)
    BY <1>2, <1>7, RepliesKeep, Zenon
  <2>3. r.e = [x EXCEPT !.phase = "established"]
    BY <2>1
  <2> QED  BY <2>2, <2>3 DEF Keeps, SslType, Stream, Phase
<1>5. CASE r \in {[ret |-> "error", e |-> Fails(x)] : x \in Replies(Takes(e, 1), "alert")}
  <2>1. PICK x \in Replies(Takes(e, 1), "alert") : r = [ret |-> "error", e |-> Fails(x)]
    BY <1>5
  <2>2. Keeps(e, x)
    BY <1>2, <1>7, RepliesKeep, Zenon
  <2>3. Keeps(x, Fails(x))
    BY <2>2, FailsKeeps DEF Keeps
  <2> QED  BY <2>1, <2>2, <2>3, KeepsTransitive
<1>6. CASE r.e = e
  BY <1>6, <1>1
<1> QED
  <2>1. e.phase \in Phase
    BY DEF SslType
  <2>2. CASE e.phase = "established"
    BY <2>2, <1>6 DEF SSL_do_handshake
  <2>3. CASE e.phase \in {"new", "failed"}
    BY <2>3, <1>6 DEF SSL_do_handshake
  <2>4. CASE e.phase = "handshaking" /\ e.in = <<>>
    BY <2>4, <1>6 DEF SSL_do_handshake
  <2>5. CASE e.phase = "handshaking" /\ e.in # <<>>
    <3>1. SSL_do_handshake(e) =
            {[ret |-> "want", e |-> x] : x \in Replies(TakesAll(e), "flight")}
            \cup {[ret |-> "ok", e |-> [x EXCEPT !.phase = "established"]] :
                    x \in Replies(Takes(e, 1), "flight")}
            \cup {[ret |-> "error", e |-> Fails(x)] : x \in Replies(Takes(e, 1), "alert")}
      BY <2>5 DEF SSL_do_handshake
    <3> QED  BY <3>1, <1>3, <1>4, <1>5
  <2> QED  BY <2>1, <2>2, <2>3, <2>4, <2>5 DEF Phase
\* SSL_connect keeps the stream, also when it starts the handshake over.
LEMMA ConnectKeeps ==
  ASSUME session \in Nat, NEW e \in SslType, NEW r \in SSL_connect(e)
  PROVE  Keeps(e, r.e)
<1> DEFINE begun == [e EXCEPT !.phase = "handshaking", !.shut = {}]
<1>1. Keeps(e, begun)
  BY DEF Keeps, SslType, Stream, Phase
<1>2. CASE r = [ret |-> "error", e |-> Fails(e)]
  BY <1>2, FailsKeeps
<1>3. ASSUME NEW x \in Sends(begun, "hello", FlightSizes), r \in SSL_do_handshake(x)
      PROVE  Keeps(e, r.e)
  <2>1. begun \in SslType /\ "hello" \in Kind
    BY <1>1 DEF Keeps, Kind
  <2> HIDE DEF begun
  <2>2. Keeps(begun, x)
    BY <2>1, SendsKeeps, SizesAreNat, Zenon
  <2>3. x \in SslType
    BY <2>2 DEF Keeps
  <2>4. Keeps(x, r.e)
    BY <2>3, <1>3, HandshakeKeeps, Zenon
  <2> QED  BY <1>1, <2>2, <2>4, KeepsTransitive, Zenon
<1> DEFINE hello == Sends(begun, "hello", FlightSizes)
<1>4. r \in (UNION {SSL_do_handshake(x) : x \in hello}) \cup {[ret |-> "error", e |-> Fails(e)]}
  BY DEF SSL_connect
<1>5. \A x \in hello : r \in SSL_do_handshake(x) => Keeps(e, r.e)
  BY <1>3
<1> HIDE DEF hello, begun
<1>6. (\E x \in hello : r \in SSL_do_handshake(x)) \/ r = [ret |-> "error", e |-> Fails(e)]
  BY <1>4
<1> QED
  BY <1>2, <1>5, <1>6

\* SSL_read keeps the stream, also when it finds a close_notify.
LEMMA ReadKeeps ==
  ASSUME session \in Nat, NEW e \in SslType, NEW y \in SSL_read(e)
  PROVE  Keeps(e, y)
<1>0. "flight" \in Kind /\ "alert" \in Kind /\ 1 \in Nat
  BY DEF Kind
<1>1. CASE e.phase = "handshaking"
  BY <1>1, HandshakeKeeps DEF SSL_read
<1>2. CASE e.phase = "established" /\ e.in # <<>> /\ "received" \notin e.shut
  <2>1. y \in Replies(Takes(e, 1), "flight")
        \/ (\E x \in Takes(e, 1) : y = [x EXCEPT !.shut = @ \cup {"received"}])
        \/ (\E x \in Replies(Takes(e, 1), "alert") : y = Fails(x))
    BY <1>2 DEF SSL_read
  <2>2. CASE y \in Replies(Takes(e, 1), "flight")
    BY <2>2, <1>0, RepliesKeep, Zenon
  <2>3. ASSUME NEW x \in Takes(e, 1), y = [x EXCEPT !.shut = @ \cup {"received"}]
        PROVE  Keeps(e, y)
    <3>1. Keeps(e, x)
      BY <1>0, TakesKeeps, Zenon
    <3>2. Keeps(x, y)
      BY <3>1, <2>3 DEF Keeps, SslType, Stream
    <3> QED  BY <3>1, <3>2, KeepsTransitive
  <2>4. ASSUME NEW x \in Replies(Takes(e, 1), "alert"), y = Fails(x)
        PROVE  Keeps(e, y)
    <3>1. Keeps(e, x)
      BY <1>0, RepliesKeep, Zenon
    <3>2. Keeps(x, y)
      BY <3>1, <2>4, FailsKeeps DEF Keeps
    <3> QED  BY <3>1, <3>2, KeepsTransitive
  <2> QED  BY <2>1, <2>2, <2>3, <2>4
<1>3. CASE y = e
  BY <1>3 DEF Keeps
<1>4. e.phase # "handshaking" /\ ~(e.phase = "established" /\ e.in # <<>> /\ "received" \notin e.shut)
      => y = e
  BY DEF SSL_read
<1> QED  BY <1>1, <1>2, <1>3, <1>4

\* SSL_shutdown keeps the stream, whether it sends, waits or is quiet.
LEMMA ShutdownKeeps ==
  ASSUME session \in Nat, NEW e \in SslType, NEW y \in SSL_shutdown(e)
  PROVE  Keeps(e, y)
<1> DEFINE closing == [e EXCEPT !.shut = @ \cup {"sent"}, !.closeSaid = TRUE]
<1>1. CASE y = e
  BY <1>1 DEF Keeps
<1>2. CASE y = [e EXCEPT !.shut = {"sent", "received"}]
  BY <1>2 DEF Keeps, SslType, Stream
<1>3. CASE y \in SSL_read(e)
  BY <1>3, ReadKeeps
<1>4. CASE y \in Sends(closing, "close", FlightSizes)
  <2>1. Keeps(e, closing)
    BY DEF Keeps, SslType, Stream
  <2>2. closing \in SslType /\ "close" \in Kind
    BY <2>1 DEF Keeps, Kind
  <2> HIDE DEF closing
  <2>3. Keeps(closing, y)
    BY <2>2, <1>4, SendsKeeps, SizesAreNat, Zenon
  <2> QED  BY <2>1, <2>3, KeepsTransitive
<1> QED
  BY <1>1, <1>2, <1>3, <1>4 DEF SSL_shutdown

-----------------------------------------------------------------------------
(* What a packet handed in does to the stream.                              *)

\* InputOnce in terms of the stream of the connection.
LEMMA InputOnceIsInOrder == InputOnce <=> InOrder(Stream(ssl), arrived, dropped)
BY DEF InputOnce, InOrder, Stream

\* A packet that is written comes after all others.
LEMMA WrittenInOrder ==
  ASSUME NEW s \in Seq(Nat), NEW a \in Nat, NEW d \in SUBSET (1..a), InOrder(s, a, d)
  PROVE  InOrder(Append(s, a + 1), a + 1, d)
<1> DEFINE t == Append(s, a + 1)
<1>1. t \in Seq(Nat) /\ Len(t) = Len(s) + 1 /\ t[Len(s) + 1] = a + 1
      /\ Len(s) \in Nat /\ \A i \in 1..Len(s) : t[i] = s[i]
  OBVIOUS
<1> HIDE DEF t
<1>2. \A i \in 1..Len(s) : s[i] \in 1..a /\ s[i] \notin d
  BY DEF InOrder
<1>3. ASSUME NEW i \in 1..Len(t), NEW j \in 1..Len(t), i < j
      PROVE  t[i] < t[j]
  <2>1. i \in 1..Len(s) /\ t[i] = s[i]
    BY <1>1, <1>3
  <2>2. CASE j \in 1..Len(s)
    BY <2>1, <2>2, <1>1, <1>3 DEF InOrder
  <2>3. CASE j = Len(s) + 1
    BY <2>1, <2>3, <1>1, <1>2
  <2> QED  BY <2>2, <2>3, <1>1
<1>4. {t[i] : i \in 1..Len(t)} = {s[i] : i \in 1..Len(s)} \cup {a + 1}
  <2>1. ASSUME NEW i \in 1..Len(t)
        PROVE  t[i] \in {s[k] : k \in 1..Len(s)} \cup {a + 1}
    BY <1>1
  <2>2. ASSUME NEW i \in 1..Len(s)
        PROVE  s[i] \in {t[k] : k \in 1..Len(t)}
    <3>1. i \in 1..Len(t) /\ t[i] = s[i]
      BY <1>1
    <3> QED  BY <3>1
  <2>3. a + 1 \in {t[k] : k \in 1..Len(t)}
    <3>1. Len(s) + 1 \in 1..Len(t)
      BY <1>1
    <3> QED  BY <3>1, <1>1
  <2> QED  BY <2>1, <2>2, <2>3
<1>5. (1..(a + 1)) \ d = ((1..a) \ d) \cup {a + 1}
  OBVIOUS
<1>6. {s[i] : i \in 1..Len(s)} = (1..a) \ d
  BY DEF InOrder
<1>7. {t[i] : i \in 1..Len(t)} = (1..(a + 1)) \ d
  BY <1>4, <1>5, <1>6
<1> QED  BY <1>3, <1>7 DEF InOrder, t

\* A packet that is dropped is missing, and nothing else.
LEMMA DroppedInOrder ==
  ASSUME NEW s \in Seq(Nat), NEW a \in Nat, NEW d \in SUBSET (1..a), InOrder(s, a, d)
  PROVE  InOrder(s, a + 1, d \cup {a + 1})
<1>1. (1..(a + 1)) \ (d \cup {a + 1}) = (1..a) \ d
  OBVIOUS
<1> QED  BY <1>1 DEF InOrder

\* The stream of an SSL object is a sequence of packets.
LEMMA StreamType ==
  ASSUME NEW e \in SslType
  PROVE  Stream(e) \in Seq(Nat)
BY DEF SslType, Stream

\* A packet written to InBio is the last of the stream.
LEMMA AppendConcat ==
  ASSUME NEW a \in Seq(Nat), NEW b \in Seq(Nat), NEW p \in Nat
  PROVE  a \o Append(b, p) = Append(a \o b, p)
<1> DEFINE l == a \o Append(b, p)
           r == Append(a \o b, p)
<1>1. l \in Seq(Nat) /\ r \in Seq(Nat) /\ Len(l) = Len(a) + Len(b) + 1 /\ Len(r) = Len(l)
  OBVIOUS
<1>2. \A i \in 1..Len(l) : l[i] = r[i]
  OBVIOUS
<1> HIDE DEF l, r
<1>3. l = r
  BY <1>1, <1>2, SeqEqual
<1> QED  BY <1>3 DEF l, r

\* BIO_write to InBio gives an SSL object again, with the packet in its stream.
LEMMA FedType ==
  ASSUME NEW e \in SslType, NEW p \in Nat
  PROVE  /\ [e EXCEPT !.in = Append(@, p)] \in SslType
         /\ Stream([e EXCEPT !.in = Append(@, p)]) = Append(Stream(e), p)
<1>1. e.in \in Seq(Nat) /\ e.read \in Seq(Nat)
  BY DEF SslType
<1>2. Append(e.in, p) \in Seq(Nat)
  BY <1>1
<1>3. e.read \o Append(e.in, p) = Append(e.read \o e.in, p)
  BY <1>1, AppendConcat
<1> QED  BY <1>1, <1>2, <1>3 DEF SslType, Stream

-----------------------------------------------------------------------------
(* The ends of the calls that build a packet.                               *)

\* A call that copies OutBio to the caller, or finds too little room, keeps the invariant.
LEMMA FetchStep ==
  ASSUME NEW call \in Builders, NEW input \in Nat, NEW room \in Nat, NEW e \in SslType,
         tls' = TRUE, Fetch(call, input, e, room)
  PROVE  /\ Keeps(e, ssl')
         /\ retry' \in RetryType
         /\ answer' \in AnswerType
         /\ Waiting'
         /\ AnswersAreWhole'
<1>1. e.out \in Seq(OutByte) /\ Len(e.out) \in Nat
  BY DEF SslType
<1>2. call \in Calls
  BY DEF Calls
<1>3. [call |-> call, input |-> input] # NoCall
  BY DEF Builders, NoCall
<1>4. CASE Len(e.out) > room
  <2>1. /\ ssl' = e
        /\ retry' = [call |-> call, input |-> input]
        /\ answer' = [call |-> call, status |-> "BUFFER_TOO_SMALL", room |-> room,
                      needed |-> Len(e.out), bytes |-> <<>>]
    BY <1>4 DEF Fetch
  <2>2. e.out # <<>>
    BY <1>1, <1>4
  <2>3. Keeps(e, ssl')
    BY <2>1 DEF Keeps
  <2>4. retry' \in RetryType
    BY <2>1 DEF RetryType
  <2>5. answer' \in AnswerType
    BY <2>1, <1>1, <1>2 DEF AnswerType, Statuses
  <2>6. Waiting'
    BY <2>1, <2>2 DEF Waiting
  <2>7. AnswersAreWhole'
    BY <2>1, <2>2 DEF AnswersAreWhole
  <2> QED  BY <2>3, <2>4, <2>5, <2>6, <2>7
<1>5. CASE ~(Len(e.out) > room)
  <2>1. /\ ssl' = [e EXCEPT !.out = <<>>]
        /\ retry' = NoCall
        /\ answer' = [call |-> call, status |-> "SUCCESS", room |-> room,
                      needed |-> Len(e.out), bytes |-> e.out]
    BY <1>5 DEF Fetch
  <2>2. ssl'.out = <<>>
    BY <2>1 DEF SslType
  <2>3. Keeps(e, ssl')
    <3>0. <<>> \in Seq(OutByte)
      OBVIOUS
    <3>1. [e EXCEPT !.out = <<>>] \in SslType
      BY <3>0, Zenon DEF SslType
    <3>2. ssl'.read = e.read /\ ssl'.in = e.in
      BY <2>1 DEF SslType
    <3> QED  BY <2>1, <3>1, <3>2 DEF Keeps, Stream
  <2>4. retry' \in RetryType
    BY <2>1 DEF RetryType
  <2>5. answer' \in AnswerType
    BY <2>1, <1>1, <1>2 DEF AnswerType, Statuses
  <2>6. Waiting'
    BY <2>1 DEF Waiting
  <2>7. AnswersAreWhole'
    BY <2>1, <2>2, <1>1, <1>5 DEF AnswersAreWhole
  <2> QED  BY <2>3, <2>4, <2>5, <2>6, <2>7
<1> QED  BY <1>4, <1>5

\* A call that gives up keeps the invariant.
LEMMA AbortStep ==
  ASSUME NEW call \in Builders, NEW room \in Nat, NEW e \in SslType, Abort(call, e, room)
  PROVE  /\ Keeps(e, ssl')
         /\ retry' \in RetryType
         /\ answer' \in AnswerType
         /\ Waiting'
         /\ AnswersAreWhole'
<1>1. call \in Calls
  BY DEF Calls
<1>2. /\ ssl' = e
      /\ retry' = NoCall
      /\ answer' = [call |-> call, status |-> "ABORTED", room |-> room, needed |-> room, bytes |-> <<>>]
  BY DEF Abort
<1>3. Keeps(e, ssl')
  BY <1>2 DEF Keeps
<1>4. retry' \in RetryType
  BY <1>2 DEF RetryType
<1>5. answer' \in AnswerType
  BY <1>1, <1>2 DEF AnswerType, Statuses
<1>6. Waiting' /\ AnswersAreWhole'
  BY <1>2 DEF Waiting, AnswersAreWhole
<1> QED  BY <1>3, <1>4, <1>5, <1>6

\* What a packet that is handed in, written or not, leaves of the order.
LEMMA HandedIn ==
  ASSUME Inv, NEW call \in Builders, NEW input \in {NoInput} \cup Packet,
         MayCall(call, input), HandIn(input),
         NEW e, Keeps(e, ssl'),
         \/ e = Fed(input, ssl) /\ dropped' = dropped
         \/ e = ssl /\ input # NoInput /\ retry = NoCall /\ dropped' = dropped \cup {input}
  PROVE  arrived' \in Nat /\ dropped' \subseteq 1..arrived' /\ InputOnce'
<1>1. InOrder(Stream(ssl), arrived, dropped)
  BY InputOnceIsInOrder DEF Inv
<1>2. ssl \in SslType /\ arrived \in Nat /\ dropped \in SUBSET (1..arrived) /\ Stream(ssl) \in Seq(Nat)
  BY StreamType DEF Inv, TypeOK
<1>3. Stream(ssl') = Stream(e)
  BY DEF Keeps
<1>4. SUFFICES arrived' \in Nat /\ dropped' \subseteq 1..arrived' /\ InOrder(Stream(e), arrived', dropped')
  BY <1>3 DEF InputOnce, InOrder, Stream
<1>5. CASE retry # NoCall
  <2>1. arrived' = arrived
    BY <1>5 DEF HandIn
  <2>2. e = ssl /\ dropped' = dropped
    BY <1>5 DEF Inv, Waiting, Fed
  <2> QED  BY <2>1, <2>2, <1>1, <1>2
<1>6. CASE retry = NoCall /\ input = NoInput
  <2>1. arrived' = arrived /\ e = ssl /\ dropped' = dropped
    BY <1>6 DEF HandIn, Fed
  <2> QED  BY <2>1, <1>1, <1>2
<1>7. CASE retry = NoCall /\ input # NoInput
  <2>1. input = arrived + 1 /\ ssl.out = <<>> /\ arrived' = arrived + 1
    BY <1>7 DEF MayCall, NewPacket, HandIn
  <2>2. CASE e = Fed(input, ssl) /\ dropped' = dropped
    <3>1. e = [ssl EXCEPT !.in = Append(@, arrived + 1)]
      BY <2>1, <2>2, <1>7 DEF Fed
    <3>2. Stream(e) = Append(Stream(ssl), arrived + 1)
      <4>1. arrived + 1 \in Nat
        BY <1>2
      <4> QED  BY <3>1, <1>2, <4>1, FedType, Zenon
    <3>3. InOrder(Append(Stream(ssl), arrived + 1), arrived + 1, dropped)
      BY <1>1, <1>2, WrittenInOrder
    <3> QED  BY <3>2, <3>3, <2>1, <2>2, <1>2
  <2>3. CASE e = ssl /\ dropped' = dropped \cup {input}
    <3>1. InOrder(Stream(ssl), arrived + 1, dropped \cup {arrived + 1})
      BY <1>1, <1>2, DroppedInOrder
    <3> QED  BY <3>1, <2>1, <2>3, <1>2
  <2> QED  BY <2>2, <2>3
<1> QED  BY <1>5, <1>6, <1>7

\* The SSL object after BIO_write has its type.
LEMMA FedIsSsl ==
  ASSUME NEW e \in SslType, NEW input \in Nat
  PROVE  Fed(input, e) \in SslType
BY FedType DEF Fed
-----------------------------------------------------------------------------
(* One lemma per operation.                                                 *)

\* The number of the packet a call is given.
LEMMA InputType ==
  ASSUME NEW input \in {NoInput} \cup Packet, NEW room \in BufferSizes
  PROVE  input \in Nat /\ room \in Nat /\ NoInput \in Nat /\ NoInput \in {NoInput} \cup Packet
BY TlsAssumption DEF NoInput, Packet

\* TlsDoHandshake keeps the invariant.
LEMMA HandshakeStep ==
  ASSUME Inv, NEW input \in {NoInput} \cup Packet, NEW room \in BufferSizes,
         TlsDoHandshake(input, room)
  PROVE  Inv'
<1> DEFINE call == "TlsDoHandshake"
<1>1. PICK written \in BOOLEAN :
        /\ written \/ (input # NoInput /\ retry = NoCall)
        /\ dropped' = IF written THEN dropped ELSE dropped \cup {input}
        /\ \E r \in HandshakeRuns(input, IF written THEN Fed(input, ssl) ELSE ssl) :
             IF r.ret = "error" THEN Abort(call, r.e, room) ELSE Fetch(call, input, r.e, room)
  BY DEF TlsDoHandshake
<1> DEFINE e == IF written THEN Fed(input, ssl) ELSE ssl
<1>2. PICK r \in HandshakeRuns(input, e) :
        IF r.ret = "error" THEN Abort(call, r.e, room) ELSE Fetch(call, input, r.e, room)
  BY <1>1
<1>3. ssl \in SslType /\ session \in Nat /\ tls \in BOOLEAN /\ input \in Nat /\ room \in Nat
  BY InputType DEF Inv, TypeOK
<1>4. e \in SslType
  BY <1>3, FedIsSsl
<1>5. call \in Builders
  BY DEF Builders
<1>6. MayCall(call, input) /\ HandIn(input) /\ tls' = tls /\ session' = session /\ tls
  BY DEF TlsDoHandshake, MayCall
<1>7. \/ e = Fed(input, ssl) /\ dropped' = dropped
      \/ e = ssl /\ input # NoInput /\ retry = NoCall /\ dropped' = dropped \cup {input}
  BY <1>1
<1> HIDE DEF call, e
<1>8. Keeps(e, r.e)
  <2>1. CASE e.out # <<>>
    BY <2>1, <1>2, <1>4 DEF HandshakeRuns, Keeps
  <2>2. CASE e.out = <<>> /\ input = NoInput
    BY <2>2, <1>2, <1>3, <1>4, ConnectKeeps DEF HandshakeRuns
  <2>3. CASE e.out = <<>> /\ input # NoInput
    BY <2>3, <1>2, <1>3, <1>4, HandshakeKeeps DEF HandshakeRuns
  <2> QED  BY <2>1, <2>2, <2>3
<1>9. r.e \in SslType
  BY <1>8 DEF Keeps
<1>10. Keeps(r.e, ssl') /\ retry' \in RetryType /\ answer' \in AnswerType /\ Waiting' /\ AnswersAreWhole'
  <2>1. CASE r.ret = "error"
    BY <2>1, <1>2, <1>3, <1>5, <1>9, AbortStep
  <2>2. CASE r.ret # "error"
    BY <2>2, <1>2, <1>3, <1>5, <1>6, <1>9, FetchStep
  <2> QED  BY <2>1, <2>2
<1>11. Keeps(e, ssl')
  BY <1>8, <1>10, KeepsTransitive
<1>12. arrived' \in Nat /\ dropped' \subseteq 1..arrived' /\ InputOnce'
  BY <1>5, <1>6, <1>7, <1>11, HandedIn
<1> QED
  BY <1>3, <1>6, <1>10, <1>11, <1>12 DEF Inv, TypeOK, Keeps

\* TlsHandleAlert keeps the invariant.
LEMMA AlertStep ==
  ASSUME Inv, NEW input \in {NoInput} \cup Packet, NEW room \in BufferSizes,
         TlsHandleAlert(input, room)
  PROVE  Inv'
<1> DEFINE call == "TlsHandleAlert"
<1>3. ssl \in SslType /\ session \in Nat /\ tls \in BOOLEAN /\ input \in Nat /\ room \in Nat
  BY InputType DEF Inv, TypeOK
<1>5. call \in Builders
  BY DEF Builders
<1>6. MayCall(call, input) /\ HandIn(input) /\ tls' = tls /\ session' = session /\ tls
  BY DEF TlsHandleAlert, MayCall
<1>7. Keeps(ssl, ssl)
  BY <1>3 DEF Keeps
<1>1. CASE /\ input # NoInput /\ ssl.out = <<>>
           /\ dropped' = dropped \cup {input}
           /\ Abort(call, ssl, room)
  <2>1. Keeps(ssl, ssl') /\ retry' \in RetryType /\ answer' \in AnswerType /\ Waiting' /\ AnswersAreWhole'
    BY <1>1, <1>3, <1>5, AbortStep
  <2>2. retry = NoCall
    BY <1>1 DEF Inv, Waiting
  <2> HIDE DEF call
  <2>3. arrived' \in Nat /\ dropped' \subseteq 1..arrived' /\ InputOnce'
    BY <1>1, <1>5, <1>6, <2>1, <2>2, HandedIn
  <2> QED  BY <1>3, <1>6, <2>1, <2>3 DEF Inv, TypeOK, Keeps
<1>2. ASSUME NEW y \in IF input # NoInput /\ ssl.out = <<>> THEN SSL_read(Fed(input, ssl)) ELSE {ssl},
             Fetch(call, input, y, room), dropped' = dropped
      PROVE  Inv'
  <2> HIDE DEF call
  <2>1. Keeps(Fed(input, ssl), y)
    <3>1. CASE input # NoInput /\ ssl.out = <<>>
      BY <3>1, <1>2, <1>3, FedIsSsl, ReadKeeps
    <3>2. CASE ~(input # NoInput /\ ssl.out = <<>>)
      BY <3>2, <1>2, <1>7 DEF Fed
    <3> QED  BY <3>1, <3>2
  <2>2. y \in SslType
    BY <2>1 DEF Keeps
  <2>3. Keeps(y, ssl') /\ retry' \in RetryType /\ answer' \in AnswerType /\ Waiting' /\ AnswersAreWhole'
    BY <1>2, <1>3, <1>5, <1>6, <2>2, FetchStep
  <2>4. Keeps(Fed(input, ssl), ssl')
    BY <2>1, <2>3, KeepsTransitive
  <2>5. arrived' \in Nat /\ dropped' \subseteq 1..arrived' /\ InputOnce'
    BY <1>2, <1>5, <1>6, <2>4, HandedIn
  <2> QED  BY <1>3, <1>6, <2>3, <2>5 DEF Inv, TypeOK, Keeps
<1> QED  BY <1>1, <1>2 DEF TlsHandleAlert

\* TlsCloseNotify keeps the invariant.
LEMMA CloseStep ==
  ASSUME Inv, NEW room \in BufferSizes, TlsCloseNotify(room)
  PROVE  Inv'
<1> DEFINE call == "TlsCloseNotify"
<1>1. PICK y \in IF ssl.out = <<>> THEN SSL_shutdown(ssl) ELSE {ssl} : Fetch(call, NoInput, y, room)
  BY DEF TlsCloseNotify
<1>2. ssl \in SslType /\ session \in Nat /\ tls \in BOOLEAN /\ NoInput \in Nat /\ room \in Nat
      /\ arrived \in Nat /\ dropped \subseteq 1..arrived
  BY InputType DEF Inv, TypeOK, NoInput
<1>3. call \in Builders
  BY DEF Builders
<1>4. tls' = tls /\ session' = session /\ arrived' = arrived /\ dropped' = dropped /\ tls
  BY DEF TlsCloseNotify, MayCall
<1> HIDE DEF call
<1>5. Keeps(ssl, y)
  BY <1>1, <1>2, ShutdownKeeps DEF Keeps
<1>6. y \in SslType
  BY <1>5 DEF Keeps
<1>7. Keeps(y, ssl') /\ retry' \in RetryType /\ answer' \in AnswerType /\ Waiting' /\ AnswersAreWhole'
  BY <1>1, <1>2, <1>3, <1>4, <1>6, FetchStep
<1>8. Keeps(ssl, ssl')
  BY <1>5, <1>7, KeepsTransitive
<1>9. InputOnce'
  BY <1>4, <1>8, InputOnceIsInOrder DEF Inv, Keeps, InputOnce, InOrder, Stream
<1> QED  BY <1>2, <1>4, <1>7, <1>8, <1>9 DEF Inv, TypeOK, Keeps

\* A call that builds no packet: SSL keeps its input, and nothing has to be
\* repeated after it.
LEMMA OtherCallStep ==
  ASSUME Inv, tls' \in BOOLEAN, session' \in Nat, arrived' = arrived, dropped' = dropped,
         retry' = NoCall, Keeps(ssl, ssl'), answer' \in AnswerType, answer'.call \notin Builders
  PROVE  Inv'
<1>1. InputOnce'
  BY DEF Inv, Keeps, InputOnce, Stream
<1>2. Waiting'
  BY DEF Waiting
<1>3. AnswersAreWhole'
  BY DEF AnswersAreWhole, Builders
<1>4. TypeOK'
  BY DEF Inv, TypeOK, Keeps, RetryType
<1> QED  BY <1>1, <1>2, <1>3, <1>4 DEF Inv

\* The answer before the first call has its type.
LEMMA NoAnswerType ==
  ASSUME NEW call \in Calls, NEW status \in Statuses
  PROVE  /\ [NoAnswer EXCEPT !.call = call, !.status = status] \in AnswerType
         /\ [NoAnswer EXCEPT !.call = call, !.status = status].call = call
<1>1. NoAnswer \in AnswerType
  BY DEF NoAnswer, AnswerType, Calls, Statuses
<1> QED  BY <1>1 DEF AnswerType

\* What a call returns has the type of an answer.
LEMMA ReturnedType ==
  ASSUME NEW call \in Calls, NEW n \in Nat, NEW bytes \in Seq(OutByte), Returned(call, n, bytes)
  PROVE  answer' \in AnswerType /\ answer'.call = call
BY DEF Returned, AnswerType, Statuses

\* TlsNew keeps the invariant.
LEMMA NewStep ==
  ASSUME Inv, TlsNew
  PROVE  Inv'
<1>1. retry = NoCall
  BY DEF TlsNew, Inv, Waiting
<1>2. "TlsNew" \in Calls /\ "TlsNew" \notin Builders /\ "SUCCESS" \in Statuses /\ "NULL" \in Statuses
  BY DEF Calls, Builders, Statuses
<1>3. answer' \in AnswerType /\ answer'.call = "TlsNew"
  BY <1>2, NoAnswerType DEF TlsNew
<1>4. Keeps(ssl, ssl') /\ session' \in Nat
  BY DEF TlsNew, Inv, TypeOK, Keeps
<1> QED  BY <1>1, <1>2, <1>3, <1>4, OtherCallStep DEF TlsNew

\* The invariant holds before the first call.
LEMMA InitInv == Init => Inv
<1> SUFFICES ASSUME Init PROVE Inv
  OBVIOUS
<1>1. NoAnswer \in AnswerType /\ NoAnswer.call = "none"
  BY DEF NoAnswer, AnswerType, Calls, Statuses
<1>2. TypeOK
  BY <1>1, FreshSslType DEF Init, TypeOK, RetryType
<1>3. Waiting /\ AnswersAreWhole
  BY DEF Init, Waiting, AnswersAreWhole, NoAnswer
<1>4. InOrder(<<>>, 0, {})
  BY DEF InOrder
<1>5. InputOnce
  BY <1>4, FreshSslType, InputOnceIsInOrder DEF Init
<1> QED  BY <1>2, <1>3, <1>5 DEF Inv

\* TlsFree keeps the invariant.
LEMMA FreeStep ==
  ASSUME Inv, TlsFree
  PROVE  Inv'
<1>1. NoAnswer \in AnswerType /\ NoAnswer.call = "none"
  BY DEF NoAnswer, AnswerType, Calls, Statuses
<1>2. TypeOK'
  BY <1>1, FreshSslType DEF TlsFree, TypeOK, RetryType
<1>3. Waiting' /\ AnswersAreWhole'
  BY <1>1 DEF TlsFree, Waiting, AnswersAreWhole
<1>4. InOrder(<<>>, 0, {})
  BY DEF InOrder
<1>5. InputOnce'
  BY <1>4, FreshSslType DEF TlsFree, InputOnce, InOrder, Stream
<1> QED  BY <1>2, <1>3, <1>5 DEF Inv

\* TlsCtrlTrafficIn keeps the invariant.
LEMMA TrafficInStep ==
  ASSUME Inv, TlsCtrlTrafficIn
  PROVE  Inv'
<1>1. /\ ssl \in SslType /\ arrived \in Nat /\ dropped \in SUBSET (1..arrived)
      /\ Stream(ssl) \in Seq(Nat) /\ InOrder(Stream(ssl), arrived, dropped)
  BY StreamType, InputOnceIsInOrder DEF Inv, TypeOK
<1>2. /\ retry' = NoCall /\ tls' = tls /\ session' = session /\ arrived' = arrived + 1
      /\ arrived + 1 \in Nat
  BY <1>1 DEF TlsCtrlTrafficIn, Ready
<1>3. answer' \in AnswerType /\ answer'.call = "TlsCtrlTrafficIn"
  <2>1. "TlsCtrlTrafficIn" \in Calls /\ <<>> \in Seq(OutByte)
    BY DEF Calls
  <2> QED  BY <2>1, ReturnedType DEF TlsCtrlTrafficIn
<1>4. ssl' \in SslType /\ dropped' \subseteq 1..arrived' /\ InOrder(Stream(ssl'), arrived', dropped')
  <2>1. CASE ssl' = [ssl EXCEPT !.in = Append(@, arrived + 1)] /\ dropped' = dropped
    <3>1. ssl' \in SslType /\ Stream(ssl') = Append(Stream(ssl), arrived + 1)
      BY <2>1, <1>1, <1>2, FedType, Zenon
    <3>2. InOrder(Append(Stream(ssl), arrived + 1), arrived + 1, dropped)
      BY <1>1, WrittenInOrder
    <3> QED  BY <3>1, <3>2, <2>1, <1>1, <1>2
  <2>2. CASE ssl' = ssl /\ dropped' = dropped \cup {arrived + 1}
    <3>1. InOrder(Stream(ssl), arrived + 1, dropped \cup {arrived + 1})
      BY <1>1, DroppedInOrder
    <3> QED  BY <3>1, <2>2, <1>1, <1>2
  <2> QED  BY <2>1, <2>2 DEF TlsCtrlTrafficIn
<1>5. InputOnce'
  BY <1>4 DEF InputOnce, InOrder, Stream
<1>6. Waiting' /\ AnswersAreWhole'
  BY <1>2, <1>3 DEF Waiting, AnswersAreWhole
<1> QED  BY <1>2, <1>3, <1>4, <1>5, <1>6 DEF Inv, TypeOK, RetryType

\* TlsRead keeps the invariant.
LEMMA ReadStep ==
  ASSUME Inv, TlsRead
  PROVE  Inv'
<1>1. Keeps(ssl, ssl')
  BY ReadKeeps DEF TlsRead, Inv, TypeOK
<1>2. "TlsRead" \in Calls /\ "TlsRead" \notin Builders /\ <<>> \in Seq(OutByte)
  BY DEF Calls, Builders
<1>3. answer' \in AnswerType /\ answer'.call = "TlsRead"
  BY <1>2, ReturnedType DEF TlsRead
<1> QED  BY <1>1, <1>2, <1>3, OtherCallStep DEF TlsRead, Begun, Ready, Inv, TypeOK

\* TlsWrite keeps the invariant.
LEMMA WriteStep ==
  ASSUME Inv, TlsWrite
  PROVE  Inv'
<1>1. ssl \in SslType /\ session \in Nat /\ "record" \in Kind
  BY DEF Inv, TypeOK, Kind
<1>2. Keeps(ssl, ssl')
  <2>1. CASE ssl' \in Sends(ssl, "record", FlightSizes)
    BY <2>1, <1>1, SendsKeeps, SizesAreNat, Zenon
  <2>2. CASE ssl' = ssl
    BY <2>2, <1>1 DEF Keeps
  <2> QED  BY <2>1, <2>2 DEF TlsWrite
<1>3. "TlsWrite" \in Calls /\ "TlsWrite" \notin Builders /\ <<>> \in Seq(OutByte)
  BY DEF Calls, Builders
<1>4. answer' \in AnswerType /\ answer'.call = "TlsWrite"
  BY <1>3, ReturnedType DEF TlsWrite
<1> QED  BY <1>1, <1>2, <1>3, <1>4, OtherCallStep DEF TlsWrite, Begun, Ready, Inv, TypeOK

\* TlsCtrlTrafficOut keeps the invariant.
LEMMA TrafficOutStep ==
  ASSUME Inv, NEW room \in BufferSizes, TlsCtrlTrafficOut(room)
  PROVE  Inv'
<1> DEFINE n == IF Len(ssl.out) > room THEN room ELSE Len(ssl.out)
<1>1. ssl \in SslType /\ session \in Nat /\ room \in Nat /\ tls \in BOOLEAN
  BY TlsAssumption DEF Inv, TypeOK
<1>2. ssl.out \in Seq(OutByte) /\ Len(ssl.out) \in Nat /\ n \in Nat /\ n <= Len(ssl.out)
  BY <1>1 DEF SslType
<1>3. /\ retry = NoCall /\ UNCHANGED <<tls, session, arrived, dropped, retry>>
      /\ ssl' = [ssl EXCEPT !.out = SubSeq(@, n + 1, Len(@))]
      /\ Returned("TlsCtrlTrafficOut", n, SubSeq(ssl.out, 1, n))
  BY DEF TlsCtrlTrafficOut, Ready
<1> HIDE DEF n
<1>4. SubSeq(ssl.out, 1, n) \in Seq(OutByte) /\ SubSeq(ssl.out, n + 1, Len(ssl.out)) \in Seq(OutByte)
  BY <1>2
<1>5. Keeps(ssl, ssl')
  BY <1>1, <1>3, <1>4 DEF Keeps, SslType, Stream
<1>6. "TlsCtrlTrafficOut" \in Calls /\ "TlsCtrlTrafficOut" \notin Builders
  BY DEF Calls, Builders
<1>7. answer' \in AnswerType /\ answer'.call = "TlsCtrlTrafficOut"
  BY <1>2, <1>3, <1>4, <1>6, ReturnedType, Zenon
<1> QED  BY <1>1, <1>3, <1>5, <1>6, <1>7, OtherCallStep

\* TlsShutdown keeps the invariant.
LEMMA ShutdownStep ==
  ASSUME Inv, TlsShutdown
  PROVE  Inv'
<1> DEFINE quieted == [ssl EXCEPT !.quiet = TRUE]
<1>1. PICK y \in SSL_shutdown(quieted) :
        \/ /\ ssl' = SSL_clear(y)
           /\ answer' = [NoAnswer EXCEPT !.call = "TlsShutdown", !.status = "SUCCESS"]
        \/ /\ ssl' = Fails(y)
           /\ answer' = [NoAnswer EXCEPT !.call = "TlsShutdown", !.status = "PROTOCOL_ERROR"]
  BY DEF TlsShutdown
<1>2. ssl \in SslType /\ session \in Nat /\ tls \in BOOLEAN
  BY DEF Inv, TypeOK
<1>3. Keeps(ssl, quieted)
  BY <1>2 DEF Keeps, SslType, Stream
<1>4. quieted \in SslType
  BY <1>3 DEF Keeps
<1> HIDE DEF quieted
<1>5. Keeps(quieted, y)
  BY <1>2, <1>4, ShutdownKeeps
<1>6. y \in SslType
  BY <1>5 DEF Keeps
<1>7. Keeps(y, SSL_clear(y)) /\ Keeps(y, Fails(y))
  BY <1>6, FailsKeeps DEF SSL_clear, Keeps, SslType, Stream, Phase
<1>8. Keeps(ssl, ssl')
  BY <1>1, <1>3, <1>5, <1>7, KeepsTransitive
<1>9. /\ "TlsShutdown" \in Calls /\ "TlsShutdown" \notin Builders
      /\ "SUCCESS" \in Statuses /\ "PROTOCOL_ERROR" \in Statuses
  BY DEF Calls, Builders, Statuses
<1>10. answer' \in AnswerType /\ answer'.call = "TlsShutdown"
  BY <1>1, <1>9, NoAnswerType
<1>11. /\ retry' = NoCall /\ tls' \in BOOLEAN /\ session' \in Nat
       /\ arrived' = arrived /\ dropped' = dropped
  BY <1>2 DEF TlsShutdown
<1> QED  BY <1>8, <1>9, <1>10, <1>11, OtherCallStep
-----------------------------------------------------------------------------
(* The theorems.                                                            *)

\* Every call keeps the invariant.
LEMMA NextStep == Inv /\ [Next]_vars => Inv'
<1> SUFFICES ASSUME Inv, [Next]_vars PROVE Inv'
  OBVIOUS
<1>1. CASE TlsNew
  BY <1>1, NewStep
<1>2. CASE TlsFree
  BY <1>2, FreeStep
<1>3. CASE TlsShutdown
  BY <1>3, ShutdownStep
<1>4. CASE BuildPacket
  BY <1>4, HandshakeStep, AlertStep, CloseStep, TrafficOutStep DEF BuildPacket
<1>5. CASE TlsCtrlTrafficIn
  BY <1>5, TrafficInStep
<1>6. CASE TlsRead
  BY <1>6, ReadStep
<1>7. CASE TlsWrite
  BY <1>7, WriteStep
<1>8. CASE UNCHANGED vars
  BY <1>8 DEF vars, Inv, TypeOK, Waiting, InputOnce, AnswersAreWhole
<1> QED  BY <1>1, <1>2, <1>3, <1>4, <1>5, <1>6, <1>7, <1>8 DEF Next

\* Inv is an invariant of the connection.
THEOREM ConnectionInvariant == Spec => []Inv
<1> QED  BY InitInv, NextStep, PTL DEF Spec

\* The connection, its BIOs and the answers keep their types.
THEOREM TlsTypeCorrect == Spec => []TypeOK
<1>1. Inv => TypeOK
  BY DEF Inv
<1> QED  BY <1>1, ConnectionInvariant, PTL

\* Every packet handed in reaches SSL once and in order, or was dropped by
\* BIO_write, for any number of packets and repeated calls.
THEOREM InputReachesSslOnce == Spec => []InputOnce
<1>1. Inv => InputOnce
  BY DEF Inv
<1> QED  BY <1>1, ConnectionInvariant, PTL

\* TlsDoHandshake, TlsHandleAlert and TlsCloseNotify give all of OutBio, or
\* nothing of it and leave it there.
THEOREM AnswersAlwaysWhole == Spec => []AnswersAreWhole
<1>1. Inv => AnswersAreWhole
  BY DEF Inv
<1> QED  BY <1>1, ConnectionInvariant, PTL

\* While a call has to be repeated, only that call, TlsFree and TlsShutdown are
\* possible, and the call takes place on an unchanged SSL object.
LEMMA RepeatStep ==
  ASSUME Inv, Next, retry # NoCall
  PROVE  \/ tls' = FALSE /\ answer'.call = "none"
         \/ session' = session + 1 /\ answer'.call = "TlsShutdown"
         \/ /\ arrived' = arrived /\ dropped' = dropped
            /\ \E room \in Nat : Fetch(retry.call, retry.input, ssl, room)
<1>1. tls /\ ssl.out # <<>> /\ ssl \in SslType
  BY DEF Inv, Waiting, TypeOK
<1>2. CASE TlsFree
  BY <1>2 DEF TlsFree, NoAnswer
<1>3. CASE TlsShutdown
  <2>1. answer'.call = "TlsShutdown"
    BY <1>3 DEF TlsShutdown, NoAnswer
  <2> QED  BY <1>3, <2>1 DEF TlsShutdown
<1>4. ASSUME NEW room \in BufferSizes, NEW input \in {NoInput} \cup Packet,
             TlsDoHandshake(input, room)
      PROVE  /\ arrived' = arrived /\ dropped' = dropped
             /\ Fetch(retry.call, retry.input, ssl, room)
  <2>1. retry = [call |-> "TlsDoHandshake", input |-> input] /\ arrived' = arrived
    BY <1>4 DEF TlsDoHandshake, MayCall, HandIn
  <2>2. PICK written \in BOOLEAN :
          /\ written \/ (input # NoInput /\ retry = NoCall)
          /\ dropped' = IF written THEN dropped ELSE dropped \cup {input}
          /\ \E r \in HandshakeRuns(input, IF written THEN Fed(input, ssl) ELSE ssl) :
               IF r.ret = "error" THEN Abort("TlsDoHandshake", r.e, room)
               ELSE Fetch("TlsDoHandshake", input, r.e, room)
    BY <1>4 DEF TlsDoHandshake
  <2>3. Fed(input, ssl) = ssl /\ written /\ dropped' = dropped
    BY <1>1, <2>2 DEF Fed
  <2>4. HandshakeRuns(input, ssl) = {[ret |-> "ok", e |-> ssl]}
    BY <1>1 DEF HandshakeRuns
  <2>5. Fetch("TlsDoHandshake", input, ssl, room)
    BY <2>2, <2>3, <2>4
  <2> QED  BY <2>1, <2>3, <2>5
<1>5. ASSUME NEW room \in BufferSizes, NEW input \in {NoInput} \cup Packet,
             TlsHandleAlert(input, room)
      PROVE  /\ arrived' = arrived /\ dropped' = dropped
             /\ Fetch(retry.call, retry.input, ssl, room)
  <2>1. retry = [call |-> "TlsHandleAlert", input |-> input] /\ arrived' = arrived
    BY <1>5 DEF TlsHandleAlert, MayCall, HandIn
  <2>2. Fetch("TlsHandleAlert", input, ssl, room) /\ dropped' = dropped
    BY <1>1, <1>5 DEF TlsHandleAlert
  <2> QED  BY <2>1, <2>2
<1>6. ASSUME NEW room \in BufferSizes, TlsCloseNotify(room)
      PROVE  /\ arrived' = arrived /\ dropped' = dropped
             /\ Fetch(retry.call, retry.input, ssl, room)
  <2>1. /\ retry = [call |-> "TlsCloseNotify", input |-> NoInput]
        /\ arrived' = arrived /\ dropped' = dropped
    BY <1>6 DEF TlsCloseNotify, MayCall
  <2>2. Fetch("TlsCloseNotify", NoInput, ssl, room)
    BY <1>1, <1>6 DEF TlsCloseNotify
  <2> QED  BY <2>1, <2>2
<1>7. /\ ~TlsNew /\ ~TlsCtrlTrafficIn /\ ~TlsRead /\ ~TlsWrite
      /\ \A room \in BufferSizes : ~TlsCtrlTrafficOut(room)
  BY <1>1 DEF TlsNew, TlsCtrlTrafficIn, TlsRead, TlsWrite, TlsCtrlTrafficOut, Begun, Ready
<1>8. BufferSizes \subseteq Nat
  BY TlsAssumption
<1> QED
  BY <1>2, <1>3, <1>4, <1>5, <1>6, <1>7, <1>8 DEF Next, BuildPacket

\* Repeating a call that lacked room neither starts the handshake again, nor
\* reads, nor closes: it only fetches what there is to send.
THEOREM RetriesOnlyFetch == Spec => RetryOnlyFetches
<1> DEFINE A == retry # NoCall /\ tls' /\ session' = session =>
                  /\ ssl' = [ssl EXCEPT !.out = ssl'.out]
                  /\ arrived' = arrived /\ dropped' = dropped
<1>1. Inv /\ [Next]_vars => [A]_vars
  <2> SUFFICES ASSUME Inv, Next, retry # NoCall, tls', session' = session
               PROVE  /\ ssl' = [ssl EXCEPT !.out = ssl'.out]
                      /\ arrived' = arrived /\ dropped' = dropped
    OBVIOUS
  <2>1. session \in Nat /\ ssl \in SslType
    BY DEF Inv, TypeOK
  <2>2. /\ arrived' = arrived /\ dropped' = dropped
        /\ \E room \in Nat : Fetch(retry.call, retry.input, ssl, room)
    BY <2>1, RepeatStep
  <2>3. ssl' = ssl \/ ssl' = [ssl EXCEPT !.out = <<>>]
    BY <2>2 DEF Fetch
  <2>4. ssl' = [ssl EXCEPT !.out = ssl'.out]
    BY <2>1, <2>3 DEF SslType
  <2> QED  BY <2>2, <2>4
<1> QED  BY <1>1, ConnectionInvariant, PTL DEF Spec, RetryOnlyFetches

\* A call repeated with at least the size it reported succeeds.
THEOREM ReportedSizeIsEnough == Spec => ReportedSizeSuffices
<1> DEFINE A == retry # NoCall /\ answer'.call = retry.call /\ answer'.room >= answer.needed =>
                  answer'.status = "SUCCESS" /\ retry' = NoCall
<1>1. Inv /\ [Next]_vars => [A]_vars
  <2> SUFFICES ASSUME Inv, Next, retry # NoCall, answer'.call = retry.call,
                      answer'.room >= answer.needed
               PROVE  answer'.status = "SUCCESS" /\ retry' = NoCall
    OBVIOUS
  <2>1. retry.call \in Builders /\ answer.needed = Len(ssl.out) /\ Len(ssl.out) \in Nat
    BY DEF Inv, TypeOK, RetryType, Waiting, SslType
  <2>2. PICK room \in Nat : Fetch(retry.call, retry.input, ssl, room)
    BY <2>1, RepeatStep DEF Builders
  <2>3. answer'.room = room
    BY <2>2 DEF Fetch
  <2>4. ~(Len(ssl.out) > room)
    BY <2>1, <2>3
  <2> QED  BY <2>2, <2>4 DEF Fetch
<1> QED  BY <1>1, ConnectionInvariant, PTL DEF Spec, ReportedSizeSuffices
=============================================================================
