--------------------------- MODULE TlsConnection ---------------------------
(***************************************************************************)
(* One TLS connection of OpensslPkg/Library/TlsLib (TlsInit.c and          *)
(* TlsProcess.c): an SSL object between two memory BIOs, from which the    *)
(* caller moves packets to and from the network.  A call whose answer does *)
(* not fit returns EFI_BUFFER_TOO_SMALL and is made again with the same    *)
(* input and more room.                                                    *)
(*                                                                         *)
(* The SSL object is OpenSSL's: what it reads, sends and returns is left   *)
(* open as far as its manual pages leave it open.  The caller follows the  *)
(* TLS driver: it starts a session once, repeats a call that lacked room   *)
(* before it does anything else, unless it gives the session up, and hands *)
(* in a handshake or alert packet only after it has taken what there was   *)
(* to send.                                                                *)
(***************************************************************************)
EXTENDS Naturals, Sequences

CONSTANTS
  MaxPackets,   \* packets the peer sends
  MaxSessions,  \* sessions of one connection, separated by TlsShutdown
  MaxPending,   \* TlsWrite is not called with more bytes than this unsent
  FlightSizes,  \* sizes of what SSL sends at a time
  BufferSizes   \* sizes of the caller's buffers

ASSUME TlsAssumption ==
  /\ MaxPackets \in Nat /\ MaxSessions \in Nat /\ MaxPending \in Nat
  /\ FlightSizes \subseteq Nat \ {0} /\ BufferSizes \subseteq Nat

VARIABLES
  tls,      \* TRUE: TlsNew has returned a connection, not freed yet
  ssl,      \* the SSL object and its BIOs
  session,  \* sessions begun by TlsNew and TlsShutdown
  arrived,  \* packets of the peer the caller has handed in; 1..arrived
  dropped,  \* those for which BIO_write had no memory
  retry,    \* the call that must be repeated, or NoCall
  answer    \* what the last call answered

vars == <<tls, ssl, session, arrived, dropped, retry, answer>>

Packet == 1..MaxPackets
NoInput == 0
NoCall == [call |-> "none", input |-> NoInput]
NoAnswer == [call |-> "none", status |-> "none", room |-> 0, needed |-> 0, bytes |-> <<>>]

\* in and out are the contents of InBio and OutBio; read is what SSL has taken
\* from InBio so far; closeSaid: a close_notify alert was sent in this session.
FreshSsl == [phase |-> "new", shut |-> {}, quiet |-> FALSE, closeSaid |-> FALSE,
             in |-> <<>>, out |-> <<>>, read |-> <<>>]

Init ==
  /\ tls = FALSE
  /\ ssl = FreshSsl
  /\ session = 1
  /\ arrived = 0
  /\ dropped = {}
  /\ retry = NoCall
  /\ answer = NoAnswer

-----------------------------------------------------------------------------
(* The SSL object (OpenSSL).  Each operator gives the possible results.     *)

Bytes(kind, n) == [i \in 1..n |-> [session |-> session, kind |-> kind]]

\* The states after something, or with 0 nothing, was sent.
Sends(e, kind, sizes) == {[e EXCEPT !.out = @ \o Bytes(kind, n)] : n \in sizes}

\* Some of InBio is taken, a packet at least; to want more, all of it.
Takes(e, least) ==
  {[e EXCEPT !.read = @ \o SubSeq(e.in, 1, n), !.in = SubSeq(@, n + 1, Len(@))] :
     n \in least..Len(e.in)}

TakesAll(e) == Takes(e, Len(e.in))

\* Each of the states, with or without something sent.
Replies(states, kind) == UNION {Sends(x, kind, {0} \cup FlightSizes) : x \in states}

Fails(e) == [e EXCEPT !.phase = "failed"]

\* The handshake needs more input, is finished, or fails, perhaps with an alert.
SSL_do_handshake(e) ==
  CASE e.phase = "established" -> {[ret |-> "ok", e |-> e]}
    [] e.phase \in {"new", "failed"} -> {[ret |-> "error", e |-> e]}
    [] e.phase = "handshaking" /\ e.in = <<>> -> {[ret |-> "want", e |-> e]}
    [] OTHER ->
         {[ret |-> "want", e |-> x] : x \in Replies(TakesAll(e), "flight")}
         \cup {[ret |-> "ok", e |-> [x EXCEPT !.phase = "established"]] :
                 x \in Replies(Takes(e, 1), "flight")}
         \cup {[ret |-> "error", e |-> Fails(x)] : x \in Replies(Takes(e, 1), "alert")}

\* SSL_set_connect_state and SSL_do_handshake: a handshake from its beginning.
SSL_connect(e) ==
  LET hello == Sends([e EXCEPT !.phase = "handshaking", !.shut = {}], "hello", FlightSizes)
  IN  (UNION {SSL_do_handshake(x) : x \in hello}) \cup {[ret |-> "error", e |-> Fails(e)]}

\* The handshake goes on; else data, perhaps with a message that is answered,
\* an alert of the peer, its close_notify, or a record that is refused.
SSL_read(e) ==
  CASE e.phase = "handshaking" -> {r.e : r \in SSL_do_handshake(e)}
    [] e.phase = "established" /\ e.in # <<>> /\ "received" \notin e.shut ->
         Replies(Takes(e, 1), "flight")
         \cup {[x EXCEPT !.shut = @ \cup {"received"}] : x \in Takes(e, 1)}
         \cup {Fails(x) : x \in Replies(Takes(e, 1), "alert")}
    [] OTHER -> {e}

\* The first call sends close_notify, the next one waits for the peer's; a
\* quiet connection sends and reads nothing.
SSL_shutdown(e) ==
  IF e.phase # "established" THEN {e}
  ELSE IF e.quiet THEN {[e EXCEPT !.shut = {"sent", "received"}]}
  ELSE IF "sent" \in e.shut THEN SSL_read(e)
  ELSE Sends([e EXCEPT !.shut = @ \cup {"sent"}, !.closeSaid = TRUE], "close", FlightSizes)

\* SSL_clear leaves the BIOs, and the mode set by SSL_set_quiet_shutdown.
SSL_clear(e) == [e EXCEPT !.phase = "new", !.shut = {}, !.closeSaid = FALSE]

-----------------------------------------------------------------------------
(* Creation and release.                                                    *)

\* TlsNew: any of its allocations may fail, and nothing is returned then.
TlsNew ==
  /\ ~tls
  /\ tls' \in BOOLEAN
  /\ answer' = [NoAnswer EXCEPT !.call = "TlsNew", !.status = IF tls' THEN "SUCCESS" ELSE "NULL"]
  /\ UNCHANGED <<ssl, session, arrived, dropped, retry>>

\* SSL_free frees the BIOs as well.
TlsFree ==
  /\ tls
  /\ tls' = FALSE
  /\ ssl' = FreshSsl
  /\ session' = 1
  /\ arrived' = 0
  /\ dropped' = {}
  /\ retry' = NoCall
  /\ answer' = NoAnswer

-----------------------------------------------------------------------------
(* Calls that build a packet.                                               *)

\* A packet not handed in before; what there was to send has been taken.
NewPacket(input) ==
  input = NoInput \/ (input = arrived + 1 /\ ssl.out = <<>> /\ ssl.phase # "new")

\* The call that lacked room, or a new one.
MayCall(call, input) ==
  /\ tls
  /\ IF retry = NoCall THEN NewPacket(input) ELSE retry = [call |-> call, input |-> input]

HandIn(input) ==
  arrived' = IF retry = NoCall /\ input # NoInput THEN input ELSE arrived

\* Variant: the needed size is taken before SSL has run.
FetchReportsOldSize(call, input, e, room) ==
  IF Len(e.out) > room
  THEN /\ ssl' = e
       /\ retry' = [call |-> call, input |-> input]
       /\ answer' = [call |-> call, status |-> "BUFFER_TOO_SMALL", room |-> room,
                     needed |-> Len(ssl.out), bytes |-> <<>>]
  ELSE /\ ssl' = [e EXCEPT !.out = <<>>]
       /\ retry' = NoCall
       /\ answer' = [call |-> call, status |-> "SUCCESS", room |-> room,
                     needed |-> Len(e.out), bytes |-> e.out]

\* Variant: what fits is read from OutBio, and the rest stays behind.
FetchWhatFits(call, input, e, room) ==
  LET n == IF Len(e.out) > room THEN room ELSE Len(e.out)
  IN  /\ ssl' = [e EXCEPT !.out = SubSeq(@, n + 1, Len(@))]
      /\ retry' = NoCall
      /\ answer' = [call |-> call, status |-> "SUCCESS", room |-> room,
                    needed |-> n, bytes |-> SubSeq(e.out, 1, n)]

\* The end of every one of these calls: all of OutBio, or the size it needs.
Fetch(call, input, e, room) ==
  IF Len(e.out) > room
  THEN /\ ssl' = e
       /\ retry' = [call |-> call, input |-> input]
       /\ answer' = [call |-> call, status |-> "BUFFER_TOO_SMALL", room |-> room,
                     needed |-> Len(e.out), bytes |-> <<>>]
  ELSE /\ ssl' = [e EXCEPT !.out = <<>>]
       /\ retry' = NoCall
       /\ answer' = [call |-> call, status |-> "SUCCESS", room |-> room,
                     needed |-> Len(e.out), bytes |-> e.out]

Abort(call, e, room) ==
  /\ ssl' = e
  /\ retry' = NoCall
  /\ answer' = [call |-> call, status |-> "ABORTED", room |-> room, needed |-> room, bytes |-> <<>>]

\* Variant: SSL runs although the last answer has not been taken.
HandshakeRunsAnyway(input, e) ==
  IF input = NoInput THEN SSL_connect(e) ELSE SSL_do_handshake(e)

\* SSL runs only when everything it sent before has been taken.
HandshakeRuns(input, e) ==
  IF e.out # <<>> THEN {[ret |-> "ok", e |-> e]}
  ELSE IF input = NoInput THEN SSL_connect(e) ELSE SSL_do_handshake(e)

\* Variant: the packet is written even when the call is only repeated.
FedAgain(input, e) == IF input = NoInput THEN e ELSE [e EXCEPT !.in = Append(@, input)]

\* BIO_write to InBio, when OutBio is empty.
Fed(input, e) ==
  IF input = NoInput \/ e.out # <<>> THEN e ELSE [e EXCEPT !.in = Append(@, input)]

\* The result of BIO_write is not looked at: without memory the packet is lost.
TlsDoHandshake(input, room) ==
  /\ MayCall("TlsDoHandshake", input)
  /\ retry = NoCall /\ input = NoInput => ssl.phase = "new"
  /\ HandIn(input)
  /\ \E written \in BOOLEAN :
       /\ written \/ (input # NoInput /\ retry = NoCall)
       /\ dropped' = IF written THEN dropped ELSE dropped \cup {input}
       /\ \E r \in HandshakeRuns(input, IF written THEN Fed(input, ssl) ELSE ssl) :
            IF r.ret = "error" THEN Abort("TlsDoHandshake", r.e, room)
            ELSE Fetch("TlsDoHandshake", input, r.e, room)
  /\ UNCHANGED <<tls, session>>

TlsHandleAlert(input, room) ==
  /\ MayCall("TlsHandleAlert", input)
  /\ HandIn(input)
  /\ \/ /\ input # NoInput /\ ssl.out = <<>>
        /\ dropped' = dropped \cup {input}
        /\ Abort("TlsHandleAlert", ssl, room)
     \/ /\ \E e \in IF input # NoInput /\ ssl.out = <<>> THEN SSL_read(Fed(input, ssl)) ELSE {ssl} :
             Fetch("TlsHandleAlert", input, e, room)
        /\ UNCHANGED dropped
  /\ UNCHANGED <<tls, session>>

TlsCloseNotify(room) ==
  /\ MayCall("TlsCloseNotify", NoInput)
  /\ \E e \in IF ssl.out = <<>> THEN SSL_shutdown(ssl) ELSE {ssl} :
       Fetch("TlsCloseNotify", NoInput, e, room)
  /\ UNCHANGED <<tls, session, arrived, dropped>>

-----------------------------------------------------------------------------
(* Data.                                                                    *)

Ready == tls /\ retry = NoCall

\* The driver moves data once the session has begun.
Begun == Ready /\ ssl.phase # "new"

Returned(call, n, bytes) ==
  answer' = [call |-> call, status |-> IF n > 0 THEN "SUCCESS" ELSE "ERROR",
             room |-> n, needed |-> n, bytes |-> bytes]

\* BIO_write may have no memory, which the caller is told.
TlsCtrlTrafficIn ==
  /\ Ready
  /\ ssl.phase = "established" /\ arrived < MaxPackets
  /\ arrived' = arrived + 1
  /\ \/ /\ ssl' = [ssl EXCEPT !.in = Append(@, arrived + 1)]
        /\ Returned("TlsCtrlTrafficIn", 1, <<>>)
        /\ UNCHANGED dropped
     \/ /\ dropped' = dropped \cup {arrived + 1}
        /\ Returned("TlsCtrlTrafficIn", 0, <<>>)
        /\ UNCHANGED ssl
  /\ UNCHANGED <<tls, session, retry>>

TlsRead ==
  /\ Begun
  /\ ssl' \in SSL_read(ssl)
  /\ \E n \in IF ssl'.read # ssl.read /\ ssl'.phase = "established" THEN {0, 1} ELSE {0} :
       Returned("TlsRead", n, <<>>)
  /\ UNCHANGED <<tls, session, arrived, dropped, retry>>

TlsWrite ==
  /\ Begun
  /\ Len(ssl.out) < MaxPending
  /\ IF ssl.phase = "established" /\ "sent" \notin ssl.shut
     THEN ssl' \in Sends(ssl, "record", FlightSizes) /\ Returned("TlsWrite", 1, <<>>)
     ELSE UNCHANGED ssl /\ Returned("TlsWrite", 0, <<>>)
  /\ UNCHANGED <<tls, session, arrived, dropped, retry>>

\* As many bytes of OutBio as fit.
TlsCtrlTrafficOut(room) ==
  LET n == IF Len(ssl.out) > room THEN room ELSE Len(ssl.out)
  IN  /\ Ready
      /\ ssl' = [ssl EXCEPT !.out = SubSeq(@, n + 1, Len(@))]
      /\ Returned("TlsCtrlTrafficOut", n, SubSeq(ssl.out, 1, n))
      /\ UNCHANGED <<tls, session, arrived, dropped, retry>>

-----------------------------------------------------------------------------
\* The connection is kept for another session.
TlsShutdown ==
  /\ tls
  /\ session < MaxSessions
  /\ session' = session + 1
  /\ retry' = NoCall
  /\ \E e \in SSL_shutdown([ssl EXCEPT !.quiet = TRUE]) :
       \/ /\ ssl' = SSL_clear(e)
          /\ answer' = [NoAnswer EXCEPT !.call = "TlsShutdown", !.status = "SUCCESS"]
       \/ /\ ssl' = Fails(e)
          /\ answer' = [NoAnswer EXCEPT !.call = "TlsShutdown", !.status = "PROTOCOL_ERROR"]
  /\ UNCHANGED <<tls, arrived, dropped>>

BuildPacket ==
  \E room \in BufferSizes :
    \/ \E input \in {NoInput} \cup Packet : TlsDoHandshake(input, room) \/ TlsHandleAlert(input, room)
    \/ TlsCloseNotify(room)
    \/ TlsCtrlTrafficOut(room)

Next ==
  \/ TlsNew \/ TlsFree \/ TlsShutdown
  \/ BuildPacket
  \/ TlsCtrlTrafficIn \/ TlsRead \/ TlsWrite

Spec == Init /\ [][Next]_vars

-----------------------------------------------------------------------------
(* Properties.                                                              *)

\* Every packet handed in reaches SSL once and in order, however often its call
\* had to be repeated for want of room: only those BIO_write had no memory for
\* are missing.
InputOnce ==
  LET s == ssl.read \o ssl.in
  IN  /\ \A i, j \in 1..Len(s) : i < j => s[i] < s[j]
      /\ {s[i] : i \in 1..Len(s)} = (1..arrived) \ dropped

\* Repeating a call for want of room only fetches its answer: SSL does not start
\* the handshake again, read, or close.
RetryOnlyFetches ==
  [][retry # NoCall /\ tls' /\ session' = session =>
       /\ ssl' = [ssl EXCEPT !.out = ssl'.out]
       /\ arrived' = arrived /\ dropped' = dropped]_vars

\* An answer is all that SSL had to send, in the room that was given; when there
\* is not enough room nothing is given and nothing is lost.
AnswersAreWhole ==
  answer.call \in {"TlsDoHandshake", "TlsHandleAlert", "TlsCloseNotify"} =>
    /\ Len(answer.bytes) <= answer.room
    /\ answer.status = "SUCCESS" => ssl.out = <<>>
    /\ answer.status = "BUFFER_TOO_SMALL" => ssl.out # <<>> /\ answer.bytes = <<>>

\* A call repeated with the size it reported succeeds.
ReportedSizeSuffices ==
  [][retry # NoCall /\ answer'.call = retry.call /\ answer'.room >= answer.needed =>
       answer'.status = "SUCCESS" /\ retry' = NoCall]_vars

\* TlsCloseNotify, "EFI_SUCCESS  The required TLS packet is built successfully":
\* when it succeeds with nothing to send, an established session has sent its
\* close_notify before, also after TlsShutdown, "meaning a new connection can be
\* started without calling TlsNew()".
CloseIsNotified ==
  /\ answer.call = "TlsCloseNotify" /\ answer.status = "SUCCESS" /\ answer.bytes = <<>>
  /\ ssl.phase = "established"
  => ssl.closeSaid
=============================================================================
