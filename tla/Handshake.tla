----------------------------- MODULE Handshake -----------------------------
(***************************************************************************)
(* The opening handshake between a gws client (client.go, NewClient and    *)
(* handshake) and a gws server (upgrader.go, UpgradeFromConn), down to the *)
(* permessage-deflate parameters and the sliding windows that each end     *)
(* sets up from them (compress.go, option.go).                             *)
(*                                                                         *)
(* A header is a record of what permessageNegotiation can tell apart.  The *)
(* other headers that a gws client sends are always right, so the server   *)
(* refuses only by Authorize and by subprotocol.                           *)
(***************************************************************************)
EXTENDS Integers, Sequences

CONSTANTS ClientOptions, ServerOptions,   \* PermessageDeflate as configured
          ClientProtocols, ServerProtocols,  \* lists of subprotocols as configured
          NoProtocol

Bits == 8..15
NoHeader == [offered |-> FALSE]
Absent == -1    \* a max_window_bits parameter that is not there
Bare   == 0     \* one without a number

Options ==
    [Enabled : BOOLEAN, ServerContextTakeover : BOOLEAN, ClientContextTakeover : BOOLEAN,
     ServerMaxWindowBits : Int, ClientMaxWindowBits : Int, Threshold : Nat]

ASSUME HandshakeAssumption ==
    /\ ClientOptions \subseteq Options /\ ServerOptions \subseteq Options
    /\ \A s \in ClientProtocols \cup ServerProtocols :
          Len(s) \in Nat /\ \A i \in 1..Len(s) : s[i] # NoProtocol

VARIABLES clientOption, serverOption,    \* after initClientOption, initServerOption
          clientProtocols, serverProtocols,
          request,     \* what is on the wire to the server
          response,    \* and to the client
          client,      \* the client's end: its state and, once open, its Conn
          sender,      \* the goroutine of request that writes the request
          server       \* the server's end

vars == <<clientOption, serverOption, clientProtocols, serverProtocols,
          request, response, client, sender, server>>

-----------------------------------------------------------------------------
(* Defaults. *)
defaultCompressThreshold == 512

DefaultThreshold(o) == IF o.Threshold <= 0 THEN defaultCompressThreshold ELSE o.Threshold
OrElse(bits, default) == IF bits \in Bits THEN bits ELSE default

initServerOption(o) ==
    IF ~o.Enabled THEN o
    ELSE [o EXCEPT !.ServerMaxWindowBits = OrElse(@, IF o.ServerContextTakeover THEN 12 ELSE 15),
                   !.ClientMaxWindowBits = OrElse(@, IF o.ClientContextTakeover THEN 12 ELSE 15),
                   !.Threshold = DefaultThreshold(o)]

initClientOption(o) ==
    IF ~o.Enabled THEN o
    ELSE [o EXCEPT !.ServerMaxWindowBits = OrElse(@, 15),
                   !.ClientMaxWindowBits = OrElse(@, 15),
                   !.Threshold = DefaultThreshold(o)]

(* Headers. *)
Unless15(bits) == IF bits = 15 THEN Absent ELSE bits

genRequestHeader(o) ==
    [offered |-> TRUE,
     server_no_context_takeover |-> ~o.ServerContextTakeover,
     client_no_context_takeover |-> ~o.ClientContextTakeover,
     server_max_window_bits |-> Unless15(o.ServerMaxWindowBits),
     client_max_window_bits |-> IF o.ClientMaxWindowBits = 15 /\ o.ClientContextTakeover
                                THEN Bare ELSE Unless15(o.ClientMaxWindowBits)]

genResponseHeader_BitsLeftOut(o) ==
    [offered |-> TRUE,
     server_no_context_takeover |-> ~o.ServerContextTakeover,
     client_no_context_takeover |-> ~o.ClientContextTakeover,
     server_max_window_bits |-> Unless15(o.ServerMaxWindowBits),
     client_max_window_bits |-> Absent]

genResponseHeader(o) ==
    [offered |-> TRUE,
     server_no_context_takeover |-> ~o.ServerContextTakeover,
     client_no_context_takeover |-> ~o.ClientContextTakeover,
     server_max_window_bits |-> Unless15(o.ServerMaxWindowBits),
     client_max_window_bits |-> Unless15(o.ClientMaxWindowBits)]

(* A parameter as permessageNegotiation reads it: no number and 0 mean 15, *)
(* anything else is cut to 8..15.                                          *)
ParseBits(x) ==
    CASE x \in {Absent, Bare} -> 15
      [] x \notin {Absent, Bare} /\ x < 8 -> 8
      [] x >= 8 -> IF x < 15 THEN x ELSE 15

permessageNegotiation(h) ==
    IF h.offered
    THEN [ServerContextTakeover |-> ~h.server_no_context_takeover,
          ClientContextTakeover |-> ~h.client_no_context_takeover,
          ServerMaxWindowBits |-> ParseBits(h.server_max_window_bits),
          ClientMaxWindowBits |-> ParseBits(h.client_max_window_bits)]
    ELSE [ServerContextTakeover |-> TRUE, ClientContextTakeover |-> TRUE,
          ServerMaxWindowBits |-> 15, ClientMaxWindowBits |-> 15]

setThreshold(pd, takeover) == IF takeover THEN [pd EXCEPT !.Threshold = 0] ELSE pd

(* Upgrader.getPermessageDeflate: takeover when both want it, window bits  *)
(* as the server is configured.                                            *)
ServerPD(h, o) ==
    LET c  == permessageNegotiation(h)
        pd == [o EXCEPT !.Enabled = o.Enabled /\ h.offered,
                        !.ServerContextTakeover = c.ServerContextTakeover /\ o.ServerContextTakeover,
                        !.ClientContextTakeover = c.ClientContextTakeover /\ o.ClientContextTakeover]
    IN  setThreshold(pd, pd.ServerContextTakeover)

(* connector.getPermessageDeflate: what the server answered. *)
ClientPD(h, o) ==
    LET s  == permessageNegotiation(h)
        pd == [Enabled |-> o.Enabled /\ h.offered, Threshold |-> o.Threshold,
               ServerContextTakeover |-> s.ServerContextTakeover,
               ClientContextTakeover |-> s.ClientContextTakeover,
               ServerMaxWindowBits |-> s.ServerMaxWindowBits,
               ClientMaxWindowBits |-> s.ClientMaxWindowBits]
    IN  setThreshold(pd, pd.ClientContextTakeover)

(* slideWindow.initialize, when takeover was negotiated for the direction. *)
Window(pd, takeover, bits) ==
    IF pd.Enabled /\ takeover THEN [enabled |-> TRUE, size |-> 2^bits]
                              ELSE [enabled |-> FALSE, size |-> 0]

ServerWindow(pd) == Window(pd, pd.ServerContextTakeover, pd.ServerMaxWindowBits)
ClientWindow(pd) == Window(pd, pd.ClientContextTakeover, pd.ClientMaxWindowBits)

(* internal.GetIntersectionElem: the first of a that is in b. *)
GetIntersectionElem(a, b) ==
    LET common == {i \in 1..Len(a) : \E j \in 1..Len(b) : a[i] = b[j]}
    IN  IF common = {} THEN NoProtocol ELSE a[CHOOSE i \in common : \A j \in common : i <= j]

(* WithSubProtocol: the server looks only if it is configured to. *)
ServerProtocol == GetIntersectionElem(serverProtocols, request.protocols)
ServerRefuses == serverProtocols # <<>> /\ ServerProtocol = NoProtocol

(* getSubProtocol. *)
Answered == IF response.protocol = NoProtocol THEN <<>> ELSE <<response.protocol>>
ClientProtocol_Own == IF clientProtocols = <<>> THEN NoProtocol ELSE Head(clientProtocols)
ClientProtocol == GetIntersectionElem(clientProtocols, Answered)
ClientRefuses == clientProtocols # <<>> /\ ClientProtocol = NoProtocol

-----------------------------------------------------------------------------
End(state) == [state |-> state]
NoMessage == [sent |-> FALSE]
BadRequest == [sent |-> TRUE, status |-> 400]

Init ==
    /\ \E o \in ClientOptions : clientOption = initClientOption(o)
    /\ \E o \in ServerOptions : serverOption = initServerOption(o)
    /\ clientProtocols \in ClientProtocols
    /\ serverProtocols \in ServerProtocols
    /\ request = NoMessage
    /\ response = NoMessage
    /\ client = End("dialed")
    /\ sender = "none"
    /\ server = End("accepted")

options == <<clientOption, serverOption, clientProtocols, serverProtocols>>

(* request: set the deadline, start the goroutine that writes the request, *)
(* and wait for its result on an unbuffered channel.                       *)
StartRequest ==
    /\ client.state = "dialed"
    /\ client' = End("requesting")
    /\ sender' = "writing"
    /\ UNCHANGED <<options, request, response, server>>

(* The goroutine writes; the network, the deadline or a connection that    *)
(* NewClient has closed may fail it.  It then offers its result.           *)
WriteRequest ==
    /\ sender = "writing"
    /\ \/ /\ client.state # "failed"
          /\ sender' = "written"
          /\ request' = [sent |-> TRUE, protocols |-> clientProtocols,
                         extensions |-> IF clientOption.Enabled THEN genRequestHeader(clientOption) ELSE NoHeader]
       \/ sender' = "failed" /\ UNCHANGED request
    /\ UNCHANGED <<options, response, client, server>>

TakeResult ==
    /\ client.state = "requesting"
    /\ sender \in {"written", "failed"}
    /\ client' = End(IF sender = "written" THEN "waiting" ELSE "failed")
    /\ sender' = "done"
    /\ UNCHANGED <<options, request, response, server>>

(* The context of the handshake expires first: NewClient closes the        *)
(* connection, and nobody will take the goroutine's result.                *)
Expire ==
    /\ client.state = "requesting"
    /\ client' = End("failed")
    /\ UNCHANGED <<options, request, response, sender, server>>

(* http.ReadResponse fails, at the latest when the deadline passes. *)
ReadResponseFails_NoDeadline ==
    /\ client.state = "waiting" /\ server.state = "failed"
    /\ client' = End("failed")
    /\ UNCHANGED <<options, request, response, sender, server>>

ReadResponseFails ==
    /\ client.state = "waiting"
    /\ client' = End("failed")
    /\ UNCHANGED <<options, request, response, sender, server>>

(* RunListener: http.ReadRequest fails, as the client has closed.  OnError *)
(* is called; the server does not close its end.                           *)
ReadRequestFails ==
    /\ server.state = "accepted"
    /\ client.state = "failed" /\ ~request.sent
    /\ server' = End("failed")
    /\ UNCHANGED <<options, request, response, client, sender>>

(* UpgradeFromConn: Authorize or the subprotocol refuses; a 400 goes out   *)
(* and the connection is closed.                                           *)
Refuse ==
    /\ server.state = "accepted"
    /\ request.sent
    /\ server' = End("failed")
    /\ response' = BadRequest
    /\ UNCHANGED <<options, request, client, sender>>

Switching(pd) ==
    [sent |-> TRUE, status |-> 101, protocol |-> ServerProtocol,
     extensions |-> IF pd.Enabled THEN genResponseHeader(pd) ELSE NoHeader]

(* UpgradeFromConn: the 101 goes out and the server has its Conn.          *)
Upgrade ==
    /\ server.state = "accepted"
    /\ request.sent
    /\ ~ServerRefuses
    /\ LET pd == ServerPD(request.extensions, serverOption)
       IN  /\ response' = Switching(pd)
           /\ server' = [state |-> "open", pd |-> pd, subprotocol |-> ServerProtocol,
                         cpsWindow |-> ServerWindow(pd), dpsWindow |-> ClientWindow(pd)]
    /\ UNCHANGED <<options, request, client, sender>>

(* responseWriter.Write fails: nothing, the 400 of writeErr or, when only  *)
(* the last SetDeadline failed, the whole 101 has gone out (with a 400     *)
(* behind it, which the client takes for a frame).                         *)
UpgradeFails ==
    /\ server.state = "accepted"
    /\ request.sent
    /\ ~ServerRefuses
    /\ server' = End("failed")
    /\ response' \in {NoMessage, BadRequest, Switching(ServerPD(request.extensions, serverOption))}
    /\ UNCHANGED <<options, request, client, sender>>

(* handshake: the response is checked, then the client has its Conn,       *)
(* unless the SetDeadline that ends the handshake fails.                   *)
ReadResponse ==
    /\ client.state = "waiting"
    /\ response.sent
    /\ \/ /\ response.status # 101
          /\ client' = End("failed")
       \/ /\ response.status = 101
          /\ client' = End("failed")
       \/ /\ response.status = 101 /\ ~ClientRefuses
          /\ LET pd == ClientPD(response.extensions, clientOption)
             IN  client' = [state |-> "open", pd |-> pd, subprotocol |-> ClientProtocol,
                            cpsWindow |-> ClientWindow(pd), dpsWindow |-> ServerWindow(pd)]
    /\ UNCHANGED <<options, request, response, sender, server>>

ClientStep == StartRequest \/ TakeResult \/ Expire \/ ReadResponse \/ ReadResponseFails

Next ==
    \/ ClientStep \/ WriteRequest
    \/ ReadRequestFails \/ Refuse \/ Upgrade \/ UpgradeFails

(* The client's goroutines run, with deadlines that pass; a read from a    *)
(* closed connection fails.  Nothing is assumed of Authorize and the other *)
(* callbacks of a server: it may never answer.                             *)
Spec ==
    /\ Init /\ [][Next]_vars
    /\ WF_vars(ClientStep) /\ WF_vars(WriteRequest) /\ WF_vars(ReadRequestFails)

-----------------------------------------------------------------------------
BothOpen == client.state = "open" /\ server.state = "open"

(* Once both ends have a Conn, each direction is compressed with a window  *)
(* of the same size at both ends or with none at either, whatever the two  *)
(* were configured with.  ContextTakeover starts from this.                *)
WindowsMatch ==
    BothOpen => /\ client.pd.Enabled = server.pd.Enabled
                /\ client.cpsWindow = server.dpsWindow
                /\ server.cpsWindow = client.dpsWindow

(* Both ends have the same subprotocol, one that both were configured with *)
(* or none.                                                                *)
SubprotocolAgrees ==
    BothOpen =>
        /\ client.subprotocol = server.subprotocol
        /\ client.subprotocol # NoProtocol =>
              /\ \E i \in 1..Len(clientProtocols) : clientProtocols[i] = client.subprotocol
              /\ \E i \in 1..Len(serverProtocols) : serverProtocols[i] = client.subprotocol

(* NewClient returns, whatever the server does with the request; and a     *)
(* server that waits for the request of a client that gave up before       *)
(* sending it stops waiting.  (The goroutine that writes the request may   *)
(* remain: nothing takes its result after Expire.)                         *)
HandshakeEnds ==
    /\ <>(client.state \in {"open", "failed"})
    /\ client.state = "failed" /\ ~request.sent ~> server.state # "accepted"
=============================================================================
