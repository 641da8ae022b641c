-------------------------- MODULE HandshakeProofs --------------------------
(***************************************************************************)
(* Two gws ends that both have a Conn agree on compression, on the windows *)
(* of both directions and on the subprotocol, for all configurations and   *)
(* all lists of subprotocols.                                              *)
(***************************************************************************)
EXTENDS Handshake, WellFoundedInduction, TLAPS

-----------------------------------------------------------------------------
(* What the server writes into its answer the client reads back. *)
LEMMA BitsSurvive ==
    \A b \in Bits : ParseBits(Unless15(b)) = b
  BY SMT DEF ParseBits, Unless15, Bits, Absent, Bare

(* The init functions keep options well formed; an enabled server has bits *)
(* in range.                                                               *)
LEMMA InitOptions ==
    \A o \in Options :
      /\ initClientOption(o) \in Options
      /\ initServerOption(o) \in Options
      /\ initServerOption(o).Enabled =>
           initServerOption(o).ServerMaxWindowBits \in Bits /\ initServerOption(o).ClientMaxWindowBits \in Bits
<1> SUFFICES ASSUME NEW o \in Options
             PROVE  /\ initClientOption(o) \in Options
                    /\ initServerOption(o) \in Options
                    /\ initServerOption(o).Enabled =>
                         /\ initServerOption(o).ServerMaxWindowBits \in Bits
                         /\ initServerOption(o).ClientMaxWindowBits \in Bits
  OBVIOUS
<1>1. DefaultThreshold(o) \in Nat
  BY DEF Options, DefaultThreshold, defaultCompressThreshold
<1>2. \A b \in Int, d \in Bits : OrElse(b, d) \in Bits
  BY DEF OrElse
<1>3. Bits \subseteq Int /\ 12 \in Bits /\ 15 \in Bits
  BY DEF Bits
<1>4. o.ServerMaxWindowBits \in Int /\ o.ClientMaxWindowBits \in Int
  BY DEF Options
<1>5. initClientOption(o) \in Options
  <2> DEFINE sb == OrElse(o.ServerMaxWindowBits, 15)
             cb == OrElse(o.ClientMaxWindowBits, 15)
             th == DefaultThreshold(o)
  <2>1. sb \in Int /\ cb \in Int /\ th \in Nat
    BY <1>1, <1>2, <1>3, <1>4
  <2>2. initClientOption(o) = IF ~o.Enabled THEN o
          ELSE [o EXCEPT !.ServerMaxWindowBits = sb, !.ClientMaxWindowBits = cb, !.Threshold = th]
    BY DEF initClientOption
  <2> HIDE DEF sb, cb, th
  <2> QED BY <2>1, <2>2 DEF Options
<1>6. /\ initServerOption(o) \in Options
      /\ initServerOption(o).Enabled =>
           /\ initServerOption(o).ServerMaxWindowBits \in Bits
           /\ initServerOption(o).ClientMaxWindowBits \in Bits
  <2> DEFINE sb == OrElse(o.ServerMaxWindowBits, IF o.ServerContextTakeover THEN 12 ELSE 15)
             cb == OrElse(o.ClientMaxWindowBits, IF o.ClientContextTakeover THEN 12 ELSE 15)
             th == DefaultThreshold(o)
  <2>1. sb \in Bits /\ cb \in Bits /\ th \in Nat
    BY <1>1, <1>2, <1>3, <1>4
  <2>2. initServerOption(o) = IF ~o.Enabled THEN o
          ELSE [o EXCEPT !.ServerMaxWindowBits = sb, !.ClientMaxWindowBits = cb, !.Threshold = th]
    BY DEF initServerOption
  <2> HIDE DEF sb, cb, th
  <2> QED BY <1>3, <2>1, <2>2 DEF Options
<1> QED BY <1>5, <1>6

(* The offer of a client with option o. *)
Offer(o) == IF o.Enabled THEN genRequestHeader(o) ELSE NoHeader

(* The server's parameters: enabled only if both ends are, with the        *)
(* server's own window bits.                                               *)
LEMMA ServerParameters ==
    ASSUME NEW c \in Options, NEW s \in Options
    PROVE  LET pd == ServerPD(Offer(c), s)
           IN  /\ pd.Enabled = (c.Enabled /\ s.Enabled)
               /\ pd.ServerContextTakeover \in BOOLEAN
               /\ pd.ClientContextTakeover \in BOOLEAN
               /\ pd.ServerMaxWindowBits = s.ServerMaxWindowBits
               /\ pd.ClientMaxWindowBits = s.ClientMaxWindowBits
  BY DEF ServerPD, Offer, genRequestHeader, NoHeader, permessageNegotiation, setThreshold, Options

(* The client's parameters after the answer of a server with those. *)
LEMMA ClientParameters ==
    ASSUME NEW c \in Options, NEW pd,
           pd.ServerContextTakeover \in BOOLEAN, pd.ClientContextTakeover \in BOOLEAN,
           pd.ServerMaxWindowBits \in Bits, pd.ClientMaxWindowBits \in Bits
    PROVE  LET r == ClientPD(genResponseHeader(pd), c)
           IN  /\ r.Enabled = c.Enabled
               /\ r.ServerContextTakeover = pd.ServerContextTakeover
               /\ r.ClientContextTakeover = pd.ClientContextTakeover
               /\ r.ServerMaxWindowBits = pd.ServerMaxWindowBits
               /\ r.ClientMaxWindowBits = pd.ClientMaxWindowBits
  BY BitsSurvive DEF ClientPD, genResponseHeader, permessageNegotiation, setThreshold, Options

(* A client whose offer was not answered does not compress. *)
LEMMA NoAnswer ==
    ASSUME NEW c \in Options
    PROVE  ClientPD(NoHeader, c).Enabled = FALSE
  BY DEF ClientPD, NoHeader, permessageNegotiation, setThreshold

(* So both ends make the same windows. *)
LEMMA SameWindows ==
    ASSUME NEW c \in Options, NEW s \in Options,
           s.Enabled => s.ServerMaxWindowBits \in Bits /\ s.ClientMaxWindowBits \in Bits
    PROVE  LET pd == ServerPD(Offer(c), s)
               r  == ClientPD(IF pd.Enabled THEN genResponseHeader(pd) ELSE NoHeader, c)
           IN  /\ r.Enabled = pd.Enabled
               /\ ServerWindow(r) = ServerWindow(pd)
               /\ ClientWindow(r) = ClientWindow(pd)
<1> DEFINE pd == ServerPD(Offer(c), s)
           r  == ClientPD(IF pd.Enabled THEN genResponseHeader(pd) ELSE NoHeader, c)
<1>1. /\ pd.Enabled = (c.Enabled /\ s.Enabled)
      /\ pd.ServerContextTakeover \in BOOLEAN /\ pd.ClientContextTakeover \in BOOLEAN
      /\ pd.ServerMaxWindowBits = s.ServerMaxWindowBits
      /\ pd.ClientMaxWindowBits = s.ClientMaxWindowBits
  BY ServerParameters
<1>2. c.Enabled \in BOOLEAN /\ s.Enabled \in BOOLEAN
  BY DEF Options
<1> HIDE DEF pd
<1>3. CASE pd.Enabled
  <2>1. pd.ServerMaxWindowBits \in Bits /\ pd.ClientMaxWindowBits \in Bits
    BY <1>1, <1>2, <1>3
  <2>2. r = ClientPD(genResponseHeader(pd), c)
    BY <1>3
  <2> HIDE DEF r
  <2>3. /\ r.Enabled = c.Enabled
        /\ r.ServerContextTakeover = pd.ServerContextTakeover
        /\ r.ClientContextTakeover = pd.ClientContextTakeover
        /\ r.ServerMaxWindowBits = pd.ServerMaxWindowBits
        /\ r.ClientMaxWindowBits = pd.ClientMaxWindowBits
    BY <1>1, <2>1, <2>2, ClientParameters
  <2>4. /\ r.Enabled = pd.Enabled
        /\ ServerWindow(r) = ServerWindow(pd)
        /\ ClientWindow(r) = ClientWindow(pd)
    BY <1>1, <1>2, <1>3, <2>3 DEF ServerWindow, ClientWindow, Window
  <2> QED BY <2>4 DEF r, pd
<1>4. CASE ~pd.Enabled
  <2>1. r.Enabled = FALSE
    BY <1>4, NoAnswer
  <2> HIDE DEF r
  <2>2. /\ r.Enabled = pd.Enabled
        /\ ServerWindow(r) = ServerWindow(pd)
        /\ ClientWindow(r) = ClientWindow(pd)
    BY <1>1, <1>2, <1>4, <2>1 DEF ServerWindow, ClientWindow, Window
  <2> QED BY <2>2 DEF r, pd
<1> QED BY <1>3, <1>4

-----------------------------------------------------------------------------
(* The parameters at the two ends, as functions of the two configurations  *)
(* alone.                                                                  *)
ServerEnd == ServerPD(Offer(clientOption), serverOption)
Answer    == IF ServerEnd.Enabled THEN genResponseHeader(ServerEnd) ELSE NoHeader
ClientEnd == ClientPD(Answer, clientOption)

OptionsReady ==
    /\ clientOption \in Options /\ serverOption \in Options
    /\ serverOption.Enabled =>
          serverOption.ServerMaxWindowBits \in Bits /\ serverOption.ClientMaxWindowBits \in Bits

(* The two messages carry the offer and the answer, and a Conn is built    *)
(* from its end's parameters.                                              *)
RequestIsOffer  == request.sent => request.extensions = Offer(clientOption)
ResponseIsAnswer == response.sent /\ response.status = 101 => response.extensions = Answer
ServerConn ==
    server.state = "open" =>
        /\ server.pd = ServerEnd
        /\ server.cpsWindow = ServerWindow(ServerEnd)
        /\ server.dpsWindow = ClientWindow(ServerEnd)
ClientConn ==
    client.state = "open" =>
        /\ client.pd = ClientEnd
        /\ client.cpsWindow = ClientWindow(ClientEnd)
        /\ client.dpsWindow = ServerWindow(ClientEnd)

HInv == OptionsReady /\ RequestIsOffer /\ ResponseIsAnswer /\ ServerConn /\ ClientConn

(* The invariant holds at the start... *)
LEMMA HInvInit == Init => HInv
<1> SUFFICES ASSUME Init PROVE HInv
  OBVIOUS
<1>1. OptionsReady
  <2>1. PICK o \in ClientOptions : clientOption = initClientOption(o)
    BY DEF Init
  <2>2. PICK p \in ServerOptions : serverOption = initServerOption(p)
    BY DEF Init
  <2>3. o \in Options /\ p \in Options
    BY HandshakeAssumption
  <2> QED BY <2>1, <2>2, <2>3, InitOptions DEF OptionsReady
<1>2. RequestIsOffer /\ ResponseIsAnswer /\ ServerConn /\ ClientConn
  BY DEF Init, RequestIsOffer, ResponseIsAnswer, ServerConn, ClientConn, NoMessage, End
<1> QED BY <1>1, <1>2 DEF HInv

(* The configurations stay, and with them what is derived from them. *)
LEMMA SameEnds ==
    UNCHANGED options => /\ Offer(clientOption)' = Offer(clientOption)
                         /\ ServerEnd' = ServerEnd /\ Answer' = Answer /\ ClientEnd' = ClientEnd
                         /\ OptionsReady' = OptionsReady
  BY DEF options, Offer, ServerEnd, Answer, ClientEnd, OptionsReady

(* ...and every step preserves it. *)
LEMMA HInvNext == HInv /\ [Next]_vars => HInv'
<1> SUFFICES ASSUME HInv, [Next]_vars PROVE HInv'
  OBVIOUS
<1>0. UNCHANGED options
  BY DEF Next, ClientStep, StartRequest, TakeResult, Expire, ReadResponse, ReadResponseFails, WriteRequest,
         ReadRequestFails, Refuse, Upgrade, UpgradeFails, options, vars
<1>1. OptionsReady'
  BY <1>0, SameEnds DEF HInv
<1>2. CASE UNCHANGED vars
  BY <1>2 DEF HInv, RequestIsOffer, ResponseIsAnswer, ServerConn, ClientConn, vars, OptionsReady,
              ServerEnd, Answer, ClientEnd
<1>3. ASSUME UNCHANGED <<request, response, server>>,
             StartRequest \/ TakeResult \/ Expire \/ ReadResponseFails
      PROVE  HInv'
  <2>1. client'.state # "open"
    BY <1>3 DEF StartRequest, TakeResult, Expire, ReadResponseFails, End
  <2> QED BY <1>0, <1>1, <1>3, <2>1, SameEnds DEF HInv, RequestIsOffer, ResponseIsAnswer, ServerConn, ClientConn
<1>4. CASE ReadResponse
  <2>1. ClientConn'
    <3>1. CASE client'.state # "open"
      BY <3>1 DEF ClientConn
    <3>2. CASE client'.state = "open"
      <4>1. /\ response.sent /\ response.status = 101
            /\ client' = [state |-> "open", pd |-> ClientPD(response.extensions, clientOption),
                          subprotocol |-> ClientProtocol,
                          cpsWindow |-> ClientWindow(ClientPD(response.extensions, clientOption)),
                          dpsWindow |-> ServerWindow(ClientPD(response.extensions, clientOption))]
        BY <1>4, <3>2 DEF ReadResponse, End
      <4>2. ClientPD(response.extensions, clientOption) = ClientEnd
        BY <4>1 DEF HInv, ResponseIsAnswer, ClientEnd
      <4> QED BY <1>0, <4>1, <4>2, SameEnds DEF ClientConn
    <3> QED BY <3>1, <3>2
  <2> QED BY <1>0, <1>1, <1>4, <2>1, SameEnds
          DEF HInv, RequestIsOffer, ResponseIsAnswer, ServerConn, ReadResponse
<1>5. CASE WriteRequest
  <2>1. RequestIsOffer'
    BY <1>0, <1>5, SameEnds DEF WriteRequest, HInv, RequestIsOffer, Offer, options
  <2> QED BY <1>0, <1>1, <1>5, <2>1, SameEnds
          DEF HInv, ResponseIsAnswer, ServerConn, ClientConn, WriteRequest
<1>6. CASE ReadRequestFails \/ Refuse
  <2>1. server'.state # "open"
    BY <1>6 DEF ReadRequestFails, Refuse, End
  <2>2. ResponseIsAnswer'
    BY <1>0, <1>6, SameEnds DEF ReadRequestFails, Refuse, BadRequest, HInv, ResponseIsAnswer
  <2>3. request' = request /\ client' = client
    BY <1>6 DEF ReadRequestFails, Refuse
  <2> QED BY <1>0, <1>1, <2>1, <2>2, <2>3, SameEnds DEF HInv, RequestIsOffer, ServerConn, ClientConn
<1>7. CASE Upgrade \/ UpgradeFails
  <2>1. /\ ServerPD(request.extensions, serverOption) = ServerEnd
        /\ request' = request /\ client' = client
    BY <1>7 DEF Upgrade, UpgradeFails, HInv, RequestIsOffer, ServerEnd
  <2>2. Switching(ServerEnd).extensions = Answer
    BY DEF Switching, Answer
  <2>3. ResponseIsAnswer'
    <3>1. response' \in {NoMessage, BadRequest, Switching(ServerEnd)}
      BY <1>7, <2>1 DEF Upgrade, UpgradeFails
    <3> QED BY <1>0, <2>2, <3>1, SameEnds DEF ResponseIsAnswer, NoMessage, BadRequest
  <2>4. ServerConn'
    <3>1. CASE Upgrade
      <4>1. server' = [state |-> "open", pd |-> ServerEnd, subprotocol |-> ServerProtocol,
                       cpsWindow |-> ServerWindow(ServerEnd), dpsWindow |-> ClientWindow(ServerEnd)]
        BY <2>1, <3>1 DEF Upgrade
      <4> QED BY <1>0, <4>1, SameEnds DEF ServerConn
    <3>2. CASE UpgradeFails
      BY <3>2 DEF UpgradeFails, End, ServerConn
    <3> QED BY <1>7, <3>1, <3>2
  <2> QED BY <1>0, <1>1, <2>1, <2>3, <2>4, SameEnds DEF HInv, RequestIsOffer, ClientConn
<1> QED
  <2>1. CASE StartRequest \/ TakeResult \/ Expire \/ ReadResponseFails
    <3>1. UNCHANGED <<request, response, server>>
      BY <2>1 DEF StartRequest, TakeResult, Expire, ReadResponseFails
    <3> QED BY <1>3, <2>1, <3>1
  <2> QED BY <1>2, <1>4, <1>5, <1>6, <1>7, <2>1 DEF Next, ClientStep

(* Two gws ends that both have a Conn use the same window for each         *)
(* direction, whatever the two are configured with (initClientOption,      *)
(* initServerOption, the two getPermessageDeflate), and in particular for  *)
(* window bits outside 8..15, which no run has in every combination.       *)
THEOREM WindowsAgree == Spec => []WindowsMatch
<1>1. HInv => WindowsMatch
  <2> SUFFICES ASSUME HInv, BothOpen
               PROVE  /\ client.pd.Enabled = server.pd.Enabled
                      /\ client.cpsWindow = server.dpsWindow
                      /\ server.cpsWindow = client.dpsWindow
    BY DEF WindowsMatch
  <2>1. /\ ClientEnd.Enabled = ServerEnd.Enabled
        /\ ServerWindow(ClientEnd) = ServerWindow(ServerEnd)
        /\ ClientWindow(ClientEnd) = ClientWindow(ServerEnd)
    BY SameWindows DEF HInv, OptionsReady, ClientEnd, ServerEnd, Answer
  <2> QED BY <2>1 DEF HInv, ServerConn, ClientConn, BothOpen
<1> QED BY <1>1, HInvInit, HInvNext, PTL DEF Spec

-----------------------------------------------------------------------------
(* A set of indices that is not empty has a least one. *)
LEMMA LeastIndex ==
    ASSUME NEW S \in SUBSET Nat, S # {}
    PROVE  \E i \in S : \A j \in S : i <= j
<1>1. PICK i \in S : \A j \in S : ~(<<j, i>> \in OpToRel(<, Nat))
  BY WFMin, NatLessThanWellFounded
<1>2. \A j \in S : ~(j < i)
  BY <1>1 DEF OpToRel
<1> QED BY <1>2

(* What GetIntersectionElem returns: an element of both lists, or none. *)
LEMMA Intersection ==
    ASSUME NEW a, NEW b, Len(a) \in Nat, Len(b) \in Nat
    PROVE  LET e == GetIntersectionElem(a, b)
           IN  \/ /\ \E i \in 1..Len(a) : a[i] = e
                  /\ \E j \in 1..Len(b) : b[j] = e
               \/ /\ e = NoProtocol
                  /\ \A i \in 1..Len(a), j \in 1..Len(b) : a[i] # b[j]
<1> DEFINE common == {i \in 1..Len(a) : \E j \in 1..Len(b) : a[i] = b[j]}
           e == GetIntersectionElem(a, b)
<1>1. e = IF common = {} THEN NoProtocol ELSE a[CHOOSE i \in common : \A j \in common : i <= j]
  BY DEF GetIntersectionElem
<1>2. CASE common = {}
  BY <1>1, <1>2
<1>3. CASE common # {}
  <2>1. \E i \in common : \A j \in common : i <= j
    <3>1. common \in SUBSET Nat
      OBVIOUS
    <3> HIDE DEF common
    <3> QED BY <1>3, <3>1, LeastIndex
  <2>2. PICK i \in common : e = a[i]
    BY <1>1, <1>3, <2>1
  <2>3. (\E k \in 1..Len(a) : a[k] = e) /\ (\E j \in 1..Len(b) : b[j] = e)
    BY <2>2
  <2> QED BY <2>3
<1> QED BY <1>2, <1>3

(* The server's choice and, of a list with that choice alone, the client's *)
(* (getSubProtocol).                                                       *)
Chosen == GetIntersectionElem(serverProtocols, clientProtocols)
Kept   == GetIntersectionElem(clientProtocols, IF Chosen = NoProtocol THEN <<>> ELSE <<Chosen>>)

(* The messages carry the lists and the choice. *)
Lists == Len(clientProtocols) \in Nat /\ Len(serverProtocols) \in Nat
RequestLists    == request.sent => request.protocols = clientProtocols
ResponseChoice  == response.sent /\ response.status = 101 => response.protocol = Chosen
ServerChoice    == server.state = "open" => server.subprotocol = Chosen
ClientChoice    == client.state = "open" => client.subprotocol = Kept

PInv == Lists /\ RequestLists /\ ResponseChoice /\ ServerChoice /\ ClientChoice

(* Both ends keep the same, which both lists have. *)
LEMMA KeptIsChosen ==
    ASSUME Lists
    PROVE  /\ Kept = Chosen
           /\ Chosen # NoProtocol => /\ \E i \in 1..Len(clientProtocols) : clientProtocols[i] = Chosen
                                     /\ \E i \in 1..Len(serverProtocols) : serverProtocols[i] = Chosen
<1>1. Chosen # NoProtocol => /\ \E i \in 1..Len(clientProtocols) : clientProtocols[i] = Chosen
                             /\ \E i \in 1..Len(serverProtocols) : serverProtocols[i] = Chosen
  BY Intersection DEF Lists, Chosen
<1>2. CASE Chosen = NoProtocol
  <2>1. Len(<<>>) \in Nat /\ 1..Len(<<>>) = {}
    OBVIOUS
  <2>2. Kept = GetIntersectionElem(clientProtocols, <<>>)
    BY <1>2 DEF Kept
  <2>3. Kept = NoProtocol
    BY <2>1, <2>2, Intersection DEF Lists
  <2> QED BY <1>1, <1>2, <2>3
<1>3. CASE Chosen # NoProtocol
  <2> DEFINE only == <<Chosen>>
  <2>1. Len(only) \in Nat /\ 1..Len(only) = {1} /\ only[1] = Chosen
    OBVIOUS
  <2>2. Kept = GetIntersectionElem(clientProtocols, only)
    BY <1>3 DEF Kept
  <2> HIDE DEF only
  <2>3. Kept = Chosen
    BY <1>1, <1>3, <2>1, <2>2, Intersection DEF Lists
  <2> QED BY <1>1, <2>3
<1> QED BY <1>2, <1>3

(* The invariant holds at the start... *)
LEMMA PInvInit == Init => PInv
  BY HandshakeAssumption
  DEF Init, PInv, Lists, RequestLists, ResponseChoice, ServerChoice, ClientChoice, NoMessage, End

(* ...and every step preserves it. *)
LEMMA PInvNext == PInv /\ [Next]_vars => PInv'
<1> SUFFICES ASSUME PInv, [Next]_vars PROVE PInv'
  OBVIOUS
<1>0. UNCHANGED options
  BY DEF Next, ClientStep, StartRequest, TakeResult, Expire, ReadResponse, ReadResponseFails, WriteRequest,
         ReadRequestFails, Refuse, Upgrade, UpgradeFails, options, vars
<1>1. Lists' /\ Chosen' = Chosen /\ Kept' = Kept /\ clientProtocols' = clientProtocols
  BY <1>0 DEF options, PInv, Lists, Chosen, Kept
<1>2. CASE UNCHANGED vars
  BY <1>1, <1>2 DEF PInv, RequestLists, ResponseChoice, ServerChoice, ClientChoice, vars
<1>3. CASE StartRequest \/ TakeResult \/ Expire \/ ReadResponseFails
  <2>1. client'.state # "open" /\ UNCHANGED <<request, response, server>>
    BY <1>3 DEF StartRequest, TakeResult, Expire, ReadResponseFails, End
  <2> QED BY <1>1, <2>1 DEF PInv, RequestLists, ResponseChoice, ServerChoice, ClientChoice
<1>4. CASE ReadResponse
  <2>1. ClientChoice'
    <3>1. ASSUME client'.state = "open" PROVE client'.subprotocol = Kept
      <4>1. response.sent /\ response.status = 101 /\ client'.subprotocol = ClientProtocol
        BY <1>4, <3>1 DEF ReadResponse, End
      <4>2. ClientProtocol = Kept
        BY <4>1 DEF PInv, ResponseChoice, ClientProtocol, Answered, Kept
      <4> QED BY <4>1, <4>2
    <3> QED BY <1>1, <3>1 DEF ClientChoice
  <2> QED BY <1>1, <1>4, <2>1 DEF PInv, RequestLists, ResponseChoice, ServerChoice, ReadResponse
<1>5. CASE WriteRequest
  BY <1>1, <1>5 DEF WriteRequest, PInv, RequestLists, ResponseChoice, ServerChoice, ClientChoice
<1>6. CASE ReadRequestFails \/ Refuse
  BY <1>1, <1>6 DEF ReadRequestFails, Refuse, BadRequest, End,
                    PInv, RequestLists, ResponseChoice, ServerChoice, ClientChoice
<1>7. CASE Upgrade \/ UpgradeFails
  <2>1. ServerProtocol = Chosen /\ request' = request /\ client' = client
    BY <1>7 DEF Upgrade, UpgradeFails, PInv, RequestLists, ServerProtocol, Chosen
  <2>2. \A pd : Switching(pd).protocol = Chosen
    BY <2>1 DEF Switching
  <2>3. ResponseChoice'
    <3>1. response' \in {NoMessage, BadRequest, Switching(ServerPD(request.extensions, serverOption))}
      BY <1>7 DEF Upgrade, UpgradeFails
    <3> QED BY <1>1, <2>2, <3>1 DEF ResponseChoice, NoMessage, BadRequest
  <2>4. ServerChoice'
    BY <1>1, <1>7, <2>1 DEF Upgrade, UpgradeFails, End, ServerChoice
  <2> QED BY <1>1, <2>1, <2>3, <2>4 DEF PInv, RequestLists, ClientChoice
<1> QED BY <1>2, <1>3, <1>4, <1>5, <1>6, <1>7 DEF Next, ClientStep

(* Two gws ends that both have a Conn have the same subprotocol, which is  *)
(* one of both lists or none, for lists of any length and with repeats     *)
(* (WithSubProtocol, getSubProtocol, GetIntersectionElem).                 *)
THEOREM SubprotocolsAgree == Spec => []SubprotocolAgrees
<1>1. PInv => SubprotocolAgrees
  BY KeptIsChosen DEF PInv, ServerChoice, ClientChoice, SubprotocolAgrees, BothOpen
<1> QED BY <1>1, PInvInit, PInvNext, PTL DEF Spec
=============================================================================
