-------------------------- MODULE HeartbeatProofs --------------------------
(***************************************************************************)
(* Proofs about Heartbeat, for any lengths of the ping interval, the       *)
(* reconnect window and the cleanup interval.                              *)
(***************************************************************************)
EXTENDS Heartbeat, TLAPS

Inv == TypeOK /\ SilenceAccounted

\* The types: in particular the interval never outlives its socket.
LEMMA TypeInductive ==
    ASSUME TypeOK, [Next]_vars
    PROVE  TypeOK'
<1>. USE HeartbeatAssumption DEF Off
<1>0. /\ PING_INTERVAL \in Nat /\ lost \in Nat /\ Elapsed \in Nat
      /\ timer \in Int /\ PING_INTERVAL \in {Off} \cup 0..PING_INTERVAL
  BY DEF TypeOK, Elapsed
<1>1. \A d \in Nat : PutOff(d) => lost' \in Nat
  BY <1>0 DEF PutOff
<1>2. /\ StopPing => lost' \in Nat /\ timer' = Off
      /\ StartPing => lost' \in Nat /\ timer' = PING_INTERVAL
  BY <1>0, <1>1 DEF StopPing, StartPing
<1>3. \A s \in Seq(UpFrame) : s # <<>> => Tail(s) \in Seq(UpFrame)
  OBVIOUS
<1>4. \A s \in Seq(DownFrame) : s # <<>> => Tail(s) \in Seq(DownFrame)
  OBVIOUS
<1>5. <<"room.connect">> \in Seq(UpFrame) /\ <<>> \in Seq(UpFrame) /\ <<>> \in Seq(DownFrame)
  BY DEF UpFrame
<1>6. \A s \in Seq(DownFrame) :
        /\ \A f \in DownFrame : Append(s, f) \in Seq(DownFrame)
        /\ s \o <<"unauthorized", "close">> \in Seq(DownFrame)
        /\ s \o <<"session_expired", "close">> \in Seq(DownFrame)
  <2>1. <<"unauthorized", "close">> \in Seq(DownFrame)
    BY DEF DownFrame
  <2>2. <<"session_expired", "close">> \in Seq(DownFrame)
    BY DEF DownFrame
  <2>. QED  BY <2>1, <2>2
<1>7. \A s \in Seq(UpFrame) : \A f \in UpFrame : Append(s, f) \in Seq(UpFrame)
  OBVIOUS
<1>8. CASE PingFires
  BY <1>8, <1>0, <1>1, <1>7 DEF PingFires, TypeOK, UpFrame
<1>9. CASE ReceiveSummary
  BY <1>9, <1>0, <1>2, <1>4 DEF ReceiveSummary, Receiving, TypeOK
<1>10. CASE ReceivePong
  BY <1>10, <1>4 DEF ReceivePong, Receiving, TypeOK
<1>11. CASE ReceiveError
  BY <1>11, <1>2, <1>4 DEF ReceiveError, Receiving, TypeOK
<1>12. CASE ReceiveClose
  BY <1>12, <1>2, <1>5 DEF ReceiveClose, Receiving, TypeOK
<1>13. CASE HandleConnect
  BY <1>13, <1>3, <1>6 DEF HandleConnect, Handling, TypeOK, DownFrame
<1>14. CASE HandlePing
  <2>1. up' \in Seq(UpFrame)
    BY <1>14, <1>3 DEF HandlePing, Handling, TypeOK
  <2>2. down' \in Seq(DownFrame)
    BY <1>14, <1>6 DEF HandlePing, TypeOK, DownFrame
  <2>3. 0 \in 0..(RECONNECT_WINDOW + CLEANUP_INTERVAL - 1)
    OBVIOUS
  <2>4. silent' \in 0..(RECONNECT_WINDOW + CLEANUP_INTERVAL - 1) /\ lost' \in Nat
    BY <1>14, <2>3 DEF HandlePing, TypeOK
  <2>5. pinged' \in BOOLEAN /\ server' \in {"none", "open", "connected"}
    BY <1>14, Zenon DEF HandlePing, TypeOK
  <2>. QED  BY <1>14, <2>1, <2>2, <2>4, <2>5 DEF HandlePing, TypeOK
<1>15. CASE HandleP2P
  BY <1>15, <1>3, <1>6 DEF HandleP2P, Handling, TypeOK, DownFrame
<1>16. CASE HandleNothing \/ HandleChat
  <2>1. CASE HandleNothing
    BY <2>1, <1>3 DEF HandleNothing, TypeOK
  <2>2. CASE HandleChat
    BY <2>2, <1>3, <1>6 DEF HandleChat, Handling, TypeOK, DownFrame
  <2>. QED  BY <1>16, <2>1, <2>2
<1>17. CASE Mount
  BY <1>17, <1>5 DEF Mount, TypeOK
<1>18. CASE Disconnect \/ LateClose
  <2>1. CASE Disconnect
    <3>1. late' \in BOOLEAN
      BY <2>1, Zenon DEF Disconnect, TypeOK
    <3>2. signalState' \in {"connecting", "connected", "error", "closed"}
      BY <2>1 DEF Disconnect
    <3>. QED  BY <2>1, <1>2, <1>5, <3>1, <3>2 DEF Disconnect, TypeOK
  <2>2. CASE LateClose
    <3>1. signalState' \in {"connecting", "connected", "error", "closed"}
      BY <2>2 DEF LateClose
    <3>. QED  BY <2>2, <1>2, <3>1 DEF LateClose, TypeOK
  <2>. QED  BY <1>18, <2>1, <2>2
<1>19. CASE SendFrame
  <2>1. up' \in Seq(UpFrame)
    BY <1>19, <1>7 DEF SendFrame, TypeOK, UpFrame
  <2>2. sends' \in 0..MaxSends
    BY <1>19 DEF SendFrame, TypeOK
  <2>. QED  BY <1>19, <2>1, <2>2 DEF SendFrame, TypeOK
<1>20. CASE UpdateSettings
  BY <1>20, <1>6 DEF UpdateSettings, TypeOK, DownFrame
<1>21. CASE Token \/ Reap
  <2>1. 0 \in 0..(RECONNECT_WINDOW + CLEANUP_INTERVAL - 1)
    OBVIOUS
  <2>2. CASE Token
    <3>1. sends' \in 0..MaxSends
      BY <2>2 DEF Token, TypeOK
    <3>. QED  BY <2>1, <2>2, <3>1 DEF Token, TypeOK
  <2>3. CASE Reap
    BY <2>1, <2>3 DEF Reap, TypeOK
  <2>. QED  BY <1>21, <2>2, <2>3
<1>22. CASE Advance
  BY <1>22, <1>0, <1>1 DEF Advance, TypeOK
<1>23. CASE UNCHANGED vars
  BY <1>23 DEF vars, TypeOK
<1>. QED
  BY <1>8, <1>9, <1>10, <1>11, <1>12, <1>13, <1>14, <1>15, <1>16, <1>17, <1>18, <1>19, <1>20,
     <1>21, <1>22, <1>23 DEF Next, Client, Server

\* Stops and restarts charge to lost what they take from the interval.
LEMMA SilenceInductive ==
    ASSUME TypeOK, SilenceAccounted, [Next]_vars
    PROVE  SilenceAccounted'
<1>. USE HeartbeatAssumption DEF Off
<1>0. /\ PING_INTERVAL \in Nat /\ lost \in Nat /\ Elapsed \in Nat /\ Elapsed <= PING_INTERVAL
      /\ timer \in Int /\ silent \in Nat
      /\ seated \in BOOLEAN /\ pinged \in BOOLEAN
      /\ (seated /\ pinged => silent <= lost + Elapsed)
  BY DEF TypeOK, Elapsed, SilenceAccounted
<1>1. ASSUME StopPing \/ StartPing, UNCHANGED <<seated, silent, pinged>>
      PROVE  SilenceAccounted'
  <2>1. Elapsed' = 0
    BY <1>1, <1>0 DEF StopPing, StartPing, Elapsed
  <2>2. seated /\ pinged => lost' = lost + Elapsed
    BY <1>1 DEF StopPing, StartPing, PutOff
  <2>. QED  BY <2>1, <2>2, <1>0, <1>1 DEF SilenceAccounted
<1>2. CASE PingFires
  <2>1. Elapsed = PING_INTERVAL /\ Elapsed' = 0
    BY <1>2, <1>0 DEF PingFires, Elapsed
  <2>2. seated /\ pinged => lost' = lost + PING_INTERVAL
    BY <1>2 DEF PingFires, PutOff
  <2>. QED  BY <2>1, <2>2, <1>0, <1>2 DEF SilenceAccounted, PingFires
<1>3. CASE ReceiveSummary \/ ReceiveError \/ ReceiveClose \/ Disconnect \/ LateClose
  BY <1>3, <1>1 DEF ReceiveSummary, ReceiveError, ReceiveClose, Disconnect, LateClose
<1>4. CASE HandlePing
  <2>1. CASE seated
    BY <2>1, <1>4, <1>0, TypeInductive DEF HandlePing, SilenceAccounted, Elapsed, TypeOK
  <2>2. CASE ~seated
    BY <2>2, <1>4 DEF HandlePing, SilenceAccounted
  <2>. QED  BY <2>1, <2>2
<1>5. CASE Mount \/ Reap
  BY <1>5 DEF Mount, Reap, SilenceAccounted
<1>6. CASE Token
  BY <1>6, <1>0 DEF Token, SilenceAccounted, Elapsed
<1>7. CASE Advance
  <2>1. seated /\ pinged => silent' = silent + 1 /\ lost' + Elapsed' = lost + Elapsed + 1
    BY <1>7, <1>0 DEF Advance, PutOff, Elapsed, TypeOK
  <2>. QED  BY <2>1, <1>0, <1>7 DEF Advance, SilenceAccounted
<1>8. CASE \/ ReceivePong \/ HandleConnect \/ HandleP2P \/ HandleChat
           \/ HandleNothing \/ SendFrame \/ UpdateSettings \/ UNCHANGED vars
  BY <1>8 DEF ReceivePong, HandleConnect, HandleP2P, HandleChat, HandleNothing, SendFrame,
              UpdateSettings, vars, SilenceAccounted, Elapsed
<1>. QED
  BY <1>2, <1>3, <1>4, <1>5, <1>6, <1>7, <1>8 DEF Next, Client, Server

\* Once a ping was handled, the silence of a session is accounted for by the running
\* interval and by what stops and restarts have cost.
THEOREM SilenceAccountedHolds == Spec => [](TypeOK /\ SilenceAccounted)
<1>1. Init => Inv
  <2>1. <<>> \in Seq(UpFrame) /\ <<>> \in Seq(DownFrame)
    OBVIOUS
  <2>2. Init => silent \in 0..(RECONNECT_WINDOW + CLEANUP_INTERVAL - 1) /\ lost \in Nat
               /\ updates \in 0..MaxUpdates /\ sends \in 0..MaxSends
    BY HeartbeatAssumption DEF Init
  <2>3. Init => seated \in BOOLEAN /\ late \in BOOLEAN /\ sessionExpired \in BOOLEAN /\ pinged \in BOOLEAN
    BY Zenon DEF Init
  <2>4. Init => TypeOK
    BY <2>1, <2>2, <2>3 DEF Init, TypeOK
  <2>. QED  BY <2>4 DEF Init, Inv, SilenceAccounted
<1>2. Inv /\ [Next]_vars => Inv'
  BY TypeInductive, SilenceInductive DEF Inv
<1>. QED  BY <1>1, <1>2, PTL DEF Spec, Inv

\* The reaper takes the seat of a session that pinged only after its heartbeat was kept
\* from firing for the window but one interval.
THEOREM ReapedForSilenceHolds == Spec => ReapedForSilence
<1>1. Inv /\ [Next]_vars
        => [seated /\ ~seated' /\ pinged => lost >= RECONNECT_WINDOW - PING_INTERVAL]_vars
  <2>. SUFFICES ASSUME Inv, [Next]_vars, seated, ~seated', pinged
                PROVE  lost >= RECONNECT_WINDOW - PING_INTERVAL
    OBVIOUS
  <2>1. Reap
    BY DEF Next, Client, Server, vars, ReceiveSummary, ReceivePong, ReceiveError, ReceiveClose,
           PingFires, HandleConnect, HandlePing, HandleP2P, HandleChat, HandleNothing,
           Mount, Disconnect, LateClose, SendFrame, UpdateSettings, Token, Advance
  <2>2. silent >= RECONNECT_WINDOW /\ silent <= lost + Elapsed
    BY <2>1 DEF Reap, Inv, SilenceAccounted
  <2>3. Elapsed \in Nat /\ Elapsed <= PING_INTERVAL /\ lost \in Nat /\ silent \in Nat
    BY HeartbeatAssumption DEF Inv, TypeOK, Elapsed, Off
  <2>. QED  BY <2>2, <2>3, HeartbeatAssumption
<1>. QED  BY <1>1, SilenceAccountedHolds, PTL DEF ReapedForSilence, Spec, Inv

-----------------------------------------------------------------------------
(* A client that believes it is connected.                                 *)

Closing(frames) == \E i \in DOMAIN frames : frames[i] = "close"

\* What the server has closed it has said so; and it says nothing before room.connect.
HeardInv ==
    /\ ConnectedIsHeard
    /\ socket = "open" => server # "none" \/ Closing(down)
    /\ server = "open" => down = <<>> /\ signalState # "connected"

\* A frame that arrives or is added leaves the close where it is, unless it is the close.
LEMMA ClosingStays ==
    ASSUME NEW s \in Seq(DownFrame)
    PROVE  /\ \A f : Closing(s) => Closing(Append(s, f))
           /\ \A f \in DownFrame : Closing(s \o <<f, "close">>)
           /\ s # <<>> /\ Head(s) # "close" /\ Closing(s) => Closing(Tail(s))
<1>1. ASSUME NEW f, Closing(s)  PROVE Closing(Append(s, f))
  <2>1. PICK i \in DOMAIN s : s[i] = "close"
    BY <1>1 DEF Closing
  <2>2. i \in DOMAIN Append(s, f) /\ Append(s, f)[i] = s[i]
    BY <2>1
  <2>. QED  BY <2>1, <2>2 DEF Closing
<1>2. ASSUME NEW f \in DownFrame  PROVE Closing(s \o <<f, "close">>)
  <2>1. <<f, "close">> \in Seq(DownFrame)
    BY DEF DownFrame
  <2>2. /\ Len(s) + 2 \in DOMAIN (s \o <<f, "close">>)
        /\ (s \o <<f, "close">>)[Len(s) + 2] = "close"
    BY <2>1
  <2>. QED  BY <2>2 DEF Closing
<1>3. ASSUME s # <<>>, Head(s) # "close", Closing(s)  PROVE Closing(Tail(s))
  <2>1. PICK i \in DOMAIN s : s[i] = "close"
    BY <1>3 DEF Closing
  <2>2. i \in 1..Len(s) /\ i # 1
    BY <1>3, <2>1
  <2>3. i - 1 \in DOMAIN Tail(s) /\ Tail(s)[i - 1] = s[i]
    BY <1>3, <2>2
  <2>. QED  BY <2>1, <2>3 DEF Closing
<1>. QED  BY <1>1, <1>2, <1>3

LEMMA HeardInductive ==
    ASSUME TypeOK, HeardInv, [Next]_vars
    PROVE  HeardInv'
<1>. USE HeartbeatAssumption DEF Off
<1>0. down \in Seq(DownFrame)
  BY DEF TypeOK
<1>1. CASE ReceiveSummary \/ ReceivePong \/ ReceiveError
  <2>1. /\ socket = "open" /\ down # <<>> /\ Head(down) # "close" /\ down' = Tail(down)
        /\ UNCHANGED <<server, socket>>
    BY <1>1 DEF ReceiveSummary, ReceivePong, ReceiveError, Receiving, Errors
  <2>2. server = "connected" \/ Closing(down')
    <3>1. server # "open"
      BY <2>1 DEF HeardInv
    <3>2. server \in {"none", "open", "connected"}
      BY DEF TypeOK
    <3>. QED  BY <1>0, <2>1, <3>1, <3>2, ClosingStays DEF HeardInv
  <2>3. signalState' = "connected" => timer' # Off
    BY <1>1 DEF ReceiveSummary, ReceivePong, ReceiveError, StartPing, HeardInv, ConnectedIsHeard
  <2>. QED  BY <2>1, <2>2, <2>3 DEF HeardInv, ConnectedIsHeard, Closing
<1>2. CASE ReceiveClose \/ Disconnect
  BY <1>2 DEF ReceiveClose, Disconnect, Receiving, HeardInv, ConnectedIsHeard
<1>3. CASE Mount
  BY <1>3 DEF Mount, HeardInv, ConnectedIsHeard
<1>4. CASE LateClose
  BY <1>4 DEF LateClose, HeardInv, ConnectedIsHeard
<1>5. CASE PingFires \/ SendFrame \/ HandleNothing \/ Token \/ Reap \/ UNCHANGED vars
  <2>1. UNCHANGED <<server, socket, down, signalState>> /\ (timer' = timer \/ timer' # Off)
    BY <1>5 DEF PingFires, SendFrame, HandleNothing, Token, Reap, vars
  <2>. QED  BY <2>1 DEF HeardInv, ConnectedIsHeard
<1>6. CASE Advance
  <2>1. UNCHANGED <<server, socket, down, signalState>> /\ (timer # Off => timer' # Off)
    BY <1>6 DEF Advance, TypeOK
  <2>. QED  BY <2>1 DEF HeardInv, ConnectedIsHeard
<1>7. CASE HandleConnect
  <2>1. /\ server = "open" /\ UNCHANGED <<socket, signalState, timer>>
        /\ server' = "connected" \/ (server' = "none" /\ down' = down \o <<"unauthorized", "close">>)
    BY <1>7 DEF HandleConnect
  <2>2. server' = "connected" \/ Closing(down')
    BY <1>0, <2>1, ClosingStays DEF DownFrame
  <2>. QED  BY <2>1, <2>2 DEF HeardInv, ConnectedIsHeard, Closing
<1>8. CASE HandlePing
  <2>1. /\ server = "connected" /\ UNCHANGED <<socket, signalState, timer>>
        /\ server' = "connected" \/ (server' = "none" /\ down' = down \o <<"session_expired", "close">>)
    BY <1>8 DEF HandlePing
  <2>2. server' = "connected" \/ Closing(down')
    BY <1>0, <2>1, ClosingStays DEF DownFrame
  <2>. QED  BY <2>1, <2>2 DEF HeardInv, ConnectedIsHeard, Closing
<1>9. CASE HandleP2P \/ HandleChat \/ UpdateSettings
  BY <1>9 DEF HandleP2P, HandleChat, UpdateSettings, HeardInv, ConnectedIsHeard
<1>. QED
  BY <1>1, <1>2, <1>3, <1>4, <1>5, <1>6, <1>7, <1>8, <1>9 DEF Next, Client, Server

\* However frames, closes and the reaper interleave, a client that believes it is
\* connected pings over a socket the server reads, or is about to see it closed.
THEOREM ConnectedIsHeardHolds == Spec => []ConnectedIsHeard
<1>1. Init => HeardInv
  BY DEF Init, HeardInv, ConnectedIsHeard
<1>2. TypeOK /\ HeardInv /\ [Next]_vars => HeardInv'
  BY HeardInductive
<1>3. HeardInv => ConnectedIsHeard
  BY DEF HeardInv
<1>. QED  BY <1>1, <1>2, <1>3, SilenceAccountedHolds, PTL DEF Spec
=============================================================================
