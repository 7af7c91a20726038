-------------------------- MODULE SignalHubProofs --------------------------
(***************************************************************************)
(* Proofs about SignalHub, for any number of sessions and sockets and any  *)
(* bound on chat: subscriptions and registry entries are those of sockets  *)
(* that still exist, and every connected client is told the settings in    *)
(* force and every chat message since it connected, once and in order.     *)
(***************************************************************************)
EXTENDS SignalHub, TLAPS

\* Nothing is sent to a socket before it connects: with the properties this is the
\* inductive invariant.
Unspoken == \A k \in Sockets : ~conn[k].connected => conn[k].heard = <<>>

Inv == TypeOK /\ HubInv /\ Unspoken /\ SummaryCurrent /\ ChatExactlyOnce

-----------------------------------------------------------------------------
(* What the actions do to the hub.                                         *)

\* A settings call, at once or after its hash.
Updates ==
    /\ settings' \in Settings
    /\ PublishSettings(settings')
    /\ UNCHANGED <<subscribers, registry, said>>

\* A change of phase that neither adds nor takes a subscription.
Shuts(k) ==
    /\ Receiving(k)
    /\ conn' = [conn EXCEPT ![k].phase = "closing"]
    /\ UNCHANGED <<settings, subscribers, registry, said>>

\* A socket that leaves, by an error or by its close.
Leaves(k) ==
    /\ Cleanup(k)
    /\ \/ conn' = [conn EXCEPT ![k].phase = "failed"]
       \/ conn' = [conn EXCEPT ![k] = NewSocket("closed")]
    /\ UNCHANGED <<settings, said>>

\* The part of TypeOK that the hub does not look at.
RoomTypeOK ==
    /\ live \in BOOLEAN
    /\ seats \subseteq Sessions /\ gone \subseteq Sessions
    /\ hashing \in {"none", "rotate", "set-passcode"}

\* Every step keeps the types of the room.
LEMMA RoomTyped ==
    ASSUME TypeOK, [Next]_vars
    PROVE  RoomTypeOK'
<1>0. RoomTypeOK
  BY DEF TypeOK, RoomTypeOK
<1>. QED
  BY <1>0
  DEF Next, vars, roomVars, RoomTypeOK, Join, Reap, DeleteRoom, SetQualityCap, ClearPasscode,
      HashStart, HashFinish, Open, BadMessage, ConnectRefused, Connect, PingExpired, StartClosing,
      ChatSend, SocketError, Close

\* To the hub every step is one of these.
LEMMA HubSteps ==
    ASSUME TypeOK, [Next]_vars
    PROVE  \/ UNCHANGED <<settings, conn, subscribers, registry, said>>
           \/ Updates
           \/ \E k \in Sockets : Open(k) \/ Shuts(k) \/ ChatSend(k) \/ Leaves(k)
           \/ \E k \in Sockets, i \in Sessions : Connect(k, i)
<1>1. ASSUME NEW cap \in QualityCaps, SetQualityCap(cap)
      PROVE  Updates
  BY <1>1 DEF SetQualityCap, Updates, TypeOK, Settings
<1>2. ASSUME NEW mode \in {"open", "lobby"}, ClearPasscode(mode)
      PROVE  Updates
  BY <1>2 DEF ClearPasscode, Updates, TypeOK, Settings, AccessMode
<1>3. CASE HashFinish
  BY <1>3 DEF HashFinish, Updates, TypeOK, Settings, AccessMode
<1>4. ASSUME NEW k \in Sockets, BadMessage(k) \/ ConnectRefused(k) \/ PingExpired(k)
      PROVE  Shuts(k)
  BY <1>4 DEF BadMessage, ConnectRefused, PingExpired, StartClosing, Shuts, Receiving
<1>5. ASSUME NEW k \in Sockets, SocketError(k) \/ Close(k)
      PROVE  Leaves(k)
  BY <1>5 DEF SocketError, Close, Leaves
<1>6. ASSUME NEW i \in Sessions, Join(i) \/ Reap(i)
      PROVE  UNCHANGED <<settings, conn, subscribers, registry, said>>
  BY <1>6 DEF Join, Reap
<1>7. CASE DeleteRoom \/ \E kind \in {"rotate", "set-passcode"} : HashStart(kind)
  BY <1>7 DEF DeleteRoom, HashStart
<1>8. CASE UNCHANGED vars
  BY <1>8 DEF vars
<1>. QED  BY <1>1, <1>2, <1>3, <1>4, <1>5, <1>6, <1>7, <1>8 DEF Next

-----------------------------------------------------------------------------
(* The invariant.                                                          *)

\* The part of TypeOK that the hub can disturb.
HubTypeOK ==
    /\ settings \in Settings
    /\ conn \in [Sockets -> Socket]
    /\ \A k \in Sockets : Len(conn[k].heard) + conn[k].since <= said
    /\ subscribers \subseteq Sockets
    /\ registry \in [Sessions -> Sockets \cup {NoSocket}]
    /\ said \in Nat

HubOK == HubTypeOK /\ HubInv /\ Unspoken /\ SummaryCurrent /\ ChatExactlyOnce

\* A new handler is well typed and has heard nothing.
LEMMA NewSocketTyped ==
    ASSUME NEW phase \in {"closed", "open", "closing", "failed"}
    PROVE  /\ NewSocket(phase) \in Socket
           /\ NewSocket(phase).phase = phase /\ ~NewSocket(phase).connected
           /\ NewSocket(phase).heard = <<>> /\ NewSocket(phase).since = 0
           /\ Len(NewSocket(phase).heard) = 0
<1>1. <<>> \in Seq(Nat) /\ Len(<<>>) = 0
  OBVIOUS
<1>. QED  BY <1>1 DEF NewSocket, Socket

\* Telling a socket the settings, or that it may offer, changes nothing else of it.
LEMMA SocketUpdated ==
    ASSUME NEW s \in Socket, NEW t,
           \/ t = [s EXCEPT !.offered = TRUE]
           \/ \E now \in Settings : t = [s EXCEPT !.told = now]
    PROVE  /\ t \in Socket
           /\ t.phase = s.phase /\ t.connected = s.connected /\ t.session = s.session
           /\ t.since = s.since /\ t.heard = s.heard
           /\ t = [s EXCEPT !.offered = TRUE] => t.told = s.told
BY DEF Socket

\* Connecting.
LEMMA ConnectKeepsHub ==
    ASSUME HubOK, NEW k \in Sockets, NEW i \in Sessions, Connect(k, i)
    PROVE  HubOK'
<1>. DEFINE snapshot == [conn[k] EXCEPT !.connected = TRUE, !.session = i, !.since = said,
                            !.told = IF conn[k].phase = "open" THEN settings ELSE @]
            welcomed == [conn EXCEPT ![k] = snapshot]
<1>0. HubTypeOK /\ HubInv /\ Unspoken /\ SummaryCurrent /\ ChatExactlyOnce
  BY DEF HubOK
<1>1. /\ conn[k] \in Socket /\ Receiving(k) /\ ~conn[k].connected
      /\ settings \in Settings /\ said \in Nat
      /\ subscribers' = subscribers \cup {k}
      /\ registry' = [registry EXCEPT ![i] = k]
      /\ UNCHANGED <<settings, said>>
  BY <1>0 DEF HubTypeOK, Connect
<1>2. conn[k].heard = <<>>
  BY <1>0, <1>1 DEF Unspoken
<1>3. /\ snapshot \in Socket /\ snapshot.connected /\ snapshot.session = i
      /\ snapshot.since = said /\ snapshot.heard = <<>> /\ snapshot.phase = conn[k].phase
      /\ conn[k].phase = "open" => snapshot.told = settings
  BY <1>1, <1>2 DEF Socket
<1>4. /\ conn' \in [Sockets -> Socket]
      /\ \A j \in Sockets :
            /\ conn'[j].phase = welcomed[j].phase /\ conn'[j].connected = welcomed[j].connected
            /\ conn'[j].session = welcomed[j].session /\ conn'[j].told = welcomed[j].told
            /\ conn'[j].since = welcomed[j].since /\ conn'[j].heard = welcomed[j].heard
  <2>1. welcomed \in [Sockets -> Socket]
    BY <1>0, <1>3 DEF HubTypeOK
  <2>2. PICK offered \in [Sockets -> BOOLEAN] :
           conn' = [j \in Sockets |-> IF offered[j] THEN [welcomed[j] EXCEPT !.offered = TRUE]
                                      ELSE welcomed[j]]
    <3>. DEFINE o == [j \in Sockets |->
                        /\ Capacity = 2 /\ Cardinality(Peers') = 2
                        /\ welcomed[j].phase = "open" /\ \E p \in Sessions : registry'[p] = j]
    <3>1. o \in [Sockets -> BOOLEAN]
      OBVIOUS
    <3>2. conn' = [j \in Sockets |-> IF o[j] THEN [welcomed[j] EXCEPT !.offered = TRUE]
                                     ELSE welcomed[j]]
      BY DEF Connect
    <3>. QED  BY <3>1, <3>2
  <2>. HIDE DEF welcomed
  <2>3. ASSUME NEW j \in Sockets
        PROVE  /\ conn'[j] \in Socket
               /\ conn'[j].phase = welcomed[j].phase /\ conn'[j].connected = welcomed[j].connected
               /\ conn'[j].session = welcomed[j].session /\ conn'[j].told = welcomed[j].told
               /\ conn'[j].since = welcomed[j].since /\ conn'[j].heard = welcomed[j].heard
    <3>1. welcomed[j] \in Socket
      BY <2>1
    <3>2. conn'[j] = welcomed[j] \/ conn'[j] = [welcomed[j] EXCEPT !.offered = TRUE]
      BY <2>2
    <3>. QED  BY <3>1, <3>2, SocketUpdated
  <2>. QED  BY <2>2, <2>3
<1>5. \A j \in Sockets : j # k => welcomed[j] = conn[j]
  BY <1>0 DEF HubTypeOK
<1>6. welcomed[k] = snapshot
  BY <1>0 DEF HubTypeOK
<1>. HIDE DEF snapshot, welcomed
<1>7. HubTypeOK'
  <2>1. \A j \in Sockets : Len(conn'[j].heard) + conn'[j].since <= said
    BY <1>0, <1>1, <1>3, <1>4, <1>5, <1>6 DEF HubTypeOK
  <2>. QED  BY <2>1, <1>0, <1>1, <1>4 DEF HubTypeOK
<1>8. HubInv'
  <2>1. subscribers' = {j \in Sockets : Receiving(j)' /\ conn'[j].connected}
    BY <1>0, <1>1, <1>3, <1>4, <1>5, <1>6 DEF HubInv, Receiving
  <2>2. \A p \in Peers' : registry'[p] \in subscribers' /\ conn'[registry'[p]].session = p
    <3>1. TAKE p \in Peers'
    <3>2. CASE p = i
      BY <3>2, <1>0, <1>1, <1>3, <1>4, <1>6 DEF HubTypeOK
    <3>3. CASE p # i
      <4>1. p \in Peers /\ registry'[p] = registry[p]
        BY <3>3, <1>0, <1>1 DEF HubTypeOK, Peers
      <4>2. registry[p] \in subscribers /\ conn[registry[p]].session = p /\ registry[p] \in Sockets
        BY <4>1, <1>0 DEF HubInv, HubTypeOK
      <4>3. registry[p] # k
        BY <4>2, <1>0, <1>1 DEF HubInv
      <4>. QED  BY <4>1, <4>2, <4>3, <1>1, <1>4, <1>5
    <3>. QED  BY <3>2, <3>3
  <2>. QED  BY <2>1, <2>2 DEF HubInv
<1>9. Unspoken'
  BY <1>0, <1>3, <1>4, <1>5, <1>6 DEF Unspoken
<1>10. SummaryCurrent'
  BY <1>0, <1>1, <1>3, <1>4, <1>5, <1>6 DEF SummaryCurrent, Connected
<1>11. ChatExactlyOnce'
  <2>1. ASSUME NEW j \in Sockets, Connected(j)'
        PROVE  conn'[j].heard = [n \in 1..(said' - conn'[j].since) |-> conn'[j].since + n]
    <3>1. CASE j = k
      <4>1. conn'[j].heard = <<>> /\ conn'[j].since = said /\ said' = said
        BY <3>1, <1>1, <1>3, <1>4, <1>6
      <4>2. 1..(said - said) = {}
        BY <1>1
      <4>. QED  BY <4>1, <4>2
    <3>2. CASE j # k
      <4>1. conn'[j].heard = conn[j].heard /\ conn'[j].since = conn[j].since /\ Connected(j)
        BY <2>1, <3>2, <1>4, <1>5 DEF Connected
      <4>2. conn[j].heard = [n \in 1..(said - conn[j].since) |-> conn[j].since + n]
        BY <4>1, <1>0 DEF ChatExactlyOnce
      <4>. QED  BY <4>1, <4>2, <1>1
    <3>. QED  BY <3>1, <3>2
  <2>. QED  BY <2>1 DEF ChatExactlyOnce
<1>. QED  BY <1>7, <1>8, <1>9, <1>10, <1>11 DEF HubOK

\* A settings call.
LEMMA UpdatesKeepHub ==
    ASSUME HubOK, Updates
    PROVE  HubOK'
<1>0. /\ HubTypeOK /\ HubInv /\ Unspoken /\ SummaryCurrent /\ ChatExactlyOnce
      /\ settings' \in Settings
      /\ conn' = [k \in Sockets |-> IF Hears(k) THEN [conn[k] EXCEPT !.told = settings']
                                    ELSE conn[k]]
      /\ UNCHANGED <<subscribers, registry, said>>
  BY DEF HubOK, Updates, PublishSettings
<1>1. conn' \in [Sockets -> Socket]
  <2>1. ASSUME NEW k \in Sockets
        PROVE  (IF Hears(k) THEN [conn[k] EXCEPT !.told = settings'] ELSE conn[k]) \in Socket
    <3>1. conn[k] \in Socket
      BY <1>0 DEF HubTypeOK
    <3>. QED  BY <1>0, <3>1, SocketUpdated
  <2>. QED  BY <1>0, <2>1
<1>2. \A k \in Sockets :
        /\ conn'[k].phase = conn[k].phase /\ conn'[k].connected = conn[k].connected
        /\ conn'[k].session = conn[k].session /\ conn'[k].since = conn[k].since
        /\ conn'[k].heard = conn[k].heard
        /\ Hears(k) => conn'[k].told = settings'
  BY <1>0 DEF HubTypeOK, Socket
<1>3. HubTypeOK'
  BY <1>0, <1>1, <1>2 DEF HubTypeOK
<1>4. HubInv'
  BY <1>0, <1>2 DEF HubInv, HubTypeOK, Receiving, Peers
<1>5. Unspoken'
  BY <1>0, <1>2 DEF Unspoken
<1>6. SummaryCurrent'
  BY <1>0, <1>2 DEF SummaryCurrent, Connected, HubInv, Hears, Receiving
<1>7. ChatExactlyOnce'
  BY <1>0, <1>2 DEF ChatExactlyOnce, Connected
<1>. QED  BY <1>3, <1>4, <1>5, <1>6, <1>7 DEF HubOK

\* A message, which every connected socket is sent.
LEMMA ChatKeepsHub ==
    ASSUME HubOK, NEW c \in Sockets, ChatSend(c)
    PROVE  HubOK'
<1>0. /\ HubTypeOK /\ HubInv /\ Unspoken /\ SummaryCurrent /\ ChatExactlyOnce
      /\ said \in Nat /\ said' = said + 1
      /\ conn' = [k \in Sockets |-> IF Hears(k) THEN [conn[k] EXCEPT !.heard = Append(@, said + 1)]
                                    ELSE conn[k]]
      /\ UNCHANGED <<settings, subscribers, registry>>
  BY DEF HubOK, HubTypeOK, ChatSend, PublishChat
<1>1. \A k \in Sockets :
        /\ conn[k] \in Socket /\ conn[k].heard \in Seq(Nat) /\ conn[k].since \in Nat
        /\ Append(conn[k].heard, said + 1) \in Seq(Nat)
        /\ Len(Append(conn[k].heard, said + 1)) = Len(conn[k].heard) + 1
        /\ Len(conn[k].heard) \in Nat
  BY <1>0 DEF HubTypeOK, Socket
<1>2. \A k \in Sockets :
        /\ conn'[k].phase = conn[k].phase /\ conn'[k].connected = conn[k].connected
        /\ conn'[k].session = conn[k].session /\ conn'[k].since = conn[k].since
        /\ conn'[k].told = conn[k].told
        /\ conn'[k].heard = IF Hears(k) THEN Append(conn[k].heard, said + 1) ELSE conn[k].heard
  BY <1>0, <1>1 DEF Socket
<1>3. HubTypeOK'
  <2>1. conn' \in [Sockets -> Socket]
    BY <1>0, <1>1 DEF Socket
  <2>2. ASSUME NEW k \in Sockets
        PROVE  Len(conn'[k].heard) + conn'[k].since <= said'
    <3>1. Len(conn[k].heard) + conn[k].since <= said /\ said \in Nat /\ said' = said + 1
      BY <1>0 DEF HubTypeOK
    <3>2. Len(conn'[k].heard) \in Nat /\ Len(conn'[k].heard) <= Len(conn[k].heard) + 1
      <4>1. conn'[k].heard = conn[k].heard \/ conn'[k].heard = Append(conn[k].heard, said + 1)
        BY <1>2
      <4>2. /\ Len(conn[k].heard) \in Nat
            /\ Len(Append(conn[k].heard, said + 1)) = Len(conn[k].heard) + 1
        BY <1>1
      <4>. QED  BY <4>1, <4>2
    <3>3. /\ conn'[k].since = conn[k].since /\ conn[k].since \in Nat
          /\ Len(conn[k].heard) \in Nat
      BY <1>1, <1>2
    <3>4. \A l, m, s, n \in Nat : m <= l + 1 /\ l + s <= n => m + s <= n + 1
      OBVIOUS
    <3>. QED  BY <3>1, <3>2, <3>3, <3>4
  <2>3. /\ settings' \in Settings /\ subscribers' \subseteq Sockets
        /\ registry' \in [Sessions -> Sockets \cup {NoSocket}] /\ said' \in Nat
    BY <1>0 DEF HubTypeOK
  <2>. QED  BY <2>1, <2>2, <2>3 DEF HubTypeOK
<1>4. HubInv'
  BY <1>0, <1>2 DEF HubInv, HubTypeOK, Receiving, Peers
<1>5. Unspoken'
  BY <1>0, <1>2 DEF Unspoken, Hears, HubInv
<1>6. SummaryCurrent'
  BY <1>0, <1>2 DEF SummaryCurrent, Connected
<1>7. ChatExactlyOnce'
  <2>1. ASSUME NEW k \in Sockets, Connected(k)'
        PROVE  conn'[k].heard = [n \in 1..(said' - conn'[k].since) |-> conn'[k].since + n]
    <3>1. Connected(k) /\ Hears(k)
      BY <2>1, <1>0, <1>2 DEF Connected, Hears, HubInv, Receiving
    <3>. DEFINE b == conn[k].since
                N == said - conn[k].since
    <3>2. conn[k].heard = [n \in 1..N |-> b + n]
      BY <3>1, <1>0 DEF ChatExactlyOnce
    <3>3. N \in Nat /\ b \in Nat /\ said = b + N
      <4>1. Len(conn[k].heard) + conn[k].since <= said
        BY <1>0 DEF HubTypeOK
      <4>. QED  BY <4>1, <1>0, <1>1
    <3>. HIDE DEF b, N
    <3>4. Append([n \in 1..N |-> b + n], said + 1) = [n \in 1..(N + 1) |-> b + n]
      BY <3>3
    <3>5. said' - b = N + 1
      BY <3>3, <1>0
    <3>6. conn'[k].since = b /\ conn'[k].heard = Append(conn[k].heard, said + 1)
      BY <1>2, <3>1 DEF b
    <3>. QED  BY <3>2, <3>4, <3>5, <3>6
  <2>. QED  BY <2>1 DEF ChatExactlyOnce
<1>. QED  BY <1>3, <1>4, <1>5, <1>6, <1>7 DEF HubOK

\* A socket that leaves takes its own subscription and the entry of its session.
LEMMA LeavingKeepsHub ==
    ASSUME HubOK, NEW k \in Sockets, Leaves(k)
    PROVE  HubOK'
<1>0. /\ HubTypeOK /\ HubInv /\ Unspoken /\ SummaryCurrent /\ ChatExactlyOnce
      /\ UNCHANGED <<settings, said>>
      /\ subscribers' = subscribers \ {k}
      /\ registry' = IF conn[k].connected THEN [registry EXCEPT ![conn[k].session] = NoSocket]
                     ELSE registry
  BY DEF HubOK, Leaves, Cleanup
<1>1. PICK c \in Socket :
        /\ conn' = [conn EXCEPT ![k] = c]
        /\ c.phase \in {"failed", "closed"}
        /\ c.heard = <<>> \/ c.heard = conn[k].heard
        /\ Len(c.heard) + c.since <= said
        /\ ~c.connected => c.heard = <<>>
  <2>1. conn[k] \in Socket /\ Len(conn[k].heard) + conn[k].since <= said /\ said \in Nat
        /\ (~conn[k].connected => conn[k].heard = <<>>)
    BY <1>0 DEF HubTypeOK, Unspoken
  <2>2. CASE conn' = [conn EXCEPT ![k].phase = "failed"]
    <3>. DEFINE f == [conn[k] EXCEPT !.phase = "failed"]
    <3>1. /\ f \in Socket /\ f.phase = "failed" /\ f.heard = conn[k].heard /\ f.since = conn[k].since
          /\ f.connected = conn[k].connected
      BY <2>1 DEF Socket
    <3>2. conn' = [conn EXCEPT ![k] = f]
      BY <2>2
    <3>. HIDE DEF f
    <3>. QED  BY <3>1, <3>2, <2>1
  <2>3. CASE conn' = [conn EXCEPT ![k] = NewSocket("closed")]
    <3>. DEFINE f == NewSocket("closed")
    <3>1. /\ f \in Socket /\ f.phase = "closed"
          /\ f.heard = <<>> /\ f.since = 0
          /\ Len(f.heard) = 0
      BY NewSocketTyped
    <3>2. conn' = [conn EXCEPT ![k] = f]
      BY <2>3
    <3>. HIDE DEF f
    <3>3. Len(f.heard) + f.since <= said
      BY <2>1, <3>1
    <3>. QED  BY <3>1, <3>2, <3>3, ZenonT(30)
  <2>. QED  BY <2>2, <2>3 DEF Leaves
<1>2. /\ conn' \in [Sockets -> Socket] /\ conn'[k] = c
      /\ \A j \in Sockets : j # k => conn'[j] = conn[j]
  BY <1>0, <1>1 DEF HubTypeOK
<1>3. /\ registry' \in [Sessions -> Sockets \cup {NoSocket}]
      /\ \A i \in Sessions : registry'[i] # NoSocket => registry'[i] = registry[i]
      /\ \A i \in Sessions : registry[i] # NoSocket /\ registry[i] = k => registry'[i] = NoSocket
  <2>1. conn[k] \in Socket /\ registry \in [Sessions -> Sockets \cup {NoSocket}]
    BY <1>0 DEF HubTypeOK
  <2>2. \A i \in Sessions : registry[i] # NoSocket /\ registry[i] = k =>
            conn[k].connected /\ conn[k].session = i
    BY <1>0 DEF HubInv, Peers
  <2>. QED  BY <1>0, <2>1, <2>2 DEF Socket
<1>4. HubTypeOK'
  BY <1>0, <1>1, <1>2, <1>3 DEF HubTypeOK
<1>5. HubInv'
  <2>1. subscribers' = {j \in Sockets : Receiving(j)' /\ conn'[j].connected}
    BY <1>0, <1>1, <1>2 DEF HubInv, Receiving
  <2>2. ASSUME NEW i \in Peers'
        PROVE  registry'[i] \in subscribers' /\ conn'[registry'[i]].session = i
    <3>1. i \in Peers /\ registry'[i] = registry[i] /\ registry[i] # k
      BY <2>2, <1>3 DEF Peers
    <3>2. registry[i] \in subscribers /\ conn[registry[i]].session = i /\ registry[i] \in Sockets
      BY <3>1, <1>0 DEF HubInv, HubTypeOK
    <3>. QED  BY <3>1, <3>2, <1>0, <1>2
  <2>. QED  BY <2>1, <2>2 DEF HubInv
<1>6. Unspoken'
  BY <1>0, <1>1, <1>2 DEF Unspoken
<1>7. SummaryCurrent'
  BY <1>0, <1>1, <1>2 DEF SummaryCurrent, Connected
<1>8. ChatExactlyOnce'
  <2>1. ASSUME NEW j \in Sockets, Connected(j)'
        PROVE  conn'[j].heard = [n \in 1..(said' - conn'[j].since) |-> conn'[j].since + n]
    <3>1. j # k
      BY <2>1, <1>1, <1>2 DEF Connected
    <3>2. conn'[j] = conn[j] /\ Connected(j)
      BY <2>1, <3>1, <1>2 DEF Connected
    <3>3. conn[j].heard = [n \in 1..(said - conn[j].since) |-> conn[j].since + n]
      BY <3>2, <1>0 DEF ChatExactlyOnce
    <3>. QED  BY <3>2, <3>3, <1>0
  <2>. QED  BY <2>1 DEF ChatExactlyOnce
<1>. QED  BY <1>4, <1>5, <1>6, <1>7, <1>8 DEF HubOK

\* A socket that opens, or that the server begins to close.
LEMMA PhaseKeepsHub ==
    ASSUME HubOK, NEW k \in Sockets, Open(k) \/ Shuts(k)
    PROVE  HubOK'
<1>0. /\ HubTypeOK /\ HubInv /\ Unspoken /\ SummaryCurrent /\ ChatExactlyOnce
      /\ UNCHANGED <<settings, subscribers, registry, said>>
  BY DEF HubOK, Open, Shuts
<1>1. PICK c \in Socket :
        /\ conn' = [conn EXCEPT ![k] = c]
        /\ c.phase \in {"open", "closing"}
        /\ c.phase = "open" => ~c.connected
        /\ c.connected = (conn[k].connected /\ Receiving(k))
        /\ c.connected => c.session = conn[k].session
        /\ Len(c.heard) + c.since <= said
        /\ ~c.connected => c.heard = <<>>
  <2>1. conn[k] \in Socket /\ Len(conn[k].heard) + conn[k].since <= said /\ said \in Nat
        /\ (~conn[k].connected => conn[k].heard = <<>>)
    BY <1>0 DEF HubTypeOK, Unspoken
  <2>2. CASE Shuts(k)
    <3>. DEFINE f == [conn[k] EXCEPT !.phase = "closing"]
    <3>1. /\ f \in Socket /\ f.phase = "closing" /\ f.heard = conn[k].heard /\ f.since = conn[k].since
          /\ f.connected = conn[k].connected /\ f.session = conn[k].session
      BY <2>1 DEF Socket
    <3>2. conn' = [conn EXCEPT ![k] = f] /\ Receiving(k)
      BY <2>2 DEF Shuts
    <3>. HIDE DEF f
    <3>3. conn[k].connected \in BOOLEAN
      BY <2>1 DEF Socket
    <3>. QED  BY <3>1, <3>2, <3>3, <2>1
  <2>3. CASE Open(k)
    <3>. DEFINE f == NewSocket("open")
    <3>1. conn' = [conn EXCEPT ![k] = f] /\ ~Receiving(k)
      BY <2>3 DEF Open, Receiving
    <3>2. /\ f \in Socket /\ f.phase = "open"
          /\ f.heard = <<>> /\ f.since = 0
          /\ Len(f.heard) = 0
      BY NewSocketTyped
    <3>3. f.connected = FALSE
      BY DEF NewSocket
    <3>. HIDE DEF f
    <3>4. Len(f.heard) + f.since <= said
      BY <2>1, <3>2
    <3>. QED  BY <3>1, <3>2, <3>3, <3>4, ZenonT(30)
  <2>. QED  BY <2>2, <2>3
<1>2. /\ conn' \in [Sockets -> Socket] /\ conn'[k] = c
      /\ \A j \in Sockets : j # k => conn'[j] = conn[j]
  BY <1>0, <1>1 DEF HubTypeOK
<1>3. HubTypeOK'
  BY <1>0, <1>1, <1>2 DEF HubTypeOK
<1>4. HubInv'
  <2>1. subscribers' = {j \in Sockets : Receiving(j)' /\ conn'[j].connected}
    <3>1. \A j \in Sockets : (Receiving(j)' /\ conn'[j].connected) = (Receiving(j) /\ conn[j].connected)
      <4>1. Receiving(k)'
        BY <1>1, <1>2 DEF Receiving
      <4>. QED  BY <4>1, <1>1, <1>2 DEF Receiving
    <3>. QED  BY <3>1, <1>0 DEF HubInv
  <2>2. ASSUME NEW i \in Peers'
        PROVE  registry'[i] \in subscribers' /\ conn'[registry'[i]].session = i
    <3>1. i \in Peers /\ registry[i] \in subscribers /\ conn[registry[i]].session = i
          /\ registry[i] \in Sockets /\ registry'[i] = registry[i]
      BY <2>2, <1>0 DEF HubInv, HubTypeOK, Peers
    <3>2. registry[i] = k => c.session = i
      BY <3>1, <1>0, <1>1 DEF HubInv
    <3>. QED  BY <3>1, <3>2, <1>0, <1>2
  <2>. QED  BY <2>1, <2>2 DEF HubInv
<1>5. Unspoken'
  BY <1>0, <1>1, <1>2 DEF Unspoken
<1>6. SummaryCurrent'
  BY <1>0, <1>1, <1>2 DEF SummaryCurrent, Connected
<1>7. ChatExactlyOnce'
  <2>1. ASSUME NEW j \in Sockets, Connected(j)'
        PROVE  conn'[j].heard = [n \in 1..(said' - conn'[j].since) |-> conn'[j].since + n]
    <3>1. j # k
      BY <2>1, <1>1, <1>2 DEF Connected
    <3>2. conn'[j] = conn[j] /\ Connected(j)
      BY <2>1, <3>1, <1>2 DEF Connected
    <3>3. conn[j].heard = [n \in 1..(said - conn[j].since) |-> conn[j].since + n]
      BY <3>2, <1>0 DEF ChatExactlyOnce
    <3>. QED  BY <3>2, <3>3, <1>0
  <2>. QED  BY <2>1 DEF ChatExactlyOnce
<1>. QED  BY <1>3, <1>4, <1>5, <1>6, <1>7 DEF HubOK

\* The hub of a new room.
LEMMA InitHub ==
    ASSUME Init
    PROVE  HubOK
<1>1. \A k \in Sockets : /\ conn[k] \in Socket /\ conn[k].phase = "closed" /\ ~conn[k].connected
                         /\ conn[k].heard = <<>> /\ conn[k].since = 0 /\ Len(conn[k].heard) = 0
  BY NewSocketTyped DEF Init
<1>2. HubTypeOK
  BY <1>1, NewSocketTyped DEF Init, HubTypeOK
<1>3. HubInv
  BY <1>1 DEF Init, HubInv, Receiving, Peers
<1>4. Unspoken /\ SummaryCurrent /\ ChatExactlyOnce
  BY <1>1 DEF Unspoken, SummaryCurrent, ChatExactlyOnce, Connected
<1>. QED  BY <1>2, <1>3, <1>4 DEF HubOK

-----------------------------------------------------------------------------
(* The theorems.                                                           *)

\* The inductive invariant: types, subscriptions and registry, and what every
\* connected client was told and has heard.
THEOREM HubInvariant == Spec => []Inv
<1>1. Init => Inv
  <2>. SUFFICES ASSUME Init PROVE Inv
    OBVIOUS
  <2>1. HubOK
    BY InitHub
  <2>2. TypeOK
    BY <2>1 DEF HubOK, HubTypeOK, Init, TypeOK
  <2>. QED  BY <2>1, <2>2 DEF HubOK, Inv
<1>2. Inv /\ [Next]_vars => Inv'
  <2>. SUFFICES ASSUME Inv, [Next]_vars PROVE Inv'
    OBVIOUS
  <2>1. TypeOK /\ HubOK
    BY DEF Inv, HubOK, TypeOK, HubTypeOK
  <2>2. HubOK'
    <3>1. CASE UNCHANGED <<settings, conn, subscribers, registry, said>>
      BY <2>1, <3>1 DEF HubOK, HubTypeOK, HubInv, Unspoken, SummaryCurrent, ChatExactlyOnce,
                        Connected, Receiving, Peers
    <3>. QED
      BY <2>1, <3>1, HubSteps, UpdatesKeepHub, PhaseKeepsHub, ChatKeepsHub, LeavingKeepsHub,
         ConnectKeepsHub
  <2>3. RoomTypeOK'
    BY <2>1, RoomTyped
  <2>. QED  BY <2>2, <2>3 DEF Inv, HubOK, HubTypeOK, RoomTypeOK, TypeOK
<1>. QED  BY <1>1, <1>2, PTL DEF Spec

\* No subscription and no registry entry outlives its socket or names another session.
THEOREM HubInvHolds == Spec => []HubInv
<1>1. Inv => HubInv
  BY DEF Inv
<1>. QED  BY <1>1, HubInvariant, PTL

\* Every connected client was last told the settings that are in force.
THEOREM SummaryCurrentHolds == Spec => []SummaryCurrent
<1>1. Inv => SummaryCurrent
  BY DEF Inv
<1>. QED  BY <1>1, HubInvariant, PTL

\* Every connected client was sent every message since it connected, once, in order.
THEOREM ChatExactlyOnceHolds == Spec => []ChatExactlyOnce
<1>1. Inv => ChatExactlyOnce
  BY DEF Inv
<1>. QED  BY <1>1, HubInvariant, PTL
=============================================================================
